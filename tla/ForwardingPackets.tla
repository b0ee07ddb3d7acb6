-------------------------- MODULE ForwardingPackets --------------------------
(***************************************************************************)
(* What becomes of each packet, for every value of the constants: none is  *)
(* lost and none is doubled; and Forwarding implements Relay.              *)
(*                                                                         *)
(* Every step that touches packets does one of two things.  Receive brings *)
(* in one with a new number.  All others take the first packet of one      *)
(* holder and add it to another, at the end or at the front: Moved shows   *)
(* that this keeps the packets distinct and complete, by following each    *)
(* place of the new state to the place its packet had before (Relocated).  *)
(*                                                                         *)
(* Of Relay, Receive is Accept.  A put into the reissue queue makes a      *)
(* packet late, a successful write forwards it, and all else is invisible. *)
(* A write is a step of Relay for three reasons, each an invariant: the    *)
(* packet was not written before (ConservationInv), its command is its     *)
(* stamp (StampInv), and if it never was late, whatever went out before it *)
(* on its channel and never was late has a lower number (OrderInv).        *)
(***************************************************************************)
EXTENDS ForwardingProofs

Entries == Packets \cup [id : Nat \ {0}, cmd : Cmds, by : Uploaders]

\* The parts of Conservation, of any assignment F of packets to the holders and any number n
\* of packets; and that no others are there.
Complete(F, n) ==
    \A i \in 1 .. n : \E h \in Holders : \E k \in DOMAIN F[h] : F[h][k].id = i

Distinct(F) ==
    \A g, h \in Holders : \A j \in DOMAIN F[g], k \in DOMAIN F[h] :
        F[g][j].id = F[h][k].id => g = h /\ j = k

Within(F, n) ==
    \A h \in Holders : \A k \in DOMAIN F[h] : F[h][k].id \in 1 .. n

ConservationInv ==
    /\ Complete(Held, Len(arrived))
    /\ Distinct(Held)
    /\ Within(Held, Len(arrived))

-----------------------------------------------------------------------------
LEMMA DistinctPlaces ==
    ASSUME NEW F, Distinct(F),
           NEW g \in Holders, NEW j \in DOMAIN F[g], NEW h \in Holders, NEW k \in DOMAIN F[h],
           F[g][j].id = F[h][k].id
    PROVE  g = h /\ j = k
BY DEF Distinct

\* At either end, a sequence with one more element is the old one with a gap at one place.
IsPut(e, s, t) == t = Append(s, e) \/ t = <<e>> \o s

LEMMA Inserted ==
    ASSUME NEW s \in Seq(Entries), NEW t, NEW e \in Entries, IsPut(e, s, t)
    PROVE  \E at \in 1 .. Len(s) + 1 :
               /\ DOMAIN t = 1 .. Len(s) + 1
               /\ t[at] = e
               /\ \A k \in 1 .. at - 1 : t[k] = s[k]
               /\ \A k \in at + 1 .. Len(s) + 1 : t[k] = s[k - 1]
<1>1. Len(s) \in Nat  BY LenProperties
<1>2. CASE t = Append(s, e)
  <2>1. /\ t \in Seq(Entries) /\ Len(t) = Len(s) + 1
        /\ \A k \in 1 .. Len(s) : t[k] = s[k]
        /\ t[Len(s) + 1] = e
    BY <1>2, AppendProperties
  <2>2. DOMAIN t = 1 .. Len(s) + 1  BY <2>1, LenProperties
  <2> WITNESS Len(s) + 1 \in 1 .. Len(s) + 1
  <2>3. QED  BY <1>1, <2>1, <2>2
<1>3. CASE t = <<e>> \o s
  <2>1. <<e>> \in Seq(Entries) /\ Len(<<e>>) = 1 /\ <<e>>[1] = e  OBVIOUS
  <2>2. /\ t \in Seq(Entries) /\ Len(t) = 1 + Len(s)
        /\ \A k \in 1 .. 1 + Len(s) : t[k] = IF k <= 1 THEN <<e>>[k] ELSE s[k - 1]
    BY <1>3, <2>1, ConcatProperties
  <2>3. DOMAIN t = 1 .. Len(s) + 1  BY <1>1, <2>2, LenProperties
  <2>4. t[1] = e /\ \A k \in 2 .. Len(s) + 1 : t[k] = s[k - 1]  BY <1>1, <2>1, <2>2
  <2> WITNESS 1 \in 1 .. Len(s) + 1
  <2>5. QED  BY <1>1, <2>3, <2>4
<1>4. QED  BY <1>2, <1>3 DEF IsPut

\* The first packet of a goes to b, at either end; b may change its command.
LEMMA Moved ==
    ASSUME NEW F \in [Holders -> Seq(Entries)], NEW G, NEW n,
           NEW a \in Holders, NEW b \in Holders, a # b, NEW e \in Entries,
           F[a] # <<>>, G[a] = Tail(F[a]), e.id = Head(F[a]).id,
           IsPut(e, F[b], G[b]),
           \A h \in Holders \ {a, b} : G[h] = F[h],
           Complete(F, n), Distinct(F), Within(F, n)
    PROVE  Complete(G, n) /\ Distinct(G) /\ Within(G, n)
<1>1. /\ Len(F[a]) \in Nat \ {0} /\ Len(F[b]) \in Nat
      /\ DOMAIN F[a] = 1 .. Len(F[a]) /\ DOMAIN F[b] = 1 .. Len(F[b])
      /\ e.id = F[a][1].id
  BY LenProperties, EmptySeq
<1>2. /\ DOMAIN G[a] = 1 .. Len(F[a]) - 1
      /\ \A k \in DOMAIN G[a] : G[a][k] = F[a][k + 1]
  <2>1. /\ Tail(F[a]) \in Seq(Entries) /\ Len(Tail(F[a])) = Len(F[a]) - 1
        /\ \A k \in 1 .. Len(Tail(F[a])) : Tail(F[a])[k] = F[a][k + 1]
    BY HeadTailProperties
  <2>2. DOMAIN Tail(F[a]) = 1 .. Len(Tail(F[a]))  BY <2>1, LenProperties
  <2>3. QED  BY <2>1, <2>2
<1>3. PICK at \in 1 .. Len(F[b]) + 1 :
          /\ DOMAIN G[b] = 1 .. Len(F[b]) + 1
          /\ G[b][at] = e
          /\ \A k \in 1 .. at - 1 : G[b][k] = F[b][k]
          /\ \A k \in at + 1 .. Len(F[b]) + 1 : G[b][k] = F[b][k - 1]
  <2>1. PICK s \in Seq(Entries) : s = F[b]  OBVIOUS
  <2>2. PICK t : t = G[b]  OBVIOUS
  <2>3. IsPut(e, s, t)  BY <2>1, <2>2
  <2>4. \E at \in 1 .. Len(s) + 1 :
            /\ DOMAIN t = 1 .. Len(s) + 1
            /\ t[at] = e
            /\ \A k \in 1 .. at - 1 : t[k] = s[k]
            /\ \A k \in at + 1 .. Len(s) + 1 : t[k] = s[k - 1]
    BY <2>3, Inserted
  <2>5. QED  BY <2>1, <2>2, <2>4
<1> DEFINE Origin(h, k, p, q) ==
               \/ h = a /\ p = a /\ q = k + 1
               \/ h = b /\ k = at /\ p = a /\ q = 1
               \/ h = b /\ k < at /\ p = b /\ q = k
               \/ h = b /\ k > at /\ p = b /\ q = k - 1
               \/ h \notin {a, b} /\ p = h /\ q = k
\* Each packet of the new state has an origin in the old one ...
<1>4. ASSUME NEW h \in Holders, NEW k \in DOMAIN G[h]
      PROVE  \E p \in Holders : \E q \in DOMAIN F[p] :
                 Origin(h, k, p, q) /\ F[p][q].id = G[h][k].id
  <2>1. CASE h = a
    <3>1. k + 1 \in DOMAIN F[a] /\ G[a][k] = F[a][k + 1]  BY <1>1, <1>2, <2>1
    <3>2. QED  BY <2>1, <3>1
  <2>2. CASE h = b /\ k = at
    <3>1. 1 \in DOMAIN F[a] /\ G[b][k].id = F[a][1].id  BY <1>1, <1>3, <2>2
    <3>2. QED  BY <2>2, <3>1
  <2>3. CASE h = b /\ k < at
    <3>1. k \in DOMAIN F[b] /\ G[b][k] = F[b][k]  BY <1>1, <1>3, <2>3
    <3>2. QED  BY <2>3, <3>1
  <2>4. CASE h = b /\ k > at
    <3>1. k \in at + 1 .. Len(F[b]) + 1 /\ k - 1 \in 1 .. Len(F[b])  BY <1>1, <1>3, <2>4
    <3>2. k - 1 \in DOMAIN F[b] /\ G[b][k] = F[b][k - 1]  BY <1>1, <1>3, <3>1
    <3>3. Origin(h, k, b, k - 1) /\ F[b][k - 1].id = G[h][k].id  BY <2>4, <3>2
    <3>4. QED  BY <3>2, <3>3
  <2>5. CASE h \notin {a, b}
    <3>1. G[h] = F[h]  BY <2>5
    <3>2. QED  BY <2>5, <3>1
  <2>6. h = b => k = at \/ k < at \/ k > at  BY <1>1, <1>3
  <2>7. QED  BY <2>1, <2>2, <2>3, <2>4, <2>5, <2>6
\* ... different packets have different origins ...
<1>5. ASSUME NEW g \in Holders, NEW j \in DOMAIN G[g], NEW h \in Holders, NEW k \in DOMAIN G[h],
             NEW p, NEW q, Origin(g, j, p, q), Origin(h, k, p, q)
      PROVE  g = h /\ j = k
  <2>1. g = a => j \in 1 .. Len(F[a]) - 1  BY <1>2
  <2>2. h = a => k \in 1 .. Len(F[a]) - 1  BY <1>2
  <2>3. g = b => j \in 1 .. Len(F[b]) + 1  BY <1>3
  <2>4. h = b => k \in 1 .. Len(F[b]) + 1  BY <1>3
  <2>5. CASE g = a  BY <1>1, <1>5, <2>1, <2>2, <2>4, <2>5
  <2>6. CASE g = b  BY <1>1, <1>3, <1>5, <2>2, <2>3, <2>4, <2>6
  <2>7. CASE g \notin {a, b}  BY <1>5, <2>7
  <2>8. QED  BY <2>5, <2>6, <2>7
\* ... and no packet of the old state is left over.
<1>6. ASSUME NEW h \in Holders, NEW k \in DOMAIN F[h]
      PROVE  \E g \in Holders : \E j \in DOMAIN G[g] : G[g][j].id = F[h][k].id
  <2>1. CASE h = a /\ k = 1
    <3>1. at \in DOMAIN G[b] /\ G[b][at].id = F[h][k].id  BY <1>1, <1>3, <2>1
    <3>2. QED  BY <3>1
  <2>2. CASE h = a /\ k # 1
    <3>1. k - 1 \in DOMAIN G[a] /\ G[a][k - 1] = F[h][k]  BY <1>1, <1>2, <2>2
    <3>2. QED  BY <3>1
  <2>3. CASE h = b /\ k < at
    <3>1. k \in DOMAIN G[b] /\ G[b][k] = F[h][k]  BY <1>1, <1>3, <2>3
    <3>2. QED  BY <3>1
  <2>4. CASE h = b /\ ~(k < at)
    <3>1. k + 1 \in DOMAIN G[b] /\ G[b][k + 1] = F[h][k]  BY <1>1, <1>3, <2>4
    <3>2. QED  BY <3>1
  <2>5. CASE h \notin {a, b}
    <3>1. G[h] = F[h]  BY <2>5
    <3>2. QED  BY <3>1
  <2>6. QED  BY <2>1, <2>2, <2>3, <2>4, <2>5
<1> HIDE DEF Origin
<1>7. Complete(G, n)
  <2> SUFFICES ASSUME NEW i \in 1 .. n
               PROVE  \E g \in Holders : \E j \in DOMAIN G[g] : G[g][j].id = i
    BY DEF Complete
  <2>1. PICK h \in Holders : \E k \in DOMAIN F[h] : F[h][k].id = i  BY DEF Complete
  <2>2. PICK k \in DOMAIN F[h] : F[h][k].id = i  BY <2>1
  <2>3. QED  BY <1>6, <2>2
<1>8. Distinct(G)
  <2> SUFFICES ASSUME NEW g \in Holders, NEW h \in Holders,
                      NEW j \in DOMAIN G[g], NEW k \in DOMAIN G[h],
                      G[g][j].id = G[h][k].id
               PROVE  g = h /\ j = k
    BY DEF Distinct
  <2>1. PICK p1 \in Holders : \E q \in DOMAIN F[p1] :
                 Origin(g, j, p1, q) /\ F[p1][q].id = G[g][j].id
    BY <1>4
  <2>2. PICK q1 \in DOMAIN F[p1] : Origin(g, j, p1, q1) /\ F[p1][q1].id = G[g][j].id
    BY <2>1
  <2>3. PICK p2 \in Holders : \E q \in DOMAIN F[p2] :
                 Origin(h, k, p2, q) /\ F[p2][q].id = G[h][k].id
    BY <1>4
  <2>4. PICK q2 \in DOMAIN F[p2] : Origin(h, k, p2, q2) /\ F[p2][q2].id = G[h][k].id
    BY <2>3
  <2>5. p1 = p2 /\ q1 = q2  BY <2>2, <2>4, DistinctPlaces
  <2>6. QED  BY <1>5, <2>2, <2>4, <2>5
<1>9. Within(G, n)
  <2> SUFFICES ASSUME NEW h \in Holders, NEW k \in DOMAIN G[h]
               PROVE  G[h][k].id \in 1 .. n
    BY DEF Within
  <2>1. PICK p \in Holders : \E q \in DOMAIN F[p] : F[p][q].id = G[h][k].id  BY <1>4
  <2>2. QED  BY <2>1 DEF Within
<1>10. QED  BY <1>7, <1>8, <1>9

-----------------------------------------------------------------------------
\* What is where, place by place.
Places ==
    /\ Held[<<"realtime", 0>>] = realtime_queue
    /\ Held[<<"reissue", 0>>] = reissue_queue
    /\ Held[<<"packet", 0>>] = OneOrNone(packet)
    /\ Held[<<"moving", 0>>] = OneOrNone(moving)
    /\ Held[<<"sent", 0>>] = sent
    /\ \A u \in Uploaders : Held[<<"carData", u>>] = OneOrNone(carData[u])

LEMMA HolderNames ==
    /\ {<<"realtime", 0>>, <<"reissue", 0>>, <<"packet", 0>>, <<"moving", 0>>, <<"sent", 0>>}
          \subseteq Holders
    /\ \A u \in Uploaders : <<"carData", u>> \in Holders
    /\ \A h \in Holders : \/ h = <<"realtime", 0>> \/ h = <<"reissue", 0>>
                           \/ h = <<"packet", 0>> \/ h = <<"moving", 0>> \/ h = <<"sent", 0>>
                           \/ \E u \in Uploaders : h = <<"carData", u>>
BY DEF Holders

LEMMA PlacesHold == Places /\ Places'
BY HolderNames DEF Places, Held, Content

\* What one thread holds.
LEMMA OnePacket ==
    ASSUME NEW p \in Packets
    PROVE  /\ p # NoPacket /\ p \in Entries
           /\ OneOrNone(p) = <<p>> /\ OneOrNone(NoPacket) = <<>>
           /\ <<p>> # <<>> /\ Head(<<p>>) = p /\ Tail(<<p>>) = <<>>
<1>1. p # NoPacket  BY ForwardingAssumption DEF Packets
<1>2. p \in Entries  BY DEF Entries
<1>3. QED  BY <1>1, <1>2 DEF OneOrNone

LEMMA IntoEmptyHands ==
    ASSUME NEW e
    PROVE  IsPut(e, <<>>, <<e>>)
BY DEF IsPut

LEMMA HeldType == TypeOK => Held \in [Holders -> Seq(Entries)]
<1> SUFFICES ASSUME TypeOK
             PROVE  Held \in [Holders -> Seq(Entries)]
  OBVIOUS
<1>1. Packets \subseteq Entries /\ [id : Nat \ {0}, cmd : Cmds, by : Uploaders] \subseteq Entries
  BY DEF Entries
<1>2. realtime_queue \in Seq(Entries) /\ reissue_queue \in Seq(Entries) /\ sent \in Seq(Entries)
  BY <1>1, SeqMonotonic DEF TypeOK
<1>3. \A p \in Packets \cup {NoPacket} : OneOrNone(p) \in Seq(Entries)
  BY <1>1 DEF OneOrNone
<1>4. /\ OneOrNone(packet) \in Seq(Entries) /\ OneOrNone(moving) \in Seq(Entries)
      /\ \A u \in Uploaders : OneOrNone(carData[u]) \in Seq(Entries)
  BY <1>3 DEF TypeOK
<1>5. \A h \in Holders : Held[h] \in Seq(Entries)
  BY <1>2, <1>4, HolderNames, PlacesHold DEF Places
<1>6. Held = [h \in Holders |-> Held[h]]
  BY DEF Held
<1>7. QED  BY <1>5, <1>6, Zenon

LEMMA Unmoved ==
    ASSUME UNCHANGED <<realtime_queue, reissue_queue, packet, moving, sent, carData>>
    PROVE  Held' = Held
<1>1. \A h \in Holders : Held'[h] = Held[h]
  <2> TAKE h \in Holders
  <2>1. CASE \E u \in Uploaders : h = <<"carData", u>>
    BY <2>1, PlacesHold DEF Places, OneOrNone
  <2>2. CASE ~ \E u \in Uploaders : h = <<"carData", u>>
    BY <2>2, HolderNames, PlacesHold DEF Places, OneOrNone
  <2>3. QED  BY <2>1, <2>2
<1>2. Held = [h \in Holders |-> Held[h]] /\ Held' = [h \in Holders |-> Held'[h]]
  BY DEF Held
<1>3. QED  BY <1>1, <1>2, Zenon

LEMMA HandedOn ==
    ASSUME TypeOK, ConservationInv, NEW a \in Holders, NEW b \in Holders, a # b,
           NEW e \in Entries,
           Held[a] # <<>>, Held'[a] = Tail(Held[a]), e.id = Head(Held[a]).id,
           IsPut(e, Held[b], Held'[b]),
           \A h \in Holders \ {a, b} : Held'[h] = Held[h],
           arrived' = arrived
    PROVE  ConservationInv'
<1>1. Held \in [Holders -> Seq(Entries)]  BY HeldType
<1>2. /\ Complete(Held, Len(arrived)) /\ Distinct(Held) /\ Within(Held, Len(arrived))
  BY DEF ConservationInv
<1>3. /\ Complete(Held', Len(arrived)) /\ Distinct(Held') /\ Within(Held', Len(arrived))
  BY <1>1, <1>2, Moved
<1>4. QED  BY <1>3 DEF ConservationInv, Complete, Distinct, Within

\* Receive: what no holder had, and none has the number of, comes to one that was empty.
LEMMA Received ==
    ASSUME NEW F \in [Holders -> Seq(Entries)], NEW G, NEW n \in Nat,
           NEW a \in Holders, NEW e \in Entries, e.id = n + 1,
           F[a] = <<>>, G[a] = <<e>>,
           \A h \in Holders \ {a} : G[h] = F[h],
           Complete(F, n), Distinct(F), Within(F, n)
    PROVE  Complete(G, n + 1) /\ Distinct(G) /\ Within(G, n + 1)
<1>1. DOMAIN F[a] = {} /\ DOMAIN G[a] = {1} /\ G[a][1] = e  OBVIOUS
<1>2. ASSUME NEW h \in Holders, NEW k \in DOMAIN G[h]
      PROVE  \/ h = a /\ k = 1 /\ G[h][k].id = n + 1
             \/ h # a /\ k \in DOMAIN F[h] /\ F[h][k] = G[h][k] /\ G[h][k].id \in 1 .. n
  <2>1. CASE h = a  BY <1>1, <2>1
  <2>2. CASE h # a
    <3>1. G[h] = F[h]  BY <2>2
    <3>2. QED  BY <2>2, <3>1 DEF Within
  <2>3. QED  BY <2>1, <2>2
<1>3. Complete(G, n + 1)
  <2> SUFFICES ASSUME NEW i \in 1 .. n + 1
               PROVE  \E h \in Holders : \E k \in DOMAIN G[h] : G[h][k].id = i
    BY DEF Complete
  <2>1. CASE i = n + 1  BY <1>1, <2>1
  <2>2. CASE i # n + 1
    <3>1. i \in 1 .. n  BY <2>2
    <3>2. PICK h \in Holders : \E k \in DOMAIN F[h] : F[h][k].id = i  BY <3>1 DEF Complete
    <3>3. h # a  BY <1>1, <3>2
    <3>4. G[h] = F[h]  BY <3>3
    <3>5. QED  BY <3>2, <3>4
  <2>3. QED  BY <2>1, <2>2
<1>4. Distinct(G)
  <2> SUFFICES ASSUME NEW g \in Holders, NEW h \in Holders,
                      NEW j \in DOMAIN G[g], NEW k \in DOMAIN G[h],
                      G[g][j].id = G[h][k].id
               PROVE  g = h /\ j = k
    BY DEF Distinct
  <2>1. CASE G[g][j].id = n + 1
    <3>1. g = a /\ j = 1  BY <1>2, <2>1
    <3>2. G[h][k].id \notin 1 .. n  BY <2>1
    <3>3. h = a /\ k = 1  BY <1>2, <3>2
    <3>4. QED  BY <3>1, <3>3
  <2>2. CASE G[g][j].id # n + 1
    <3>1. j \in DOMAIN F[g] /\ F[g][j] = G[g][j] /\ k \in DOMAIN F[h] /\ F[h][k] = G[h][k]
      BY <1>2, <2>2
    <3>2. QED  BY <3>1, DistinctPlaces
  <2>3. QED  BY <2>1, <2>2
<1>5. Within(G, n + 1)
  BY <1>2 DEF Within
<1>6. QED  BY <1>3, <1>4, <1>5

-----------------------------------------------------------------------------
LEMMA ConservationInit == Init => ConservationInv
<1> SUFFICES ASSUME Init
             PROVE  ConservationInv
  OBVIOUS
<1>1. \A h \in Holders : Held[h] = <<>>
  <2> TAKE h \in Holders
  <2>1. CASE \E u \in Uploaders : h = <<"carData", u>>
    BY <2>1, PlacesHold DEF Places, OneOrNone, Init
  <2>2. CASE ~ \E u \in Uploaders : h = <<"carData", u>>
    BY <2>2, HolderNames, PlacesHold DEF Places, OneOrNone, Init
  <2>3. QED  BY <2>1, <2>2
<1>2. Len(arrived) = 0  BY DEF Init
<1>3. QED  BY <1>1, <1>2 DEF ConservationInv, Complete, Distinct, Within

LEMMA ReceiveConserves == TypeOK /\ ConservationInv /\ Receive => ConservationInv'
<1> SUFFICES ASSUME TypeOK, ConservationInv, Receive
             PROVE  ConservationInv'
  OBVIOUS
<1>1. PICK c \in Cmds : /\ packet' = [id |-> Len(arrived) + 1, cmd |-> c]
                        /\ arrived' = Append(arrived, c)
  BY DEF Receive
<1>2. /\ Len(arrived) \in Nat /\ Len(arrived') = Len(arrived) + 1
  BY <1>1, LenProperties, AppendProperties DEF TypeOK
<1>3. packet' \in Packets /\ packet'.id = Len(arrived) + 1
  BY <1>1, <1>2 DEF Packets
<1>4. packet' # NoPacket /\ packet' \in Entries  BY <1>3, OnePacket
<1>5. packet = NoPacket  BY DEF Receive, TypeOK
<1>6. Held[<<"packet", 0>>] = <<>> /\ Held'[<<"packet", 0>>] = <<packet'>>
  BY <1>4, <1>5, PlacesHold DEF Places, OneOrNone
<1>7. \A h \in Holders \ {<<"packet", 0>>} : Held'[h] = Held[h]
  <2> TAKE h \in Holders \ {<<"packet", 0>>}
  <2>1. UNCHANGED <<realtime_queue, reissue_queue, moving, sent, carData>>
    BY DEF Receive, queueVars, uploaderVars
  <2>2. CASE \E u \in Uploaders : h = <<"carData", u>>
    BY <2>1, <2>2, PlacesHold DEF Places, OneOrNone
  <2>3. CASE ~ \E u \in Uploaders : h = <<"carData", u>>
    BY <2>1, <2>3, HolderNames, PlacesHold DEF Places, OneOrNone
  <2>4. QED  BY <2>2, <2>3
<1>8. /\ Complete(Held, Len(arrived)) /\ Distinct(Held) /\ Within(Held, Len(arrived))
      /\ Held \in [Holders -> Seq(Entries)] /\ <<"packet", 0>> \in Holders
  BY HeldType, HolderNames DEF ConservationInv
<1>9. /\ Complete(Held', Len(arrived) + 1) /\ Distinct(Held') /\ Within(Held', Len(arrived) + 1)
  BY <1>2, <1>3, <1>4, <1>6, <1>7, <1>8, Received
<1>10. QED  BY <1>2, <1>9 DEF ConservationInv, Complete, Distinct, Within

LEMMA DrainTakeConserves ==
    ASSUME TypeOK, ConservationInv, DrainTake
    PROVE  ConservationInv'
<1> DEFINE a == <<"realtime", 0>>
           b == <<"moving", 0>>
           e == Head(realtime_queue)
<1>1. realtime_queue # <<>> /\ Head(realtime_queue) \in Packets  BY QueueTake DEF DrainTake, TypeOK
<1>2. e \in Packets /\ e \in Entries /\ e.id = Head(Held[a]).id
  BY <1>1, OnePacket, PlacesHold DEF Places
<1>3. a \in Holders /\ b \in Holders /\ a # b  BY HolderNames
<1>4. Held[a] # <<>> /\ Held'[a] = Tail(Held[a]) /\ IsPut(e, Held[b], Held'[b])
  <2>1. moving = NoPacket /\ moving' = e  BY DEF DrainTake, TypeOK
  <2>2. OneOrNone(moving) = <<>> /\ OneOrNone(moving') = <<e>>  BY <1>2, <2>1, OnePacket
  <2>3. Held[b] = <<>> /\ Held'[b] = <<e>>  BY <2>2, PlacesHold DEF Places
  <2>4. QED  BY <1>1, <2>3, IntoEmptyHands, PlacesHold DEF Places, DrainTake
<1>5. UNCHANGED <<reissue_queue, packet, sent, carData, arrived>>
  BY DEF DrainTake, scanVars, uploaderVars, historyVars
<1>7. \A h \in Holders \ {a, b} : Held'[h] = Held[h]
  <2> TAKE h \in Holders \ {a, b}
  <2>1. CASE \E v \in Uploaders : h = <<"carData", v>>
    BY <1>5, <2>1, PlacesHold DEF Places, OneOrNone
  <2>2. CASE ~ \E v \in Uploaders : h = <<"carData", v>>
    BY <1>5, <2>2, HolderNames, PlacesHold DEF Places, OneOrNone
  <2>3. QED  BY <2>1, <2>2
<1> HIDE DEF a, b, e
<1>8. QED  BY <1>2, <1>3, <1>4, <1>5, <1>7, HandedOn

LEMMA TakeRealtimeConserves ==
    ASSUME TypeOK, ConservationInv, NEW u \in Uploaders, TakeRealtime(u)
    PROVE  ConservationInv'
<1> DEFINE a == <<"realtime", 0>>
           b == <<"carData", u>>
           e == Head(realtime_queue)
<1>1. realtime_queue # <<>> /\ Head(realtime_queue) \in Packets  BY QueueTake DEF TakeRealtime, TypeOK
<1>2. e \in Packets /\ e \in Entries /\ e.id = Head(Held[a]).id
  BY <1>1, OnePacket, PlacesHold DEF Places
<1>3. a \in Holders /\ b \in Holders /\ a # b  BY HolderNames
<1>4. Held[a] # <<>> /\ Held'[a] = Tail(Held[a]) /\ IsPut(e, Held[b], Held'[b])
  <2>1. carData[u] = NoPacket /\ carData'[u] = e  BY DEF TakeRealtime, TypeOK
  <2>2. OneOrNone(carData[u]) = <<>> /\ OneOrNone(carData'[u]) = <<e>>  BY <1>2, <2>1, OnePacket
  <2>3. Held[b] = <<>> /\ Held'[b] = <<e>>  BY <2>2, PlacesHold DEF Places
  <2>4. QED  BY <1>1, <2>3, IntoEmptyHands, PlacesHold DEF Places, TakeRealtime
<1>5. UNCHANGED <<reissue_queue, packet, moving, sent, arrived>>
  BY DEF TakeRealtime, queueVars, tcpVars, historyVars
<1>6. \A v \in Uploaders \ {u} : carData'[v] = carData[v]  BY DEF TakeRealtime, TypeOK
<1>7. \A h \in Holders \ {a, b} : Held'[h] = Held[h]
  <2> TAKE h \in Holders \ {a, b}
  <2>1. CASE \E v \in Uploaders \ {u} : h = <<"carData", v>>
    <3>1. PICK v \in Uploaders \ {u} : h = <<"carData", v>>  BY <2>1
    <3>2. Held[h] = OneOrNone(carData[v]) /\ Held'[h] = OneOrNone(carData'[v])
      BY <3>1, PlacesHold DEF Places
    <3>3. QED  BY <1>6, <3>2
  <2>2. CASE ~ \E v \in Uploaders : h = <<"carData", v>>
    BY <1>5, <2>2, HolderNames, PlacesHold DEF Places, OneOrNone
  <2>3. QED  BY <2>1, <2>2
<1> HIDE DEF a, b, e
<1>8. QED  BY <1>2, <1>3, <1>4, <1>5, <1>7, HandedOn

LEMMA TakeReissueConserves ==
    ASSUME TypeOK, ConservationInv, NEW u \in Uploaders, TakeReissue(u)
    PROVE  ConservationInv'
<1> DEFINE a == <<"reissue", 0>>
           b == <<"carData", u>>
           e == AsReissue(Head(reissue_queue))
<1>1. reissue_queue # <<>> /\ Head(reissue_queue) \in Packets  BY QueueTake DEF TakeReissue, TypeOK
<1>2. e \in Packets /\ e \in Entries /\ e.id = Head(Held[a]).id
  BY <1>1, OnePacket, AsReissueType, PlacesHold DEF Places
<1>3. a \in Holders /\ b \in Holders /\ a # b  BY HolderNames
<1>4. Held[a] # <<>> /\ Held'[a] = Tail(Held[a]) /\ IsPut(e, Held[b], Held'[b])
  <2>1. carData[u] = NoPacket /\ carData'[u] = e  BY DEF TakeReissue, TypeOK
  <2>2. OneOrNone(carData[u]) = <<>> /\ OneOrNone(carData'[u]) = <<e>>  BY <1>2, <2>1, OnePacket
  <2>3. Held[b] = <<>> /\ Held'[b] = <<e>>  BY <2>2, PlacesHold DEF Places
  <2>4. QED  BY <1>1, <2>3, IntoEmptyHands, PlacesHold DEF Places, TakeReissue
<1>5. UNCHANGED <<realtime_queue, packet, moving, sent, arrived>>
  BY DEF TakeReissue, queueVars, tcpVars, historyVars
<1>6. \A v \in Uploaders \ {u} : carData'[v] = carData[v]  BY DEF TakeReissue, TypeOK
<1>7. \A h \in Holders \ {a, b} : Held'[h] = Held[h]
  <2> TAKE h \in Holders \ {a, b}
  <2>1. CASE \E v \in Uploaders \ {u} : h = <<"carData", v>>
    <3>1. PICK v \in Uploaders \ {u} : h = <<"carData", v>>  BY <2>1
    <3>2. Held[h] = OneOrNone(carData[v]) /\ Held'[h] = OneOrNone(carData'[v])
      BY <3>1, PlacesHold DEF Places
    <3>3. QED  BY <1>6, <3>2
  <2>2. CASE ~ \E v \in Uploaders : h = <<"carData", v>>
    BY <1>5, <2>2, HolderNames, PlacesHold DEF Places, OneOrNone
  <2>3. QED  BY <2>1, <2>2
<1> HIDE DEF a, b, e
<1>8. QED  BY <1>2, <1>3, <1>4, <1>5, <1>7, HandedOn

LEMMA DrainPutConserves ==
    ASSUME TypeOK, ConservationInv, DrainPut
    PROVE  ConservationInv'
<1> DEFINE a == <<"moving", 0>>
           b == <<"reissue", 0>>
           e == moving
<1>1. moving \in Packets  BY DEF DrainPut, TypeOK
<1>2. e \in Entries /\ e.id = Head(Held[a]).id
  BY <1>1, OnePacket, PlacesHold DEF Places
<1>3. a \in Holders /\ b \in Holders /\ a # b  BY HolderNames
<1>4. Held[a] # <<>> /\ Held'[a] = Tail(Held[a]) /\ IsPut(e, Held[b], Held'[b])
  <2>1. moving' = NoPacket  BY DEF DrainPut, TypeOK
  <2>2. OneOrNone(moving) = <<moving>> /\ OneOrNone(moving') = <<>>  BY <1>1, <2>1, OnePacket
  <2>3. Held[a] = <<moving>> /\ Held'[a] = <<>>  BY <2>2, PlacesHold DEF Places
  <2>4. IsPut(e, Held[b], Held'[b])  BY PlacesHold DEF Places, IsPut, DrainPut
  <2>5. QED  BY <1>1, <2>3, <2>4, OnePacket
<1>5. UNCHANGED <<realtime_queue, packet, sent, carData, arrived>>
  BY DEF DrainPut, scanVars, uploaderVars, historyVars
<1>7. \A h \in Holders \ {a, b} : Held'[h] = Held[h]
  <2> TAKE h \in Holders \ {a, b}
  <2>1. CASE \E v \in Uploaders : h = <<"carData", v>>
    BY <1>5, <2>1, PlacesHold DEF Places, OneOrNone
  <2>2. CASE ~ \E v \in Uploaders : h = <<"carData", v>>
    BY <1>5, <2>2, HolderNames, PlacesHold DEF Places, OneOrNone
  <2>3. QED  BY <2>1, <2>2
<1> HIDE DEF a, b, e
<1>8. QED  BY <1>2, <1>3, <1>4, <1>5, <1>7, HandedOn

LEMMA PutReissueConserves ==
    ASSUME TypeOK, ConservationInv, PutReissue
    PROVE  ConservationInv'
<1> DEFINE a == <<"packet", 0>>
           b == <<"reissue", 0>>
           e == packet
<1>1. packet \in Packets  BY DEF PutReissue, TypeOK
<1>2. e \in Entries /\ e.id = Head(Held[a]).id
  BY <1>1, OnePacket, PlacesHold DEF Places
<1>3. a \in Holders /\ b \in Holders /\ a # b  BY HolderNames
<1>4. Held[a] # <<>> /\ Held'[a] = Tail(Held[a]) /\ IsPut(e, Held[b], Held'[b])
  <2>1. packet' = NoPacket  BY DEF PutReissue, TypeOK
  <2>2. OneOrNone(packet) = <<packet>> /\ OneOrNone(packet') = <<>>  BY <1>1, <2>1, OnePacket
  <2>3. Held[a] = <<packet>> /\ Held'[a] = <<>>  BY <2>2, PlacesHold DEF Places
  <2>4. IsPut(e, Held[b], Held'[b])  BY PlacesHold DEF Places, IsPut, PutReissue
  <2>5. QED  BY <1>1, <2>3, <2>4, OnePacket
<1>5. UNCHANGED <<realtime_queue, moving, sent, carData, arrived>>
  BY DEF PutReissue, scanVars, uploaderVars, historyVars
<1>7. \A h \in Holders \ {a, b} : Held'[h] = Held[h]
  <2> TAKE h \in Holders \ {a, b}
  <2>1. CASE \E v \in Uploaders : h = <<"carData", v>>
    BY <1>5, <2>1, PlacesHold DEF Places, OneOrNone
  <2>2. CASE ~ \E v \in Uploaders : h = <<"carData", v>>
    BY <1>5, <2>2, HolderNames, PlacesHold DEF Places, OneOrNone
  <2>3. QED  BY <2>1, <2>2
<1> HIDE DEF a, b, e
<1>8. QED  BY <1>2, <1>3, <1>4, <1>5, <1>7, HandedOn

LEMMA PutRealtimeConserves ==
    ASSUME TypeOK, ConservationInv, PutRealtime
    PROVE  ConservationInv'
<1> DEFINE a == <<"packet", 0>>
           b == <<"realtime", 0>>
           e == packet
<1>1. packet \in Packets  BY DEF PutRealtime, TypeOK
<1>2. e \in Entries /\ e.id = Head(Held[a]).id
  BY <1>1, OnePacket, PlacesHold DEF Places
<1>3. a \in Holders /\ b \in Holders /\ a # b  BY HolderNames
<1>4. Held[a] # <<>> /\ Held'[a] = Tail(Held[a]) /\ IsPut(e, Held[b], Held'[b])
  <2>1. packet' = NoPacket  BY DEF PutRealtime, TypeOK
  <2>2. OneOrNone(packet) = <<packet>> /\ OneOrNone(packet') = <<>>  BY <1>1, <2>1, OnePacket
  <2>3. Held[a] = <<packet>> /\ Held'[a] = <<>>  BY <2>2, PlacesHold DEF Places
  <2>4. IsPut(e, Held[b], Held'[b])  BY PlacesHold DEF Places, IsPut, PutRealtime
  <2>5. QED  BY <1>1, <2>3, <2>4, OnePacket
<1>5. UNCHANGED <<reissue_queue, moving, sent, carData, arrived>>
  BY DEF PutRealtime, scanVars, uploaderVars, historyVars
<1>7. \A h \in Holders \ {a, b} : Held'[h] = Held[h]
  <2> TAKE h \in Holders \ {a, b}
  <2>1. CASE \E v \in Uploaders : h = <<"carData", v>>
    BY <1>5, <2>1, PlacesHold DEF Places, OneOrNone
  <2>2. CASE ~ \E v \in Uploaders : h = <<"carData", v>>
    BY <1>5, <2>2, HolderNames, PlacesHold DEF Places, OneOrNone
  <2>3. QED  BY <2>1, <2>2
<1> HIDE DEF a, b, e
<1>8. QED  BY <1>2, <1>3, <1>4, <1>5, <1>7, HandedOn

LEMMA SendOkConserves ==
    ASSUME TypeOK, ConservationInv, NEW u \in Uploaders, SendOk(u)
    PROVE  ConservationInv'
<1> DEFINE a == <<"carData", u>>
           b == <<"sent", 0>>
           e == [id |-> carData[u].id, cmd |-> carData[u].cmd, by |-> u]
<1>1. carData[u] \in Packets  BY DEF SendOk, TypeOK
<1>2. e \in Entries /\ e.id = Head(Held[a]).id
  <2>1. e \in Entries /\ e.id = carData[u].id  BY <1>1 DEF Entries, Packets
  <2>2. QED  BY <1>1, <2>1, OnePacket, PlacesHold DEF Places
<1>3. a \in Holders /\ b \in Holders /\ a # b  BY HolderNames
<1>4. Held[a] # <<>> /\ Held'[a] = Tail(Held[a]) /\ IsPut(e, Held[b], Held'[b])
  <2>1. carData'[u] = NoPacket  BY DEF SendOk, TypeOK
  <2>2. OneOrNone(carData[u]) = <<carData[u]>> /\ OneOrNone(carData'[u]) = <<>>  BY <1>1, <2>1, OnePacket
  <2>3. Held[a] = <<carData[u]>> /\ Held'[a] = <<>>  BY <2>2, PlacesHold DEF Places
  <2>4. IsPut(e, Held[b], Held'[b])  BY PlacesHold DEF Places, IsPut, SendOk
  <2>5. QED  BY <1>1, <2>3, <2>4, OnePacket
<1>5. UNCHANGED <<realtime_queue, reissue_queue, packet, moving, arrived>>
  BY DEF SendOk, queueVars, tcpVars, historyVars
<1>6. \A v \in Uploaders \ {u} : carData'[v] = carData[v]  BY DEF SendOk, TypeOK
<1>7. \A h \in Holders \ {a, b} : Held'[h] = Held[h]
  <2> TAKE h \in Holders \ {a, b}
  <2>1. CASE \E v \in Uploaders \ {u} : h = <<"carData", v>>
    <3>1. PICK v \in Uploaders \ {u} : h = <<"carData", v>>  BY <2>1
    <3>2. Held[h] = OneOrNone(carData[v]) /\ Held'[h] = OneOrNone(carData'[v])
      BY <3>1, PlacesHold DEF Places
    <3>3. QED  BY <1>6, <3>2
  <2>2. CASE ~ \E v \in Uploaders : h = <<"carData", v>>
    BY <1>5, <2>2, HolderNames, PlacesHold DEF Places, OneOrNone
  <2>3. QED  BY <2>1, <2>2
<1> HIDE DEF a, b, e
<1>8. QED  BY <1>2, <1>3, <1>4, <1>5, <1>7, HandedOn

LEMMA PutBackConserves ==
    ASSUME TypeOK, ConservationInv, NEW u \in Uploaders, PutBack(u)
    PROVE  ConservationInv'
<1> DEFINE a == <<"carData", u>>
           b == <<"reissue", 0>>
           e == carData[u]
<1>1. carData[u] \in Packets  BY DEF PutBack, TypeOK
<1>2. e \in Entries /\ e.id = Head(Held[a]).id
  BY <1>1, OnePacket, PlacesHold DEF Places
<1>3. a \in Holders /\ b \in Holders /\ a # b  BY HolderNames
<1>4. Held[a] # <<>> /\ Held'[a] = Tail(Held[a]) /\ IsPut(e, Held[b], Held'[b])
  <2>1. carData'[u] = NoPacket  BY DEF PutBack, TypeOK
  <2>2. OneOrNone(carData[u]) = <<carData[u]>> /\ OneOrNone(carData'[u]) = <<>>  BY <1>1, <2>1, OnePacket
  <2>3. Held[a] = <<carData[u]>> /\ Held'[a] = <<>>  BY <2>2, PlacesHold DEF Places
  <2>4. IsPut(e, Held[b], Held'[b])  BY PlacesHold DEF Places, IsPut, PutBack
  <2>5. QED  BY <1>1, <2>3, <2>4, OnePacket
<1>5. UNCHANGED <<realtime_queue, packet, moving, sent, arrived>>
  BY DEF PutBack, queueVars, tcpVars, historyVars
<1>6. \A v \in Uploaders \ {u} : carData'[v] = carData[v]  BY DEF PutBack, TypeOK
<1>7. \A h \in Holders \ {a, b} : Held'[h] = Held[h]
  <2> TAKE h \in Holders \ {a, b}
  <2>1. CASE \E v \in Uploaders \ {u} : h = <<"carData", v>>
    <3>1. PICK v \in Uploaders \ {u} : h = <<"carData", v>>  BY <2>1
    <3>2. Held[h] = OneOrNone(carData[v]) /\ Held'[h] = OneOrNone(carData'[v])
      BY <3>1, PlacesHold DEF Places
    <3>3. QED  BY <1>6, <3>2
  <2>2. CASE ~ \E v \in Uploaders : h = <<"carData", v>>
    BY <1>5, <2>2, HolderNames, PlacesHold DEF Places, OneOrNone
  <2>3. QED  BY <2>1, <2>2
<1> HIDE DEF a, b, e
<1>8. QED  BY <1>2, <1>3, <1>4, <1>5, <1>7, HandedOn

-----------------------------------------------------------------------------
LEMMA ControlKeepsPackets ==
    ASSUME \/ Sigusr1 \/ StartUploader \/ PushUploader
           \/ ScanFindsConnection \/ ScanGoesOn \/ DrainTest
           \/ \E u \in Uploaders : ControlStep(u)
           \/ UNCHANGED vars
    PROVE  UNCHANGED <<realtime_queue, reissue_queue, packet, moving, sent, carData, arrived>>
BY DEF Sigusr1, StartUploader, PushUploader, ScanFindsConnection, ScanGoesOn, DrainTest,
       ControlStep, GoOffline, WakeUp, CheckConnection, Connect, NeedsConnection, LoginOk,
       LogoutOk, Quit, ChooseQueue, SendFails, SendThrows, Drop,
       vars, queueVars, tcpVars, scanVars, uploaderVars, historyVars

LEMMA ConservationStep == TypeOK /\ ConservationInv /\ [Next]_vars => ConservationInv'
<1> SUFFICES ASSUME TypeOK, ConservationInv, [Next]_vars
             PROVE  ConservationInv'
  OBVIOUS
<1>1. ASSUME UNCHANGED <<realtime_queue, reissue_queue, packet, moving, sent, carData, arrived>>
      PROVE  ConservationInv'
  <2>1. Held' = Held /\ arrived' = arrived  BY <1>1, Unmoved
  <2>2. QED  BY <2>1 DEF ConservationInv, Complete, Distinct, Within
<1>2. ASSUME \/ Sigusr1 \/ StartUploader \/ PushUploader
             \/ ScanFindsConnection \/ ScanGoesOn \/ DrainTest
             \/ \E u \in Uploaders : ControlStep(u)
             \/ UNCHANGED vars
      PROVE  ConservationInv'
  BY <1>1, <1>2, ControlKeepsPackets
<1>3. ASSUME NEW u \in Uploaders, TakeRealtime(u) \/ TakeReissue(u) \/ SendOk(u) \/ PutBack(u)
      PROVE  ConservationInv'
  BY <1>3, TakeRealtimeConserves, TakeReissueConserves, SendOkConserves, PutBackConserves
<1>4. QED
  BY <1>2, <1>3, NextCases, ReceiveConserves, DrainTakeConserves, DrainPutConserves,
     PutReissueConserves, PutRealtimeConserves

\* Whatever connections drop and threads overtake each other, every packet that arrived is in
\* exactly one place: a queue, one thread's hands, or what was written to the platform.
THEOREM PacketsAreConserved == Spec => []Conservation
<1>1. ConservationInv => Conservation
  BY DEF ConservationInv, Conservation, NothingLost, NothingDoubled, Complete, Distinct
<1>2. QED  BY <1>1, ConservationInit, ConservationStep, TypeCorrect, PTL DEF Spec

-----------------------------------------------------------------------------
(* The relay.                                                              *)

\* Before it is late a packet has the command it came with.  In the reissue queue it may have
\* that or, put back after a failed write, its stamp; an uploader gives it its stamp.
StampInv ==
    /\ late \subseteq 1 .. Len(arrived)
    /\ \A k \in DOMAIN realtime_queue : realtime_queue[k].cmd = arrived[realtime_queue[k].id]
    /\ packet # NoPacket => packet.cmd = arrived[packet.id]
    /\ moving # NoPacket => moving.cmd = arrived[moving.id]
    /\ \A k \in DOMAIN reissue_queue :
           LET p == reissue_queue[k]
           IN  p.id \in late /\ p.cmd \in {arrived[p.id], R!Stamp(p.id)}
    /\ \A u \in Uploaders : carData[u] # NoPacket => carData[u].cmd = R!Stamp(carData[u].id)

\* Number i is lower than those in the realtime queue.
Ahead(i) == \A k \in DOMAIN realtime_queue : i < realtime_queue[k].id

\* The packets that never were late, in the order written, in an uploader's hands, in the
\* realtime queue, in the TCP thread's hands.
OrderInv ==
    /\ packet # NoPacket => packet.id = Len(arrived) /\ packet.id \notin late
    /\ \A k \in DOMAIN realtime_queue : realtime_queue[k].id \notin late
    /\ \A j, k \in DOMAIN realtime_queue : j < k => realtime_queue[j].id < realtime_queue[k].id
    /\ \A u \in Uploaders :
           carData[u] # NoPacket /\ carData[u].id \notin late => Ahead(carData[u].id)
    /\ \A k \in DOMAIN sent : sent[k].id \notin late => Ahead(sent[k].id)
    /\ \A u \in Uploaders : \A k \in DOMAIN sent :
           /\ carData[u] # NoPacket /\ carData[u].id \notin late
           /\ sent[k].by = u /\ sent[k].id \notin late
           => sent[k].id < carData[u].id

-----------------------------------------------------------------------------
(* Where the elements of a changed queue come from.                        *)

LEMMA AppendElements ==
    ASSUME NEW S, NEW s \in Seq(S), NEW e \in S
    PROVE  \A k \in DOMAIN Append(s, e) :
               \/ k \in DOMAIN s /\ Append(s, e)[k] = s[k]
               \/ k = Len(s) + 1 /\ Append(s, e)[k] = e
<1>1. /\ Append(s, e) \in Seq(S) /\ Len(Append(s, e)) = Len(s) + 1
      /\ \A k \in 1 .. Len(s) : Append(s, e)[k] = s[k]
      /\ Append(s, e)[Len(s) + 1] = e
  BY AppendProperties
<1>2. Len(s) \in Nat /\ DOMAIN s = 1 .. Len(s) /\ DOMAIN Append(s, e) = 1 .. Len(s) + 1
  BY <1>1, LenProperties
<1>3. QED  BY <1>1, <1>2

LEMMA FrontElements ==
    ASSUME NEW S, NEW s \in Seq(S), NEW e \in S
    PROVE  \A k \in DOMAIN (<<e>> \o s) :
               \/ k = 1 /\ (<<e>> \o s)[k] = e
               \/ k - 1 \in DOMAIN s /\ (<<e>> \o s)[k] = s[k - 1]
<1>1. <<e>> \in Seq(S) /\ Len(<<e>>) = 1 /\ <<e>>[1] = e  OBVIOUS
<1>2. /\ <<e>> \o s \in Seq(S) /\ Len(<<e>> \o s) = 1 + Len(s)
      /\ \A k \in 1 .. 1 + Len(s) : (<<e>> \o s)[k] = IF k <= 1 THEN <<e>>[k] ELSE s[k - 1]
  BY <1>1, ConcatProperties
<1>3. Len(s) \in Nat /\ DOMAIN s = 1 .. Len(s) /\ DOMAIN (<<e>> \o s) = 1 .. 1 + Len(s)
  BY <1>2, LenProperties
<1>4. QED  BY <1>1, <1>2, <1>3

LEMMA TailElements ==
    ASSUME NEW S, NEW s \in Seq(S), s # <<>>
    PROVE  /\ 1 \in DOMAIN s /\ Head(s) = s[1]
           /\ \A k \in DOMAIN Tail(s) : /\ k \in Nat \ {0} /\ k + 1 \in DOMAIN s
                                        /\ Tail(s)[k] = s[k + 1]
<1>1. /\ Tail(s) \in Seq(S) /\ Len(Tail(s)) = Len(s) - 1
      /\ \A k \in 1 .. Len(Tail(s)) : Tail(s)[k] = s[k + 1]
  BY HeadTailProperties
<1>2. /\ Len(s) \in Nat \ {0} /\ DOMAIN s = 1 .. Len(s)
      /\ DOMAIN Tail(s) = 1 .. Len(s) - 1
  BY <1>1, LenProperties, EmptySeq
<1>3. QED  BY <1>1, <1>2

-----------------------------------------------------------------------------
(* What ConservationInv says of numbers, holder by holder.                 *)

LEMMA HandPlaces ==
    /\ packet # NoPacket => Held[<<"packet", 0>>] = <<packet>>
    /\ moving # NoPacket => Held[<<"moving", 0>>] = <<moving>>
    /\ \A u \in Uploaders : carData[u] # NoPacket => Held[<<"carData", u>>] = <<carData[u]>>
BY PlacesHold DEF Places, OneOrNone

\* Numbers are of packets that arrived.
LEMMA NumbersArrived ==
    ASSUME ConservationInv
    PROVE  /\ \A k \in DOMAIN realtime_queue : realtime_queue[k].id \in 1 .. Len(arrived)
           /\ \A k \in DOMAIN reissue_queue : reissue_queue[k].id \in 1 .. Len(arrived)
           /\ \A k \in DOMAIN sent : sent[k].id \in 1 .. Len(arrived)
           /\ packet # NoPacket => packet.id \in 1 .. Len(arrived)
           /\ moving # NoPacket => moving.id \in 1 .. Len(arrived)
           /\ \A u \in Uploaders : carData[u] # NoPacket => carData[u].id \in 1 .. Len(arrived)
<1> DEFINE Arrived(q) == \A k \in DOMAIN q : q[k].id \in 1 .. Len(arrived)
<1>1. \A h \in Holders : Arrived(Held[h])  BY DEF ConservationInv, Within
<1>2. Arrived(realtime_queue) /\ Arrived(reissue_queue) /\ Arrived(sent)
  BY <1>1, HolderNames, PlacesHold DEF Places
<1>3. \A p : Arrived(<<p>>) => p.id \in 1 .. Len(arrived)
  <2> TAKE p
  <2>1. 1 \in DOMAIN <<p>> /\ <<p>>[1] = p  OBVIOUS
  <2>2. QED  BY <2>1
<1>4. /\ packet # NoPacket => Arrived(<<packet>>)
      /\ moving # NoPacket => Arrived(<<moving>>)
      /\ \A u \in Uploaders : carData[u] # NoPacket => Arrived(<<carData[u]>>)
  <2> HIDE DEF Arrived
  <2>1. QED  BY <1>1, HolderNames, HandPlaces
<1>5. QED  BY <1>2, <1>3, <1>4

\* A packet in hand is nowhere else.
LEMMA NumberInHand ==
    ASSUME ConservationInv, NEW h \in Holders, NEW p, Held[h] = <<p>>
    PROVE  \A g \in Holders \ {h} : \A k \in DOMAIN Held[g] : Held[g][k].id # p.id
<1>1. 1 \in DOMAIN Held[h] /\ Held[h][1] = p  OBVIOUS
<1>2. QED  BY <1>1 DEF ConservationInv, Distinct

LEMMA NumberElsewhere ==
    ASSUME ConservationInv, NEW h \in Holders, NEW p, Held[h] = <<p>>
    PROVE  /\ h # <<"realtime", 0>> =>
                  \A k \in DOMAIN realtime_queue : realtime_queue[k].id # p.id
           /\ h # <<"reissue", 0>> =>
                  \A k \in DOMAIN reissue_queue : reissue_queue[k].id # p.id
           /\ h # <<"sent", 0>> => \A k \in DOMAIN sent : sent[k].id # p.id
           /\ h # <<"packet", 0>> => (packet # NoPacket => packet.id # p.id)
           /\ h # <<"moving", 0>> => (moving # NoPacket => moving.id # p.id)
           /\ \A u \in Uploaders :
                  h # <<"carData", u>> => (carData[u] # NoPacket => carData[u].id # p.id)
<1> DEFINE Apart(q) == \A k \in DOMAIN q : q[k].id # p.id
<1>1. \A g \in Holders \ {h} : Apart(Held[g])  BY NumberInHand
<1>2. /\ h # <<"realtime", 0>> => Apart(realtime_queue)
      /\ h # <<"reissue", 0>> => Apart(reissue_queue)
      /\ h # <<"sent", 0>> => Apart(sent)
  BY <1>1, HolderNames, PlacesHold DEF Places
<1>3. \A r : Apart(<<r>>) => r.id # p.id
  <2> TAKE r
  <2>1. 1 \in DOMAIN <<r>> /\ <<r>>[1] = r  OBVIOUS
  <2>2. QED  BY <2>1
<1>4. /\ h # <<"packet", 0>> => (packet # NoPacket => Apart(<<packet>>))
      /\ h # <<"moving", 0>> => (moving # NoPacket => Apart(<<moving>>))
      /\ \A u \in Uploaders :
             h # <<"carData", u>> => (carData[u] # NoPacket => Apart(<<carData[u]>>))
  <2> HIDE DEF Apart
  <2>1. QED  BY <1>1, HolderNames, HandPlaces
<1>5. QED  BY <1>2, <1>3, <1>4

LEMMA PacketIsElsewhere ==
    ASSUME ConservationInv, packet # NoPacket
    PROVE  /\ \A k \in DOMAIN realtime_queue : realtime_queue[k].id # packet.id
           /\ \A k \in DOMAIN sent : sent[k].id # packet.id
           /\ moving # NoPacket => moving.id # packet.id
           /\ \A u \in Uploaders : carData[u] # NoPacket => carData[u].id # packet.id
<1>1. <<"packet", 0>> \in Holders /\ Held[<<"packet", 0>>] = <<packet>>
  BY HolderNames, HandPlaces
<1>2. /\ <<"packet", 0>> # <<"realtime", 0>>
      /\ <<"packet", 0>> # <<"sent", 0>>
      /\ <<"packet", 0>> # <<"moving", 0>>
      /\ \A u \in Uploaders : <<"packet", 0>> # <<"carData", u>>
  OBVIOUS
<1>3. QED  BY <1>1, <1>2, NumberElsewhere

LEMMA MovingIsElsewhere ==
    ASSUME ConservationInv, moving # NoPacket
    PROVE  /\ \A k \in DOMAIN realtime_queue : realtime_queue[k].id # moving.id
           /\ \A k \in DOMAIN sent : sent[k].id # moving.id
           /\ packet # NoPacket => packet.id # moving.id
           /\ \A u \in Uploaders : carData[u] # NoPacket => carData[u].id # moving.id
<1>1. <<"moving", 0>> \in Holders /\ Held[<<"moving", 0>>] = <<moving>>
  BY HolderNames, HandPlaces
<1>2. /\ <<"moving", 0>> # <<"realtime", 0>>
      /\ <<"moving", 0>> # <<"sent", 0>>
      /\ <<"moving", 0>> # <<"packet", 0>>
      /\ \A u \in Uploaders : <<"moving", 0>> # <<"carData", u>>
  OBVIOUS
<1>3. QED  BY <1>1, <1>2, NumberElsewhere

LEMMA CarDataIsElsewhere ==
    ASSUME ConservationInv, NEW u \in Uploaders, carData[u] # NoPacket
    PROVE  /\ \A k \in DOMAIN realtime_queue : realtime_queue[k].id # carData[u].id
           /\ \A k \in DOMAIN sent : sent[k].id # carData[u].id
           /\ packet # NoPacket => packet.id # carData[u].id
           /\ moving # NoPacket => moving.id # carData[u].id
           /\ \A v \in Uploaders \ {u} : carData[v] # NoPacket => carData[v].id # carData[u].id
<1>1. <<"carData", u>> \in Holders /\ Held[<<"carData", u>>] = <<carData[u]>>
  BY HolderNames, HandPlaces
<1>2. /\ <<"carData", u>> # <<"realtime", 0>>
      /\ <<"carData", u>> # <<"sent", 0>>
      /\ <<"carData", u>> # <<"packet", 0>>
      /\ <<"carData", u>> # <<"moving", 0>>
      /\ \A v \in Uploaders \ {u} : <<"carData", u>> # <<"carData", v>>
  OBVIOUS
<1>3. QED  BY <1>1, <1>2, NumberElsewhere

\* ControlKeepsPackets, and what was late.
LEMMA ControlKeepsRelay ==
    ASSUME \/ Sigusr1 \/ StartUploader \/ PushUploader
           \/ ScanFindsConnection \/ ScanGoesOn \/ DrainTest
           \/ \E u \in Uploaders : ControlStep(u)
           \/ UNCHANGED vars
    PROVE  UNCHANGED <<realtime_queue, reissue_queue, packet, moving, sent, carData, arrived, late>>
<1>1. late' = late
  BY DEF Sigusr1, StartUploader, PushUploader, ScanFindsConnection, ScanGoesOn, DrainTest,
         ControlStep, GoOffline, WakeUp, CheckConnection, Connect, NeedsConnection, LoginOk,
         LogoutOk, Quit, ChooseQueue, SendFails, SendThrows, Drop, vars, historyVars
<1>2. QED  BY <1>1, ControlKeepsPackets

-----------------------------------------------------------------------------
(* Every packet has its stamp.                                             *)

LEMMA StampReceive ==
    ASSUME TypeOK, ConservationInv, StampInv, Receive
    PROVE  StampInv'
<1>1. PICK c \in Cmds : /\ packet' = [id |-> Len(arrived) + 1, cmd |-> c]
                        /\ arrived' = Append(arrived, c)
  BY DEF Receive
<1>2. /\ Len(arrived) \in Nat /\ Len(arrived') = Len(arrived) + 1
      /\ \A i \in 1 .. Len(arrived) : arrived'[i] = arrived[i]
      /\ arrived'[Len(arrived) + 1] = c
  BY <1>1, AppendProperties, LenProperties DEF TypeOK
<1>3. UNCHANGED <<realtime_queue, reissue_queue, moving, carData, late>>
  BY DEF Receive, queueVars, uploaderVars
<1>4. packet'.cmd = arrived'[packet'.id]  BY <1>1, <1>2
<1>5. late' \subseteq 1 .. Len(arrived')  BY <1>2, <1>3 DEF StampInv
<1>6. QED  BY <1>2, <1>3, <1>4, <1>5, NumbersArrived DEF StampInv, R!Stamp

\* Packet p, out of a thread's hands, goes to the reissue queue and is late from now on.
FallsLate(p) ==
    /\ p.id \in 1 .. Len(arrived) /\ p.cmd \in {arrived[p.id], R!Stamp(p.id)}
    /\ reissue_queue' = Append(reissue_queue, p) \/ reissue_queue' = <<p>> \o reissue_queue
    /\ late' = late \cup {p.id}
    /\ UNCHANGED <<realtime_queue, arrived, sent>>
    /\ \/ packet' = NoPacket
       \/ packet' = packet /\ (packet # NoPacket => packet.id # p.id)
    /\ moving' = NoPacket \/ moving' = moving
    /\ \A u \in Uploaders :
           \/ carData'[u] = NoPacket
           \/ carData'[u] = carData[u] /\ (carData[u] # NoPacket => carData[u].id # p.id)
    /\ \A k \in DOMAIN realtime_queue : realtime_queue[k].id # p.id
    /\ \A k \in DOMAIN sent : sent[k].id # p.id

LEMMA PutsFallLate ==
    ASSUME TypeOK, ConservationInv, StampInv,
           DrainPut \/ PutReissue \/ \E u \in Uploaders : PutBack(u)
    PROVE  \E p \in Packets : FallsLate(p)
<1>1. CASE DrainPut
  <2>1. moving \in Packets /\ moving # NoPacket  BY <1>1 DEF DrainPut, TypeOK
  <2>2. moving.id \in 1 .. Len(arrived) /\ moving.cmd = arrived[moving.id]
    BY <2>1, NumbersArrived DEF StampInv
  <2>3. /\ reissue_queue' = Append(reissue_queue, moving) /\ late' = late \cup {moving.id}
        /\ UNCHANGED <<realtime_queue, arrived, sent, packet, carData>> /\ moving' = NoPacket
    BY <1>1 DEF DrainPut, uploaderVars
  <2>4. FallsLate(moving)  BY <2>1, <2>2, <2>3, MovingIsElsewhere DEF FallsLate
  <2>5. QED  BY <2>1, <2>4
<1>2. CASE PutReissue
  <2>1. packet \in Packets /\ packet # NoPacket  BY <1>2 DEF PutReissue, TypeOK
  <2>2. packet.id \in 1 .. Len(arrived) /\ packet.cmd = arrived[packet.id]
    BY <2>1, NumbersArrived DEF StampInv
  <2>3. /\ reissue_queue' = Append(reissue_queue, packet) /\ late' = late \cup {packet.id}
        /\ UNCHANGED <<realtime_queue, arrived, sent, moving, carData>> /\ packet' = NoPacket
    BY <1>2 DEF PutReissue, uploaderVars
  <2>4. /\ \A k \in DOMAIN realtime_queue : realtime_queue[k].id # packet.id
        /\ \A k \in DOMAIN sent : sent[k].id # packet.id
        /\ \A u \in Uploaders : carData[u] # NoPacket => carData[u].id # packet.id
    BY <2>1, PacketIsElsewhere
  <2>5. FallsLate(packet)  BY <2>2, <2>3, <2>4 DEF FallsLate
  <2>6. QED  BY <2>1, <2>5
<1>3. ASSUME NEW u \in Uploaders, PutBack(u)
      PROVE  \E p \in Packets : FallsLate(p)
  <2>1. carData[u] \in Packets /\ carData[u] # NoPacket  BY <1>3 DEF PutBack, TypeOK
  <2>2. carData[u].id \in 1 .. Len(arrived) /\ carData[u].cmd = R!Stamp(carData[u].id)
    BY <2>1, NumbersArrived DEF StampInv
  <2>3. /\ reissue_queue' = <<carData[u]>> \o reissue_queue /\ late' = late \cup {carData[u].id}
        /\ UNCHANGED <<realtime_queue, arrived, sent, packet, moving>>
        /\ carData'[u] = NoPacket /\ \A v \in Uploaders \ {u} : carData'[v] = carData[v]
    BY <1>3 DEF PutBack, TypeOK, tcpVars
  <2>4. FallsLate(carData[u])  BY <2>1, <2>2, <2>3, CarDataIsElsewhere DEF FallsLate
  <2>5. QED  BY <2>1, <2>4
<1>4. QED  BY <1>1, <1>2, <1>3

LEMMA StampFallsLate ==
    ASSUME TypeOK, StampInv, NEW p \in Packets, FallsLate(p)
    PROVE  StampInv'
<1>1. late' \subseteq 1 .. Len(arrived')  BY DEF StampInv, FallsLate
<1>2. \A k \in DOMAIN reissue_queue' :
          reissue_queue'[k] = p \/ \E j \in DOMAIN reissue_queue : reissue_queue'[k] = reissue_queue[j]
  <2>1. reissue_queue \in Seq(Packets)  BY DEF TypeOK
  <2>2. CASE reissue_queue' = Append(reissue_queue, p)  BY <2>1, <2>2, AppendElements
  <2>3. CASE reissue_queue' = <<p>> \o reissue_queue  BY <2>1, <2>3, FrontElements
  <2>4. QED  BY <2>2, <2>3 DEF FallsLate
<1>3. ASSUME NEW k \in DOMAIN reissue_queue'
      PROVE  /\ reissue_queue'[k].id \in late'
             /\ reissue_queue'[k].cmd \in {arrived[reissue_queue'[k].id],
                                          (R!Stamp(reissue_queue[k].id))'}
  <2>1. CASE reissue_queue'[k] = p  BY <2>1 DEF FallsLate, R!Stamp
  <2>2. CASE \E j \in DOMAIN reissue_queue : reissue_queue'[k] = reissue_queue[j]
    BY <2>2 DEF StampInv, FallsLate, R!Stamp
  <2>3. QED  BY <1>2, <2>1, <2>2
<1>4. \A u \in Uploaders : carData'[u] # NoPacket => carData'[u].cmd = (R!Stamp(carData[u].id))'
  BY DEF StampInv, FallsLate, R!Stamp
<1>5. QED  BY <1>1, <1>3, <1>4 DEF StampInv, FallsLate

LEMMA StampTake ==
    ASSUME TypeOK, StampInv, OrderInv,
           DrainTake \/ \E u \in Uploaders : TakeRealtime(u)
    PROVE  StampInv'
<1>1. /\ realtime_queue \in Seq(Packets) /\ realtime_queue # <<>>
      /\ realtime_queue' = Tail(realtime_queue)
  BY DEF TypeOK, DrainTake, TakeRealtime
<1>2. /\ 1 \in DOMAIN realtime_queue /\ Head(realtime_queue) = realtime_queue[1]
      /\ \A k \in DOMAIN realtime_queue' :
             k + 1 \in DOMAIN realtime_queue /\ realtime_queue'[k] = realtime_queue[k + 1]
  BY <1>1, TailElements
<1>3. UNCHANGED <<reissue_queue, packet, arrived, late>>
  BY DEF DrainTake, TakeRealtime, tcpVars, historyVars
<1>4. realtime_queue[1].cmd = arrived[realtime_queue[1].id]  BY <1>2 DEF StampInv
<1>5. CASE DrainTake
  <2>1. moving' = realtime_queue[1] /\ carData' = carData
    BY <1>2, <1>5 DEF DrainTake, uploaderVars
  <2>2. QED  BY <1>2, <1>3, <1>4, <2>1 DEF StampInv, R!Stamp
<1>6. ASSUME NEW u \in Uploaders, TakeRealtime(u)
      PROVE  StampInv'
  <2>1. /\ moving' = moving /\ carData'[u] = realtime_queue[1]
        /\ \A v \in Uploaders \ {u} : carData'[v] = carData[v]
    BY <1>2, <1>6 DEF TakeRealtime, TypeOK, tcpVars
  <2>2. realtime_queue[1].id \notin late  BY <1>2 DEF OrderInv
  <2>3. carData'[u].cmd = (R!Stamp(carData[u].id))'  BY <1>3, <1>4, <2>1, <2>2 DEF R!Stamp
  <2>4. QED  BY <1>2, <1>3, <2>1, <2>3 DEF StampInv, R!Stamp
<1>7. QED  BY <1>5, <1>6

LEMMA StampTakeReissue ==
    ASSUME TypeOK, StampInv, NEW u \in Uploaders, TakeReissue(u)
    PROVE  StampInv'
<1>1. /\ reissue_queue \in Seq(Packets) /\ reissue_queue # <<>>
      /\ reissue_queue' = Tail(reissue_queue)
  BY DEF TypeOK, TakeReissue
<1>2. /\ 1 \in DOMAIN reissue_queue /\ Head(reissue_queue) = reissue_queue[1]
      /\ \A k \in DOMAIN reissue_queue' :
             k + 1 \in DOMAIN reissue_queue /\ reissue_queue'[k] = reissue_queue[k + 1]
  BY <1>1, TailElements
<1>3. UNCHANGED <<realtime_queue, packet, moving, arrived, late>>
  BY DEF TakeReissue, tcpVars, historyVars
<1>4. /\ carData'[u] = AsReissue(reissue_queue[1])
      /\ \A v \in Uploaders \ {u} : carData'[v] = carData[v]
  BY <1>2 DEF TakeReissue, TypeOK
<1>5. /\ reissue_queue[1] \in Packets
      /\ reissue_queue[1].id \in late
      /\ reissue_queue[1].cmd \in {arrived[reissue_queue[1].id], R!Stamp(reissue_queue[1].id)}
  BY <1>1, <1>2, ElementOfSeq, LenProperties DEF StampInv
<1>6. AsReissue(reissue_queue[1]).id = reissue_queue[1].id  BY <1>5, AsReissueType
<1>7. AsReissue(reissue_queue[1]).cmd = R!Stamp(reissue_queue[1].id)
  BY <1>5 DEF AsReissue, R!Stamp, Packets
<1>8. carData'[u].cmd = (R!Stamp(carData[u].id))'
  BY <1>3, <1>4, <1>6, <1>7 DEF R!Stamp
<1>9. QED  BY <1>2, <1>3, <1>4, <1>8 DEF StampInv, R!Stamp

LEMMA StampHandOver ==
    ASSUME TypeOK, StampInv,
           PutRealtime \/ \E u \in Uploaders : SendOk(u)
    PROVE  StampInv'
<1>1. CASE PutRealtime
  <2>1. /\ realtime_queue \in Seq(Packets) /\ packet \in Packets /\ packet # NoPacket
        /\ realtime_queue' = Append(realtime_queue, packet) /\ packet' = NoPacket
        /\ UNCHANGED <<reissue_queue, moving, carData, arrived, late>>
    BY <1>1 DEF PutRealtime, TypeOK, uploaderVars, historyVars
  <2>2. \A k \in DOMAIN realtime_queue' :
            \/ k \in DOMAIN realtime_queue /\ realtime_queue'[k] = realtime_queue[k]
            \/ realtime_queue'[k] = packet
    BY <2>1, AppendElements
  <2>3. QED  BY <2>1, <2>2 DEF StampInv, R!Stamp
<1>2. ASSUME NEW u \in Uploaders, SendOk(u)
      PROVE  StampInv'
  <2>1. UNCHANGED <<realtime_queue, reissue_queue, packet, moving, arrived, late>>
    BY <1>2 DEF SendOk, queueVars, tcpVars
  <2>2. carData'[u] = NoPacket /\ \A v \in Uploaders \ {u} : carData'[v] = carData[v]
    BY <1>2 DEF SendOk, TypeOK
  <2>3. QED  BY <2>1, <2>2 DEF StampInv, R!Stamp
<1>3. QED  BY <1>1, <1>2

LEMMA StampStep == TypeOK /\ ConservationInv /\ StampInv /\ OrderInv /\ [Next]_vars => StampInv'
<1> SUFFICES ASSUME TypeOK, ConservationInv, StampInv, OrderInv, [Next]_vars
             PROVE  StampInv'
  OBVIOUS
<1>1. ASSUME \/ Sigusr1 \/ StartUploader \/ PushUploader
             \/ ScanFindsConnection \/ ScanGoesOn \/ DrainTest
             \/ \E u \in Uploaders : ControlStep(u)
             \/ UNCHANGED vars
      PROVE  StampInv'
  BY <1>1, ControlKeepsRelay DEF StampInv, R!Stamp
<1>2. ASSUME DrainPut \/ PutReissue \/ \E u \in Uploaders : PutBack(u)
      PROVE  StampInv'
  BY <1>2, PutsFallLate, StampFallsLate
<1>3. ASSUME NEW u \in Uploaders, TakeRealtime(u) \/ TakeReissue(u) \/ SendOk(u)
      PROVE  StampInv'
  BY <1>3, StampTake, StampTakeReissue, StampHandOver
<1>4. QED
  BY <1>1, <1>2, <1>3, NextCases, StampReceive, StampTake, StampHandOver

-----------------------------------------------------------------------------
(* What never was late keeps its order.                                    *)

LEMMA OrderReceive ==
    ASSUME TypeOK, StampInv, OrderInv, Receive
    PROVE  OrderInv'
<1>1. /\ packet'.id = Len(arrived) + 1
      /\ Len(arrived) \in Nat /\ Len(arrived') = Len(arrived) + 1
  BY AppendProperties, LenProperties DEF Receive, TypeOK
<1>2. UNCHANGED <<realtime_queue, carData, sent, late>>
  BY DEF Receive, queueVars, uploaderVars
<1>3. packet'.id = Len(arrived') /\ packet'.id \notin late'  BY <1>1, <1>2 DEF StampInv
<1>4. QED  BY <1>2, <1>3 DEF OrderInv, Ahead

LEMMA OrderTake ==
    ASSUME TypeOK, OrderInv,
           DrainTake \/ \E u \in Uploaders : TakeRealtime(u)
    PROVE  OrderInv'
<1>1. /\ realtime_queue \in Seq(Packets) /\ realtime_queue # <<>>
      /\ realtime_queue' = Tail(realtime_queue)
  BY DEF TypeOK, DrainTake, TakeRealtime
<1>2. /\ 1 \in DOMAIN realtime_queue /\ Head(realtime_queue) = realtime_queue[1]
      /\ \A k \in DOMAIN realtime_queue' : /\ k \in Nat \ {0} /\ k + 1 \in DOMAIN realtime_queue
                                           /\ realtime_queue'[k] = realtime_queue[k + 1]
  BY <1>1, TailElements
<1>3. UNCHANGED <<packet, arrived, late, sent>>
  BY DEF DrainTake, TakeRealtime, tcpVars, historyVars
<1>4. /\ \A k \in DOMAIN realtime_queue' : realtime_queue'[k].id \notin late'
      /\ \A j, k \in DOMAIN realtime_queue' :
             j < k => realtime_queue'[j].id < realtime_queue'[k].id
      /\ \A k \in DOMAIN realtime_queue' : realtime_queue[1].id < realtime_queue'[k].id
  <2>1. \A j, k \in DOMAIN realtime_queue' : j < k => j + 1 < k + 1  BY <1>2
  <2>2. \A k \in DOMAIN realtime_queue' : 1 < k + 1  BY <1>2
  <2>3. QED  BY <1>2, <1>3, <2>1, <2>2 DEF OrderInv
<1>5. \A i : Ahead(i) => \A k \in DOMAIN realtime_queue' : i < realtime_queue'[k].id
  BY <1>2 DEF Ahead
<1>6. \A k \in DOMAIN sent : sent[k].id \notin late => Ahead(sent[k].id)'
  BY <1>3, <1>5 DEF OrderInv, Ahead
<1>7. CASE DrainTake
  <2>1. carData' = carData  BY <1>7 DEF DrainTake, uploaderVars
  <2>2. QED  BY <1>3, <1>4, <1>5, <1>6, <2>1 DEF OrderInv, Ahead
<1>8. ASSUME NEW u \in Uploaders, TakeRealtime(u)
      PROVE  OrderInv'
  <2>1. carData'[u] = realtime_queue[1] /\ \A v \in Uploaders \ {u} : carData'[v] = carData[v]
    BY <1>2, <1>8 DEF TakeRealtime, TypeOK
  <2>2. \A k \in DOMAIN sent : sent[k].id \notin late => sent[k].id < realtime_queue[1].id
    BY <1>2 DEF OrderInv, Ahead
  <2>3. \A v \in Uploaders :
            carData'[v] # NoPacket /\ carData'[v].id \notin late' => Ahead(carData[v].id)'
    BY <1>3, <1>4, <1>5, <2>1 DEF OrderInv, Ahead
  <2>4. \A v \in Uploaders : \A k \in DOMAIN sent :
            /\ carData'[v] # NoPacket /\ carData'[v].id \notin late
            /\ sent[k].by = v /\ sent[k].id \notin late
            => sent[k].id < carData'[v].id
    BY <2>1, <2>2 DEF OrderInv
  <2>5. QED  BY <1>3, <1>4, <1>6, <2>3, <2>4 DEF OrderInv
<1>9. QED  BY <1>7, <1>8

LEMMA OrderTakeReissue ==
    ASSUME TypeOK, StampInv, OrderInv, NEW u \in Uploaders, TakeReissue(u)
    PROVE  OrderInv'
<1>1. reissue_queue \in Seq(Packets) /\ reissue_queue # <<>>  BY DEF TypeOK, TakeReissue
<1>2. 1 \in DOMAIN reissue_queue /\ Head(reissue_queue) = reissue_queue[1]
  BY <1>1, TailElements
<1>3. reissue_queue[1] \in Packets /\ reissue_queue[1].id \in late
  BY <1>1, <1>2, ElementOfSeq, LenProperties DEF StampInv
<1>4. UNCHANGED <<realtime_queue, packet, arrived, late, sent>>
  BY DEF TakeReissue, tcpVars, historyVars
<1>5. carData'[u].id \in late' /\ \A v \in Uploaders \ {u} : carData'[v] = carData[v]
  BY <1>2, <1>3, <1>4, AsReissueType DEF TakeReissue, TypeOK
<1>6. QED  BY <1>4, <1>5 DEF OrderInv, Ahead

\* The packet in the TCP thread's hands has the highest number of all.
LEMMA OrderPutRealtime ==
    ASSUME TypeOK, ConservationInv, OrderInv, PutRealtime
    PROVE  OrderInv'
<1>1. /\ realtime_queue \in Seq(Packets) /\ packet \in Packets /\ packet # NoPacket
      /\ realtime_queue' = Append(realtime_queue, packet) /\ packet' = NoPacket
      /\ UNCHANGED <<carData, arrived, late, sent>>
  BY DEF PutRealtime, TypeOK, uploaderVars, historyVars
<1>2. \A k \in DOMAIN realtime_queue' :
          \/ k \in DOMAIN realtime_queue /\ realtime_queue'[k] = realtime_queue[k]
          \/ k = Len(realtime_queue) + 1 /\ realtime_queue'[k] = packet
  BY <1>1, AppendElements
<1>3. DOMAIN realtime_queue = 1 .. Len(realtime_queue) /\ Len(realtime_queue) \in Nat
  BY <1>1, LenProperties
<1>4. packet.id = Len(arrived) /\ packet.id \notin late /\ Len(arrived) \in Nat
  BY <1>1, LenProperties DEF OrderInv, TypeOK
<1>5. \A i \in 1 .. Len(arrived) : i # packet.id => i < packet.id  BY <1>4
<1>6. /\ \A k \in DOMAIN realtime_queue : realtime_queue[k].id < packet.id
      /\ \A k \in DOMAIN sent : sent[k].id < packet.id
      /\ \A u \in Uploaders : carData[u] # NoPacket => carData[u].id < packet.id
  BY <1>1, <1>5, NumbersArrived, PacketIsElsewhere
<1>7. \A i : Ahead(i) /\ i < packet.id => Ahead(i)'  BY <1>2 DEF Ahead
<1>8. /\ \A k \in DOMAIN realtime_queue' : realtime_queue'[k].id \notin late'
      /\ \A j, k \in DOMAIN realtime_queue' :
             j < k => realtime_queue'[j].id < realtime_queue'[k].id
  BY <1>1, <1>2, <1>3, <1>4, <1>6 DEF OrderInv
<1>9. /\ \A u \in Uploaders :
             carData'[u] # NoPacket /\ carData'[u].id \notin late' => Ahead(carData[u].id)'
      /\ \A k \in DOMAIN sent' : sent'[k].id \notin late' => Ahead(sent[k].id)'
  BY <1>1, <1>2, <1>6 DEF OrderInv, Ahead
<1>10. QED  BY <1>1, <1>8, <1>9 DEF OrderInv

LEMMA OrderSendOk ==
    ASSUME TypeOK, OrderInv, NEW u \in Uploaders, SendOk(u)
    PROVE  OrderInv'
<1> DEFINE S == [id : Nat \ {0}, cmd : Cmds, by : Uploaders]
           e == [id |-> carData[u].id, cmd |-> carData[u].cmd, by |-> u]
<1>1. carData[u] \in Packets /\ carData[u] # NoPacket /\ sent \in Seq(S)
  BY DEF SendOk, TypeOK
<1>2. e \in S /\ e.id = carData[u].id /\ e.by = u  BY <1>1 DEF Packets
<1>3. /\ sent' = Append(sent, e)
      /\ carData'[u] = NoPacket /\ \A v \in Uploaders \ {u} : carData'[v] = carData[v]
      /\ UNCHANGED <<realtime_queue, packet, arrived, late>>
  BY DEF SendOk, TypeOK, queueVars, tcpVars
<1> HIDE DEF S, e
<1>4. \A k \in DOMAIN sent' : \/ k \in DOMAIN sent /\ sent'[k] = sent[k]
                              \/ sent'[k] = e
  BY <1>1, <1>2, <1>3, AppendElements
<1>5. \A k \in DOMAIN sent' : sent'[k].id \notin late' => Ahead(sent[k].id)'
  BY <1>1, <1>2, <1>3, <1>4 DEF OrderInv, Ahead
<1>6. \A v \in Uploaders : \A k \in DOMAIN sent' :
          /\ carData'[v] # NoPacket /\ carData'[v].id \notin late'
          /\ sent'[k].by = v /\ sent'[k].id \notin late'
          => sent'[k].id < carData'[v].id
  BY <1>2, <1>3, <1>4 DEF OrderInv
<1>7. QED  BY <1>3, <1>5, <1>6 DEF OrderInv, Ahead

LEMMA OrderFallsLate ==
    ASSUME OrderInv, NEW p \in Packets, FallsLate(p)
    PROVE  OrderInv'
<1>1. /\ \A i : i \notin late' => i \notin late
      /\ \A i : i # p.id /\ i \notin late => i \notin late'
  BY DEF FallsLate
<1>2. QED  BY <1>1 DEF FallsLate, OrderInv, Ahead

LEMMA OrderStep == TypeOK /\ ConservationInv /\ StampInv /\ OrderInv /\ [Next]_vars => OrderInv'
<1> SUFFICES ASSUME TypeOK, ConservationInv, StampInv, OrderInv, [Next]_vars
             PROVE  OrderInv'
  OBVIOUS
<1>1. ASSUME \/ Sigusr1 \/ StartUploader \/ PushUploader
             \/ ScanFindsConnection \/ ScanGoesOn \/ DrainTest
             \/ \E u \in Uploaders : ControlStep(u)
             \/ UNCHANGED vars
      PROVE  OrderInv'
  BY <1>1, ControlKeepsRelay DEF OrderInv, Ahead
<1>2. ASSUME DrainPut \/ PutReissue \/ \E u \in Uploaders : PutBack(u)
      PROVE  OrderInv'
  BY <1>2, PutsFallLate, OrderFallsLate
<1>3. ASSUME NEW u \in Uploaders, TakeRealtime(u) \/ TakeReissue(u) \/ SendOk(u)
      PROVE  OrderInv'
  BY <1>3, OrderTake, OrderTakeReissue, OrderSendOk
<1>4. QED
  BY <1>1, <1>2, <1>3, NextCases, OrderReceive, OrderTake, OrderPutRealtime

-----------------------------------------------------------------------------
(* Forwarding implements Relay.                                            *)

LEMMA RelayInit == Init => R!Init /\ StampInv /\ OrderInv
<1> SUFFICES ASSUME Init
             PROVE  R!Init /\ StampInv /\ OrderInv
  OBVIOUS
<1>1. /\ realtime_queue = <<>> /\ reissue_queue = <<>> /\ arrived = <<>> /\ late = {} /\ sent = <<>>
      /\ packet = NoPacket /\ moving = NoPacket /\ \A u \in Uploaders : carData[u] = NoPacket
  BY DEF Init
<1>2. R!Init  BY <1>1 DEF R!Init
<1>3. StampInv  BY <1>1 DEF StampInv
<1>4. OrderInv  BY <1>1 DEF OrderInv
<1>5. QED  BY <1>2, <1>3, <1>4

LEMMA ReceiveAccepts == Receive => R!Next
<1> SUFFICES ASSUME Receive
             PROVE  R!Next
  OBVIOUS
<1>1. PICK c \in Cmds : arrived' = Append(arrived, c)  BY DEF Receive
<1>2. R!Accept(c)  BY <1>1 DEF Receive, R!Accept
<1>3. QED  BY <1>2 DEF R!Next

LEMMA FallsLateIsRelayed ==
    ASSUME TypeOK, NEW p \in Packets, FallsLate(p)
    PROVE  R!Next
<1>1. p.id \in DOMAIN arrived  BY LenProperties DEF TypeOK, FallsLate
<1>2. R!FallLate(p.id)  BY DEF FallsLate, R!FallLate, R!Forwarded
<1>3. QED  BY <1>1, <1>2 DEF R!Next

LEMMA SendOkForwards ==
    ASSUME TypeOK, ConservationInv, StampInv, OrderInv, NEW u \in Uploaders, SendOk(u)
    PROVE  R!Next
<1>1. carData[u] \in Packets /\ carData[u] # NoPacket  BY DEF SendOk, TypeOK
<1>2. carData[u].id \in DOMAIN arrived  BY <1>1, NumbersArrived, LenProperties DEF TypeOK
<1>3. ~R!Forwarded(carData[u].id)  BY <1>1, CarDataIsElsewhere DEF R!Forwarded
<1>4. carData[u].cmd = R!Stamp(carData[u].id)  BY <1>1 DEF StampInv
<1>5. \A k \in DOMAIN sent :
          sent[k].by = u /\ sent[k].id \notin late /\ carData[u].id \notin late
              => sent[k].id < carData[u].id
  BY <1>1 DEF OrderInv
<1>6. /\ sent' = Append(sent, [id |-> carData[u].id, cmd |-> carData[u].cmd, by |-> u])
      /\ UNCHANGED <<arrived, late>>
  BY DEF SendOk
<1>7. R!Forward(u, carData[u].id)  BY <1>3, <1>4, <1>5, <1>6 DEF R!Forward
<1>8. QED  BY <1>2, <1>7 DEF R!Next

LEMMA RelayStep ==
    TypeOK /\ ConservationInv /\ StampInv /\ OrderInv /\ [Next]_vars => [R!Next]_R!vars
<1> SUFFICES ASSUME TypeOK, ConservationInv, StampInv, OrderInv, [Next]_vars
             PROVE  R!Next \/ UNCHANGED R!vars
  OBVIOUS
<1>1. ASSUME \/ Sigusr1 \/ StartUploader \/ PushUploader
             \/ ScanFindsConnection \/ ScanGoesOn \/ DrainTest
             \/ \E u \in Uploaders : ControlStep(u)
             \/ UNCHANGED vars
      PROVE  UNCHANGED R!vars
  BY <1>1, ControlKeepsRelay DEF R!vars
<1>2. ASSUME DrainTake \/ PutRealtime \/ \E u \in Uploaders : TakeRealtime(u) \/ TakeReissue(u)
      PROVE  UNCHANGED R!vars
  BY <1>2 DEF DrainTake, PutRealtime, TakeRealtime, TakeReissue, historyVars, R!vars
<1>3. ASSUME DrainPut \/ PutReissue \/ \E u \in Uploaders : PutBack(u)
      PROVE  R!Next
  BY <1>3, PutsFallLate, FallsLateIsRelayed
<1>4. ASSUME NEW u \in Uploaders, SendOk(u)
      PROVE  R!Next
  BY <1>4, SendOkForwards
<1>5. QED  BY <1>1, <1>2, <1>3, <1>4, NextCases, ReceiveAccepts

\* Before it is late a packet has its own command, after that its stamp, and what never was
\* late waits and goes out in the order of arrival.
THEOREM StampedInOrder == Spec => [](StampInv /\ OrderInv)
<1>1. TypeOK /\ ConservationInv /\ StampInv /\ OrderInv /\ [Next]_vars => (StampInv /\ OrderInv)'
  BY StampStep, OrderStep
<1>2. QED
  BY <1>1, ConservationInit, ConservationStep, RelayInit, TypeCorrect, PTL DEF Spec

\* Queues, drains, put-backs and rival uploaders together do no more than Relay says: each
\* packet goes out at most once, marked as a reissue if it is late, in order if it is not.
THEOREM ImplementsRelay == Spec => RefinesRelay
<1>1. Init => ConservationInv  BY ConservationInit
<1>2. Spec => []ConservationInv  BY <1>1, ConservationStep, TypeCorrect, PTL DEF Spec
<1>3. Init => R!Init  BY RelayInit
<1>4. QED
  BY <1>2, <1>3, RelayStep, StampedInOrder, TypeCorrect, PTL DEF Spec, RefinesRelay, R!Spec
-----------------------------------------------------------------------------
(* What was seen in the reissue queue.                                     *)

LEMMA AppendKeeps ==
    ASSUME NEW S, NEW s \in Seq(S), NEW e \in S, NEW k \in DOMAIN s
    PROVE  k \in DOMAIN Append(s, e) /\ Append(s, e)[k] = s[k]
<1>1. /\ Append(s, e) \in Seq(S) /\ Len(Append(s, e)) = Len(s) + 1
      /\ \A j \in 1 .. Len(s) : Append(s, e)[j] = s[j]
  BY AppendProperties
<1>2. Len(s) \in Nat /\ DOMAIN s = 1 .. Len(s) /\ DOMAIN Append(s, e) = 1 .. Len(s) + 1
  BY <1>1, LenProperties
<1>3. QED  BY <1>1, <1>2

LEMMA FrontKeeps ==
    ASSUME NEW S, NEW s \in Seq(S), NEW e \in S
    PROVE  /\ 1 \in DOMAIN (<<e>> \o s) /\ (<<e>> \o s)[1] = e
           /\ \A k \in DOMAIN s : k + 1 \in DOMAIN (<<e>> \o s) /\ (<<e>> \o s)[k + 1] = s[k]
<1>1. <<e>> \in Seq(S) /\ Len(<<e>>) = 1 /\ <<e>>[1] = e  OBVIOUS
<1>2. /\ <<e>> \o s \in Seq(S) /\ Len(<<e>> \o s) = 1 + Len(s)
      /\ \A k \in 1 .. 1 + Len(s) : (<<e>> \o s)[k] = IF k <= 1 THEN <<e>>[k] ELSE s[k - 1]
  BY <1>1, ConcatProperties
<1>3. Len(s) \in Nat /\ DOMAIN s = 1 .. Len(s) /\ DOMAIN (<<e>> \o s) = 1 .. 1 + Len(s)
  BY <1>2, LenProperties
<1>4. QED  BY <1>1, <1>2, <1>3

LEMMA TailKeeps ==
    ASSUME NEW S, NEW s \in Seq(S), s # <<>>, NEW k \in DOMAIN s
    PROVE  \/ s[k] = Head(s)
           \/ k - 1 \in DOMAIN Tail(s) /\ Tail(s)[k - 1] = s[k]
<1>1. /\ Tail(s) \in Seq(S) /\ Len(Tail(s)) = Len(s) - 1 /\ Head(s) = s[1]
      /\ \A j \in 1 .. Len(Tail(s)) : Tail(s)[j] = s[j + 1]
  BY HeadTailProperties
<1>2. /\ Len(s) \in Nat \ {0} /\ DOMAIN s = 1 .. Len(s)
      /\ DOMAIN Tail(s) = 1 .. Len(s) - 1
  BY <1>1, LenProperties, EmptySeq
<1>3. CASE k = 1  BY <1>1, <1>3
<1>4. CASE k # 1
  <2>1. k - 1 \in 1 .. Len(s) - 1 /\ k = (k - 1) + 1  BY <1>2, <1>4
  <2>2. QED  BY <1>1, <1>2, <2>1
<1>5. QED  BY <1>3, <1>4

\* The steps after which the reissue queue has what it had, and those after which it has more.
LEMMA ReissueOnlyGrows ==
    ASSUME TypeOK, [Next]_vars, NEW i, InReissue(i), \A v \in Uploaders : ~TakeReissue(v)
    PROVE  InReissue(i)'
<1> USE DEF InReissue
<1>1. PICK k \in DOMAIN reissue_queue : reissue_queue[k].id = i  OBVIOUS
<1>2. reissue_queue \in Seq(Packets)  BY DEF TypeOK
<1>3. CASE UNCHANGED reissue_queue  BY <1>1, <1>3
<1>4. CASE DrainPut \/ PutReissue
  <2>1. PICK p \in Packets : reissue_queue' = Append(reissue_queue, p)
    BY <1>4 DEF DrainPut, PutReissue, TypeOK
  <2>2. k \in DOMAIN reissue_queue' /\ reissue_queue'[k] = reissue_queue[k]
    BY <1>1, <1>2, <2>1, AppendKeeps
  <2>3. QED  BY <1>1, <2>2
<1>5. ASSUME NEW v \in Uploaders, PutBack(v)
      PROVE  InReissue(i)'
  <2>1. carData[v] \in Packets /\ reissue_queue' = <<carData[v]>> \o reissue_queue
    BY <1>5 DEF PutBack, TypeOK
  <2>2. k + 1 \in DOMAIN reissue_queue' /\ reissue_queue'[k + 1] = reissue_queue[k]
    BY <1>1, <1>2, <2>1, FrontKeeps
  <2>3. QED  BY <1>1, <2>2
<1>6. ASSUME NEW v \in Uploaders, TakeRealtime(v) \/ SendOk(v)
      PROVE  UNCHANGED reissue_queue
  BY <1>6 DEF TakeRealtime, SendOk, queueVars
<1>7. ASSUME NEW v \in Uploaders, ControlStep(v)
      PROVE  UNCHANGED reissue_queue
  BY <1>7, ControlKeepsPackets
<1>8. QED
  BY <1>3, <1>4, <1>5, <1>6, <1>7, NextCases
  DEF Sigusr1, StartUploader, PushUploader, Receive, ScanFindsConnection, ScanGoesOn, DrainTest,
      DrainTake, PutRealtime, vars, queueVars

\* A packet that is not there after a take went to the uploader that took.
LEMMA TakenIsInHand ==
    ASSUME TypeOK, NEW i, InReissue(i), NEW v \in Uploaders, TakeReissue(v)
    PROVE  InReissue(i)' \/ TakenBy(v, i)'
<1>1. PICK k \in DOMAIN reissue_queue : reissue_queue[k].id = i  BY DEF InReissue
<1>2. /\ reissue_queue \in Seq(Packets) /\ reissue_queue # <<>>
      /\ reissue_queue' = Tail(reissue_queue)
      /\ carData'[v] = AsReissue(Head(reissue_queue))
  BY DEF TakeReissue, TypeOK
<1>3. CASE reissue_queue[k] = Head(reissue_queue)
  <2>1. Head(reissue_queue) \in Packets  BY <1>2, HeadTailProperties
  <2>2. carData'[v] \in Packets /\ carData'[v].id = i  BY <1>1, <1>2, <1>3, <2>1, AsReissueType
  <2>3. carData'[v] # NoPacket  BY <2>2, ForwardingAssumption DEF Packets
  <2>4. QED  BY <2>2, <2>3 DEF TakenBy
<1>4. CASE k - 1 \in DOMAIN Tail(reissue_queue)
           /\ Tail(reissue_queue)[k - 1] = reissue_queue[k]
  BY <1>1, <1>2, <1>4 DEF InReissue
<1>5. QED  BY <1>1, <1>2, <1>3, <1>4, TailKeeps

\* What an uploader took it writes, puts back or keeps.
LEMMA SentStaysSent ==
    ASSUME TypeOK, [Next]_vars, NEW k \in DOMAIN sent
    PROVE  k \in DOMAIN sent' /\ sent'[k] = sent[k]
<1>1. CASE sent' = sent  BY <1>1
<1>2. ASSUME NEW u \in Uploaders, SendOk(u)
      PROVE  k \in DOMAIN sent' /\ sent'[k] = sent[k]
  <2>1. carData[u] \in Packets  BY <1>2 DEF SendOk, TypeOK
  <2>2. [id |-> carData[u].id, cmd |-> carData[u].cmd, by |-> u]
            \in [id : Nat \ {0}, cmd : Cmds, by : Uploaders]
    BY <2>1 DEF Packets
  <2>3. QED  BY <1>2, <2>2, AppendKeeps DEF SendOk, TypeOK
<1>3. QED  BY <1>1, <1>2, WritesOnItsConnection

LEMMA HandKeepsOrPasses ==
    ASSUME TypeOK, [Next]_vars, NEW v \in Uploaders, carData[v] # NoPacket
    PROVE  carData'[v] = carData[v] \/ SendOk(v) \/ PutBack(v)
<1>1. CASE UNCHANGED carData  BY <1>1
<1>2. ASSUME NEW u \in Uploaders, TakeRealtime(u) \/ TakeReissue(u) \/ SendOk(u) \/ PutBack(u)
      PROVE  carData'[v] = carData[v] \/ SendOk(v) \/ PutBack(v)
  <2>1. CASE u = v
    <3>1. upc[v] \in {"send", "putBack", "stopped"}  BY DEF TypeOK
    <3>2. QED  BY <1>2, <2>1, <3>1 DEF TakeRealtime, TakeReissue
  <2>2. CASE u # v  BY <1>2, <2>2 DEF TakeRealtime, TakeReissue, SendOk, PutBack, TypeOK
  <2>3. QED  BY <2>1, <2>2
<1>3. ASSUME NEW u \in Uploaders, ControlStep(u)
      PROVE  UNCHANGED carData
  BY <1>3, ControlKeepsPackets
<1>4. QED
  BY <1>1, <1>2, <1>3, NextCases
  DEF Sigusr1, StartUploader, PushUploader, Receive, ScanFindsConnection, ScanGoesOn, DrainTest,
      DrainTake, DrainPut, PutReissue, PutRealtime, vars, uploaderVars

LEMMA TakenStaysTaken ==
    ASSUME TypeOK, [Next]_vars, NEW v \in Uploaders, NEW i, TakenBy(v, i)
    PROVE  TakenBy(v, i)' \/ InReissue(i)'
<1>1. CASE carData[v] # NoPacket /\ carData[v].id = i
  <2>1. carData[v] \in Packets  BY <1>1 DEF TypeOK
  <2>2. CASE carData'[v] = carData[v]  BY <1>1, <2>2 DEF TakenBy
  <2>3. CASE SendOk(v)
    <3>1. [id |-> carData[v].id, cmd |-> carData[v].cmd, by |-> v]
              \in [id : Nat \ {0}, cmd : Cmds, by : Uploaders]
      BY <2>1 DEF Packets
    <3>2. /\ sent' \in Seq([id : Nat \ {0}, cmd : Cmds, by : Uploaders])
          /\ Len(sent') = Len(sent) + 1
          /\ sent'[Len(sent) + 1] = [id |-> i, cmd |-> carData[v].cmd, by |-> v]
      BY <1>1, <2>3, <3>1, AppendProperties DEF SendOk, TypeOK
    <3>3. Len(sent) + 1 \in DOMAIN sent'  BY <3>2, LenProperties DEF TypeOK
    <3>4. QED  BY <3>2, <3>3 DEF TakenBy
  <2>4. CASE PutBack(v)
    <3>1. reissue_queue' = <<carData[v]>> \o reissue_queue  BY <2>4 DEF PutBack
    <3>2. 1 \in DOMAIN reissue_queue' /\ reissue_queue'[1] = carData[v]
      BY <2>1, <3>1, FrontKeeps DEF TypeOK
    <3>3. QED  BY <1>1, <3>2 DEF InReissue
  <2>5. QED  BY <1>1, <2>2, <2>3, <2>4, HandKeepsOrPasses
<1>2. CASE \E k \in DOMAIN sent : sent[k].id = i /\ sent[k].by = v
  BY <1>2, SentStaysSent DEF TakenBy
<1>3. QED  BY <1>1, <1>2 DEF TakenBy

\* An uploader comes to wait for late data by looking at the queue, and has in mind what it saw
\* until it takes a packet.
LEMMA WaitsForWhatItSaw ==
    ASSUME TypeOK, [Next]_vars, NEW u \in Uploaders, upc'[u] = "takeReissue"
    PROVE  ChooseQueue(u) \/ (upc[u] = "takeReissue" /\ seen'[u] = seen[u])
<1> USE DEF TypeOK, uploaderVars, historyVars
<1>1. CASE UNCHANGED <<upc, seen>>  BY <1>1
<1>2. CASE StartUploader  BY <1>2 DEF StartUploader
<1>3. ASSUME NEW v \in Uploaders, ChooseQueue(v)
      PROVE  ChooseQueue(u) \/ (upc[u] = "takeReissue" /\ seen'[u] = seen[u])
  BY <1>3 DEF ChooseQueue
<1>4. ASSUME NEW v \in Uploaders, ControlStep(v), ~ChooseQueue(v)
      PROVE  upc[u] = "takeReissue" /\ seen'[u] = seen[u]
  BY <1>4 DEF ControlStep, GoOffline, WakeUp, CheckConnection, Connect, NeedsConnection, LoginOk,
              LogoutOk, Quit, SendFails, SendThrows, Drop
<1>5. ASSUME NEW v \in Uploaders, TakeRealtime(v) \/ TakeReissue(v) \/ SendOk(v) \/ PutBack(v)
      PROVE  upc[u] = "takeReissue" /\ seen'[u] = seen[u]
  BY <1>5 DEF TakeRealtime, TakeReissue, SendOk, PutBack
<1>6. QED
  BY <1>1, <1>2, <1>3, <1>4, <1>5, NextCases
  DEF Sigusr1, PushUploader, Receive, ScanFindsConnection, ScanGoesOn, DrainTest, DrainTake,
      DrainPut, PutReissue, PutRealtime, vars

LEMMA SeenStep == TypeOK /\ SeenIsTaken /\ [Next]_vars => SeenIsTaken'
<1> SUFFICES ASSUME TypeOK, SeenIsTaken, [Next]_vars,
                    NEW u \in Uploaders, upc'[u] = "takeReissue", NEW i, i = seen'[u]
             PROVE  InReissue(i)' \/ \E v \in Uploaders \ {u} : TakenBy(v, i)'
  BY DEF SeenIsTaken, InReissue, TakenBy, Uploaders
<1>1. CASE ChooseQueue(u)
  <2>1. /\ reissue_queue # <<>> /\ reissue_queue' = reissue_queue
        /\ i = Head(reissue_queue).id
    BY <1>1 DEF ChooseQueue, TypeOK, queueVars
  <2>2. 1 \in DOMAIN reissue_queue /\ reissue_queue[1] = Head(reissue_queue)
    BY <2>1, TailElements DEF TypeOK
  <2>3. QED  BY <2>1, <2>2 DEF InReissue
<1>2. CASE upc[u] = "takeReissue" /\ i = seen[u]
  <2>1. InReissue(i) \/ \E v \in Uploaders \ {u} : TakenBy(v, i)
    BY <1>2 DEF SeenIsTaken, InReissue, TakenBy
  <2>2. ASSUME InReissue(i), NEW v \in Uploaders, TakeReissue(v)
        PROVE  InReissue(i)' \/ \E w \in Uploaders \ {u} : TakenBy(w, i)'
    <3>1. v # u  BY <2>2 DEF TakeReissue, TypeOK
    <3>2. QED  BY <2>2, <3>1, TakenIsInHand
  <2>3. ASSUME InReissue(i), \A v \in Uploaders : ~TakeReissue(v)
        PROVE  InReissue(i)'
    BY <2>3, ReissueOnlyGrows
  <2>4. ASSUME NEW v \in Uploaders \ {u}, TakenBy(v, i)
        PROVE  InReissue(i)' \/ \E w \in Uploaders \ {u} : TakenBy(w, i)'
    BY <2>4, TakenStaysTaken
  <2>5. QED  BY <2>1, <2>2, <2>3, <2>4
<1>3. QED  BY <1>1, <1>2, WaitsForWhatItSaw

\* Whatever the number of uploaders: a packet that was in the reissue queue when an uploader
\* looked is there when it takes, or went to another uploader, which has it or wrote it.  With
\* the one uploader of the release mode the test and the take of line 123 are as good as atomic.
THEOREM SeenIsAlwaysTaken == Spec => []SeenIsTaken
<1>1. Init => SeenIsTaken
  <2> SUFFICES ASSUME Init
               PROVE  SeenIsTaken
    OBVIOUS
  <2>1. \A u \in Uploaders : upc[u] # "takeReissue"  BY DEF Init
  <2>2. QED  BY <2>1 DEF SeenIsTaken
<1>2. QED  BY <1>1, SeenStep, TypeCorrect, PTL DEF Spec
=============================================================================
