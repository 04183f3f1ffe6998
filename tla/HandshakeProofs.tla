---------------------------- MODULE HandshakeProofs ----------------------------
(***************************************************************************)
(* That the two ends of a Handshake stay in step, and that connecting      *)
(* fails for a cause only, for any length of messages, size of the         *)
(* cipher's buffer, plugins and faults.  There is one lemma per action.    *)
(***************************************************************************)
EXTENDS Handshake, TLAPS

USE HandshakeAssumption DEF setting, client, cipher, server, history

-----------------------------------------------------------------------------
(* What is on its way, as a queue.                                         *)

LEMMA EncipheredParts ==
  ASSUME NEW m \in Msg, NEW n \in Nat, NEW k \in BOOLEAN, NEW pos \in Nat
  PROVE  /\ Enciphered(m, n, k, pos) \in Seq(Part)
         /\ Len(Enciphered(m, n, k, pos)) = n
         /\ \A i \in 1..n : Enciphered(m, n, k, pos)[i].msg = m
         /\ Understood(Enciphered(m, n, k, pos), k, pos)
<1>1. Enciphered(m, n, k, pos) \in [1..n -> Part]
  BY DEF Enciphered, Part
<1>. QED BY <1>1 DEF Enciphered, Understood

LEMMA Sent ==
  ASSUME NEW s \in Seq(Part), NEW m \in Msg, NEW n \in Nat, NEW k \in BOOLEAN,
         NEW pos \in Nat
  PROVE  /\ s \o Enciphered(m, n, k, pos) \in Seq(Part)
         /\ Len(s \o Enciphered(m, n, k, pos)) = Len(s) + n
         /\ \A i \in DOMAIN (s \o Enciphered(m, n, k, pos)) :
              (s \o Enciphered(m, n, k, pos))[i] =
                  IF i <= Len(s) THEN s[i] ELSE Enciphered(m, n, k, pos)[i - Len(s)]
BY EncipheredParts

LEMMA UnderstoodSent ==
  ASSUME NEW s \in Seq(Part), NEW m \in Msg, NEW n \in Nat, NEW k \in BOOLEAN,
         NEW base \in Nat, NEW pos \in Nat,
         Understood(s, k, base), k => pos = base + Len(s)
  PROVE  Understood(s \o Enciphered(m, n, k, pos), k, base)
<1> DEFINE e == Enciphered(m, n, k, pos)
<1>1. e \in Seq(Part) /\ Len(e) = n /\ Understood(e, k, pos)
  BY EncipheredParts
<1> HIDE DEF e
<1>2. /\ s \o e \in Seq(Part) /\ DOMAIN (s \o e) = 1..(Len(s) + n)
      /\ DOMAIN s = 1..Len(s) /\ DOMAIN e = 1..n /\ Len(s) \in Nat
  BY <1>1
<1> SUFFICES ASSUME NEW i \in 1..(Len(s) + n)
             PROVE  (s \o e)[i].key = IF k THEN base + i ELSE 0
  BY <1>2 DEF Understood, e
<1>3. CASE i <= Len(s)
  <2>1. (s \o e)[i] = s[i] /\ i \in DOMAIN s
    BY <1>1, <1>2, <1>3
  <2>. QED BY <2>1 DEF Understood
<1>4. CASE i > Len(s)
  <2> DEFINE j == i - Len(s)
  <2>1. j \in DOMAIN e /\ j \in 1..n /\ Len(s) + j = i
    BY <1>2, <1>4
  <2>2. (s \o e)[i] = e[j]
    BY <1>1, <1>2, <1>4
  <2>3. e[j].key = IF k THEN pos + j ELSE 0
    BY <1>1, <2>1 DEF Understood
  <2>4. k => pos + j = base + i
    BY <2>1, <1>2
  <2>. QED BY <2>2, <2>3, <2>4
<1>. QED BY <1>2, <1>3, <1>4

LEMMA UnderstoodRest ==
  ASSUME NEW s \in Seq(Part), NEW n \in 0..Len(s), NEW k \in BOOLEAN, NEW pos \in Nat,
         Understood(s, k, pos)
  PROVE  /\ Understood(SubSeq(s, n + 1, Len(s)), k, IF k THEN pos + n ELSE pos)
         /\ SubSeq(s, n + 1, Len(s)) \in Seq(Part)
         /\ Len(SubSeq(s, n + 1, Len(s))) = Len(s) - n
         /\ \A i \in DOMAIN SubSeq(s, n + 1, Len(s)) : SubSeq(s, n + 1, Len(s))[i] = s[n + i]
<1>1. /\ SubSeq(s, n + 1, Len(s)) \in Seq(Part)
      /\ Len(SubSeq(s, n + 1, Len(s))) = Len(s) - n
      /\ \A i \in 1..(Len(s) - n) : SubSeq(s, n + 1, Len(s))[i] = s[n + i]
  OBVIOUS
<1>. QED BY <1>1 DEF Understood

LEMMA UnderstoodFirst ==
  ASSUME NEW s \in Seq(Part), NEW n \in 0..Len(s), NEW k \in BOOLEAN, NEW pos \in Nat,
         Understood(s, k, pos)
  PROVE  Understood(SubSeq(s, 1, n), k, pos)
BY DEF Understood

(* A queue of which the first parts are gone.                              *)
LEMMA Rest ==
  ASSUME NEW S, NEW s \in Seq(S), NEW n \in 0..Len(s)
  PROVE  /\ SubSeq(s, n + 1, Len(s)) \in Seq(S)
         /\ Len(SubSeq(s, n + 1, Len(s))) = Len(s) - n
         /\ \A i \in DOMAIN SubSeq(s, n + 1, Len(s)) : SubSeq(s, n + 1, Len(s))[i] = s[n + i]
OBVIOUS

LEMMA Joined ==
  ASSUME NEW S, NEW s \in Seq(S), NEW t \in Seq(S)
  PROVE  /\ s \o t \in Seq(S)
         /\ Len(s \o t) = Len(s) + Len(t)
         /\ \A i \in DOMAIN (s \o t) :
              (s \o t)[i] = IF i <= Len(s) THEN s[i] ELSE t[i - Len(s)]
OBVIOUS

(* The request that write_all is to write.                                 *)
LEMMA Sending ==
  ASSUME NEW m \in Msg, NEW s \in States, Send(m, s)
  PROVE  /\ packet' \in Seq(Msg) /\ Len(packet') = Length
         /\ \A i \in DOMAIN packet' : packet'[i] = m
         /\ pc' = s
BY DEF Send

LEMMA Failing ==
  ASSUME TypeOK, Fails
  PROVE  /\ packet' \in Seq(Msg) /\ Len(packet') <= Length
         /\ pc' = "failed" /\ ~Sound'
BY DEF Fails, Sound, TypeOK

LEMMA PlainMsg ==
  ASSUME NEW op \in Ops PROVE Plain(op) \in Msg /\ Plain(op).op = op
BY DEF Plain, Message, Msg

-----------------------------------------------------------------------------
LEMMA InitInv == Init => IInv
<1> SUFFICES ASSUME Init PROVE IInv
  OBVIOUS
<1> USE DEF Init
<1>0. Len(hosts) \in Nat /\ <<>> \in Seq(Msg) /\ <<>> \in Seq(Part) /\ Len(<<>>) = 0
  OBVIOUS
<1>1. TypeOK
  <2>1. tried \in 0..Len(hosts) /\ requests \in 0..MaxRequests
    BY <1>0
  <2>2. Len(packet) <= Length
    BY <1>0
  <2>. QED BY <1>0, <2>1, <2>2 DEF TypeOK, States
<1>2. Alternates
  BY DEF Alternates, Connecting
<1>3. Positions
  <2>1. \A b, n : Understood(<<>>, b, n)
    BY DEF Understood
  <2>. QED BY <2>1, <1>0 DEF Positions
<1>. QED BY <1>1, <1>2, <1>3 DEF IInv

LEMMA TryAddressInv == IInv /\ TryAddress => IInv'
<1> SUFFICES ASSUME IInv, TryAddress PROVE IInv'
  OBVIOUS
<1> USE DEF TryAddress
<1>0. TypeOK /\ (Sound => Alternates /\ Positions)
  BY DEF IInv
<1>1. CASE UNCHANGED <<pc, packet>>
  <2>1. TypeOK'
    BY <1>0, <1>1 DEF TypeOK
  <2>. QED BY <1>0, <1>1, <2>1 DEF IInv, Sound, Alternates, Positions, TypeOK
<1>2. CASE Send(Plain("Connect"), "accept")
  <2>1. Plain("Connect") \in Msg /\ Plain("Connect").op = "Connect"
    BY PlainMsg DEF Ops
  <2>2. /\ packet' \in Seq(Msg) /\ Len(packet') = Length
        /\ \A i \in DOMAIN packet' : packet'[i] = Plain("Connect")
        /\ pc' = "accept"
    BY <1>2, <2>1, Sending DEF States
  <2>3. TypeOK'
    BY <1>0, <2>2 DEF TypeOK, States
  <2>4. ASSUME Sound' PROVE Alternates' /\ Positions'
    <3>1. Sound /\ Alternates /\ Positions
      BY <1>0, <2>4 DEF Sound
    <3>2. Alternates'
      BY <3>1, <2>1, <2>2 DEF Alternates, OpAt, States, Connecting
    <3>3. Positions'
      BY <3>1, <2>2 DEF Positions
    <3>. QED BY <3>2, <3>3
  <2>. QED BY <2>3, <2>4 DEF IInv
<1>. QED BY <1>1, <1>2

LEMMA NoAddressInv == IInv /\ NoAddress => IInv'
<1> SUFFICES ASSUME IInv, NoAddress PROVE IInv'
  OBVIOUS
<1>1. TypeOK
  BY DEF IInv
<1>2. /\ packet' \in Seq(Msg) /\ Len(packet') <= Length
      /\ pc' = "failed" /\ ~Sound'
  BY <1>1, Failing DEF NoAddress
<1>3. TypeOK'
  BY <1>1, <1>2 DEF NoAddress, TypeOK, States
<1>. QED BY <1>2, <1>3 DEF IInv

LEMMA StartCipherInv == IInv /\ StartCipher => IInv'
<1> SUFFICES ASSUME IInv, StartCipher PROVE IInv'
  OBVIOUS
<1> USE DEF StartCipher
<1>1. TypeOK /\ (Sound => Alternates /\ Positions)
  BY DEF IInv
<1>2. TypeOK'
  BY <1>1 DEF TypeOK
<1>3. ASSUME Sound' PROVE Alternates' /\ Positions'
  <2>1. Alternates /\ Positions
    BY <1>1, <1>3 DEF Sound
  <2>2. Alternates'
    BY <2>1 DEF Alternates
  <2>3. Positions'
    BY <1>1, <2>1 DEF Positions, TypeOK
  <2>. QED BY <2>2, <2>3
<1>. QED BY <1>2, <1>3 DEF IInv

(* One write: n parts leave packet and the position moves by m.            *)
Wrote(m, n) ==
    /\ packet \in Seq(Msg) /\ n \in 0..Len(packet) /\ n \in Nat /\ m \in Nat
    /\ Head(packet) \in Msg /\ Head(packet) = packet[1] /\ 1 \in DOMAIN packet
    /\ up \in Seq(Part) /\ keyed \in BOOLEAN /\ wpos \in Nat
    /\ packet' \in Seq(Msg)
    /\ Len(packet') = Len(packet) - n
    /\ \A i \in DOMAIN packet' : packet'[i] = packet[n + i] /\ n + i \in DOMAIN packet
    /\ up' \in Seq(Part)
    /\ Len(up') = Len(up) + n
    /\ \A i \in DOMAIN up' :
         up'[i] = IF i <= Len(up) THEN up[i]
                  ELSE Enciphered(Head(packet), n, keyed, wpos)[i - Len(up)]
    /\ up' = up \o Enciphered(Head(packet), n, keyed, wpos)
    /\ packet' = SubSeq(packet, n + 1, Len(packet))
    /\ wpos' = IF keyed THEN wpos + m ELSE wpos
    /\ cut' = (cut \/ (keyed /\ n < m))
    /\ UNCHANGED <<hosts, faults, tried, pc, requests, keyed, rpos, down,
                   srvKeyed, srvIn, srvOut, offer, asked, closed, excused>>
    /\ packet # <<>>

LEMMA WriteFacts ==
  ASSUME TypeOK, Write
  PROVE  \E m \in 1..Len(packet) : \E n \in 1..m : Wrote(m, n)
<1>1. PICK m \in 1..Len(packet) : \E n \in 1..m :
        /\ up' = up \o Enciphered(Head(packet), n, keyed, wpos)
        /\ packet' = SubSeq(packet, n + 1, Len(packet))
        /\ wpos' = IF keyed THEN wpos + m ELSE wpos
        /\ cut' = (cut \/ (keyed /\ n < m))
  <2> DEFINE m == IF keyed /\ EncBuffer < Len(packet) THEN EncBuffer ELSE Len(packet)
  <2>1. m \in 1..Len(packet)
    BY DEF Write, TypeOK
  <2>. QED BY <2>1 DEF Write
<1>2. PICK n \in 1..m :
        /\ up' = up \o Enciphered(Head(packet), n, keyed, wpos)
        /\ packet' = SubSeq(packet, n + 1, Len(packet))
        /\ wpos' = IF keyed THEN wpos + m ELSE wpos
        /\ cut' = (cut \/ (keyed /\ n < m))
  BY <1>1
<1>3. /\ UNCHANGED <<hosts, faults, tried, pc, requests, keyed, rpos, down,
                     srvKeyed, srvIn, srvOut, offer, asked, closed, excused>>
      /\ packet # <<>>
  BY DEF Write
<1>4. /\ packet \in Seq(Msg) /\ n \in 0..Len(packet) /\ n \in Nat /\ m \in Nat
      /\ Head(packet) \in Msg /\ Head(packet) = packet[1] /\ 1 \in DOMAIN packet
      /\ up \in Seq(Part) /\ keyed \in BOOLEAN /\ wpos \in Nat
  BY <1>3 DEF TypeOK
<1>5. /\ packet' \in Seq(Msg)
      /\ Len(packet') = Len(packet) - n
      /\ \A i \in DOMAIN packet' : packet'[i] = packet[n + i] /\ n + i \in DOMAIN packet
  BY <1>2, <1>4, Rest
<1>6. /\ up' \in Seq(Part)
      /\ Len(up') = Len(up) + n
      /\ \A i \in DOMAIN up' :
           up'[i] = IF i <= Len(up) THEN up[i]
                    ELSE Enciphered(Head(packet), n, keyed, wpos)[i - Len(up)]
  <2> DEFINE sent == Enciphered(Head(packet), n, keyed, wpos)
  <2>1. sent \in Seq(Part) /\ Len(sent) = n
    <3>. n \in Nat
      BY <1>4
    <3>. QED BY <1>4, EncipheredParts
  <2>2. up' = up \o sent
    BY <1>2
  <2>. HIDE DEF sent
  <2>3. /\ up' \in Seq(Part)
        /\ Len(up') = Len(up) + n
        /\ \A i \in DOMAIN up' : up'[i] = IF i <= Len(up) THEN up[i] ELSE sent[i - Len(up)]
    <3>1. up \in Seq(Part)
      BY <1>4
    <3>2. /\ up \o sent \in Seq(Part)
          /\ Len(up \o sent) = Len(up) + Len(sent)
          /\ \A i \in DOMAIN (up \o sent) :
               (up \o sent)[i] = IF i <= Len(up) THEN up[i] ELSE sent[i - Len(up)]
      BY <2>1, <3>1, Joined
    <3>. QED BY <2>1, <2>2, <3>2
  <2>. QED BY <2>3 DEF sent
<1>. QED BY <1>2, <1>3, <1>4, <1>5, <1>6 DEF Wrote

LEMMA WriteInv == IInv /\ Write => IInv'
<1> SUFFICES ASSUME IInv, Write PROVE IInv'
  OBVIOUS
<1>0. TypeOK /\ (Sound => Alternates /\ Positions)
  BY DEF IInv
<1>1. PICK m \in 1..Len(packet) : \E n \in 1..m : Wrote(m, n)
  BY <1>0, WriteFacts
<1>a. PICK n \in 1..m : Wrote(m, n)
  BY <1>1
<1>2. /\ up' = up \o Enciphered(Head(packet), n, keyed, wpos)
      /\ packet' = SubSeq(packet, n + 1, Len(packet))
      /\ wpos' = IF keyed THEN wpos + m ELSE wpos
      /\ cut' = (cut \/ (keyed /\ n < m))
  BY <1>a DEF Wrote
<1>3. /\ UNCHANGED <<hosts, faults, tried, pc, requests, keyed, rpos, down,
                     srvKeyed, srvIn, srvOut, offer, asked, closed, excused>>
      /\ packet # <<>>
  BY <1>a DEF Wrote
<1>4. /\ packet \in Seq(Msg) /\ n \in 0..Len(packet) /\ n \in Nat /\ m \in Nat
      /\ Head(packet) \in Msg /\ Head(packet) = packet[1] /\ 1 \in DOMAIN packet
      /\ up \in Seq(Part) /\ keyed \in BOOLEAN /\ wpos \in Nat
  BY <1>a DEF Wrote
<1>5. /\ packet' \in Seq(Msg)
      /\ Len(packet') = Len(packet) - n
      /\ \A i \in DOMAIN packet' : packet'[i] = packet[n + i] /\ n + i \in DOMAIN packet
  BY <1>a DEF Wrote
<1>6. /\ up' \in Seq(Part)
      /\ Len(up') = Len(up) + n
      /\ \A i \in DOMAIN up' :
           up'[i] = IF i <= Len(up) THEN up[i]
                    ELSE Enciphered(Head(packet), n, keyed, wpos)[i - Len(up)]
  BY <1>a DEF Wrote
<1>7. TypeOK'
  <2>1. wpos' \in Nat /\ cut' \in BOOLEAN /\ Len(packet') <= Length
    BY <1>0, <1>2, <1>4, <1>5 DEF TypeOK
  <2>. QED BY <1>0, <1>3, <1>5, <1>6, <2>1 DEF TypeOK
<1>8. ASSUME Sound' PROVE Alternates' /\ Positions'
  <2>1. Alternates /\ Positions /\ ~(keyed /\ n < m)
    BY <1>0, <1>2, <1>3, <1>8 DEF Sound
  <2>2. \A i \in DOMAIN up' : up'[i].msg.op = OpAt[pc]
    <3>1. \A i \in 1..n : Enciphered(Head(packet), n, keyed, wpos)[i].msg = Head(packet)
      BY <1>4, EncipheredParts
    <3>2. Head(packet).op = OpAt[pc]
      BY <1>4, <2>1 DEF Alternates
    <3>3. TAKE i \in DOMAIN up'
    <3>4. CASE i <= Len(up)
      BY <3>4, <1>4, <1>6, <2>1 DEF Alternates
    <3>5. CASE ~(i <= Len(up))
      <4>1. i - Len(up) \in 1..n
        BY <3>5, <1>4, <1>6
      <4>. QED BY <4>1, <3>1, <3>2, <3>5, <1>6
    <3>. QED BY <3>4, <3>5
  <2>3. Alternates'
    <3>1. pc # "resolve"
      BY <1>3, <2>1 DEF Alternates
    <3>2. pc \in Connecting => Len(up') + Len(packet') = Length /\ down = <<>>
      <4>1. SUFFICES ASSUME pc \in Connecting
                     PROVE  Len(up') + Len(packet') = Length /\ down = <<>>
        OBVIOUS
      <4>2. Len(up) + Len(packet) = Length /\ down = <<>>
        BY <4>1, <1>3, <2>1 DEF Alternates
      <4>3. Len(up) \in Nat /\ Len(packet) \in Nat
        BY <1>4
      <4>4. n \in Nat
        BY <1>4
      <4>5. Len(up') = Len(up) + n /\ Len(packet') = Len(packet) - n
        BY <1>5, <1>6
      <4>. QED BY <4>2, <4>3, <4>4, <4>5
    <3>3. \A i \in DOMAIN packet' : packet'[i].op = OpAt[pc]
      BY <1>4, <1>5, <2>1 DEF Alternates
    <3>. QED BY <1>3, <2>2, <3>1, <3>2, <3>3 DEF Alternates
  <2>4. Understood(up', srvKeyed, srvIn)
    <3>1. /\ keyed <=> srvKeyed
          /\ keyed => wpos = srvIn + Len(up)
          /\ Understood(up, srvKeyed, srvIn)
      BY <1>3, <2>1 DEF Positions
    <3>2. srvIn \in Nat /\ srvKeyed \in BOOLEAN
      BY <1>0 DEF TypeOK
    <3>3. keyed = srvKeyed
      BY <3>1, <3>2, <1>4
    <3>4. Understood(up \o Enciphered(Head(packet), n, keyed, wpos), keyed, srvIn)
      BY <3>1, <3>2, <3>3, <1>4, UnderstoodSent
    <3>. QED BY <3>3, <3>4, <1>2
  <2>5. Positions'
    <3>1. keyed <=> srvKeyed
      BY <1>3, <2>1 DEF Positions
    <3>2. ASSUME srvKeyed PROVE wpos' = srvIn + Len(up')
      <4>1. wpos = srvIn + Len(up) /\ n = m /\ wpos' = wpos + m
        BY <3>1, <3>2, <1>2, <2>1 DEF Positions
      <4>2. srvIn \in Nat /\ Len(up) \in Nat
        BY <1>0, <1>4 DEF TypeOK
      <4>. QED BY <4>1, <4>2, <1>4, <1>6
    <3>3. ~srvKeyed => wpos' = 0
      BY <3>1, <1>2, <2>1 DEF Positions
    <3>. QED BY <3>1, <3>2, <3>3, <1>3, <2>1, <2>4 DEF Positions
  <2>. QED BY <2>3, <2>5
<1>. QED BY <1>7, <1>8 DEF IInv

-----------------------------------------------------------------------------
(* Reading.                                                                *)

LEMMA ReadFacts ==
  ASSUME TypeOK, NEW k, Read(k)
  PROVE  /\ k \in 0..Len(down) /\ k \in Nat
         /\ down' \in Seq(Part) /\ Len(down') = Len(down) - k
         /\ \A i \in DOMAIN down' : down'[i] = down[k + i] /\ k + i \in DOMAIN down
         /\ rpos' = (IF keyed THEN rpos + k ELSE rpos) /\ rpos' \in Nat
         /\ packet = <<>>
         /\ pc = "crypt" => keyed
<1>1. k \in 0..Len(down) /\ k \in Nat /\ down \in Seq(Part)
  BY DEF Read, TypeOK
<1>2. /\ SubSeq(down, k + 1, Len(down)) \in Seq(Part)
      /\ Len(SubSeq(down, k + 1, Len(down))) = Len(down) - k
      /\ \A i \in DOMAIN SubSeq(down, k + 1, Len(down)) :
           SubSeq(down, k + 1, Len(down))[i] = down[k + i]
  BY <1>1, Rest
<1>3. down' = SubSeq(down, k + 1, Len(down))
  BY DEF Read
<1>4. \A i \in DOMAIN down' : k + i \in DOMAIN down
  BY <1>1, <1>2, <1>3
<1>5. rpos' = (IF keyed THEN rpos + k ELSE rpos) /\ rpos' \in Nat
  BY <1>1 DEF Read, TypeOK
<1>. QED BY <1>1, <1>2, <1>3, <1>4, <1>5 DEF Read, Awaiting

(* A whole reply is read while connecting: nothing else is on its way, and *)
(* the stream is enciphered at both ends or at neither.                    *)
LEMMA TakesFacts ==
  ASSUME IInv, NEW reply, Takes(reply)
  PROVE  /\ pc \in Connecting
         /\ reply \in Msg
         /\ rpos' \in Nat /\ down' \in Seq(Part)
         /\ UNCHANGED <<hosts, faults, tried, requests, keyed, wpos, up,
                        srvKeyed, srvIn, srvOut, offer, asked, closed, cut, excused>>
         /\ Sound =>
              /\ up = <<>> /\ down' = <<>>
              /\ keyed <=> srvKeyed
              /\ keyed => wpos = srvIn /\ srvOut = rpos'
              /\ ~keyed => wpos = 0 /\ rpos' = 0 /\ srvIn = 0 /\ srvOut = 0
              /\ pc = "crypt" => keyed
<1>0. TypeOK /\ (Sound => Alternates /\ Positions)
  BY DEF IInv
<1>1. Read(Length) /\ Whole(Length) /\ reply = down[1].msg /\ Usable(reply) /\ pc # "request"
  BY DEF Takes
<1>2. /\ Length \in 0..Len(down) /\ Length \in Nat
      /\ down' \in Seq(Part) /\ Len(down') = Len(down) - Length
      /\ rpos' = (IF keyed THEN rpos + Length ELSE rpos) /\ rpos' \in Nat
      /\ packet = <<>>
      /\ pc = "crypt" => keyed
  BY <1>0, <1>1, ReadFacts
<1>3. pc \in Connecting
  BY <1>1 DEF Read, Awaiting, Connecting
<1>4. reply \in Msg
  <2>1. 1 \in DOMAIN down /\ down \in Seq(Part)
    BY <1>0, <1>2 DEF TypeOK
  <2>2. down[1] \in Part
    BY <2>1
  <2>. QED BY <2>2, <1>1 DEF Part
<1>5. UNCHANGED <<hosts, faults, tried, requests, keyed, wpos, up,
                  srvKeyed, srvIn, srvOut, offer, asked, closed, cut, excused>>
  BY DEF Takes
<1>6. ASSUME Sound
      PROVE  /\ up = <<>> /\ down' = <<>>
             /\ keyed <=> srvKeyed
             /\ keyed => wpos = srvIn /\ srvOut = rpos'
             /\ ~keyed => wpos = 0 /\ rpos' = 0 /\ srvIn = 0 /\ srvOut = 0
  <2>1. Alternates /\ Positions
    BY <1>0, <1>6
  <2>2. up = <<>> /\ Len(down) = Length
    BY <1>0, <1>2, <1>3, <2>1 DEF Alternates, TypeOK
  <2>3. down' = <<>>
    BY <2>2, <1>2
  <2>4. keyed <=> srvKeyed
    <3>1. CASE pc = "crypt" /\ ~srvKeyed
      <4>1. 1 \in DOMAIN down /\ down[1].msg.op = "Error"
        BY <3>1, <2>1, <2>2, <1>0 DEF Positions, TypeOK
      <4>2. reply.op = "Response"
        BY <3>1, <1>1 DEF Usable
      <4>. QED BY <4>1, <4>2, <1>1
    <3>2. CASE pc = "crypt" /\ srvKeyed
      BY <3>2, <1>2
    <3>3. CASE pc # "crypt"
      BY <3>3, <2>1 DEF Positions
    <3>. QED BY <3>1, <3>2, <3>3
  <2>5. Len(up) = 0 /\ srvIn \in Nat /\ rpos \in Nat
    BY <1>0, <2>2 DEF TypeOK
  <2>6. ASSUME keyed PROVE wpos = srvIn /\ srvOut = rpos'
    <3>1. wpos = srvIn + Len(up) /\ srvOut = rpos + Len(down) /\ rpos' = rpos + Length
      BY <2>1, <2>4, <2>6, <1>2 DEF Positions
    <3>. QED BY <3>1, <2>2, <2>5
  <2>7. ASSUME ~keyed PROVE wpos = 0 /\ rpos' = 0 /\ srvIn = 0 /\ srvOut = 0
    BY <2>1, <2>4, <2>7, <1>2 DEF Positions
  <2>. QED BY <2>2, <2>3, <2>4, <2>6, <2>7
<1>. QED BY <1>2, <1>3, <1>4, <1>5, <1>6

(* The next request of the handshake.                                      *)
LEMMA GoesOn ==
  ASSUME IInv, NEW reply, Takes(reply), NEW m \in Msg, NEW s \in Connecting,
         Send(m, s), m.op = OpAt[s],
         keyed => s \in {"crypt", "attach"}, s = "crypt" => ~keyed
  PROVE  IInv'
<1>0. TypeOK /\ (Sound => Alternates /\ Positions)
  BY DEF IInv
<1>1. s \in States
  BY DEF Connecting, States
<1>2. /\ packet' \in Seq(Msg) /\ Len(packet') = Length
      /\ \A i \in DOMAIN packet' : packet'[i] = m
      /\ pc' = s
  BY <1>1, Sending
<1>3. TypeOK'
  <2>1. /\ rpos' \in Nat /\ down' \in Seq(Part)
        /\ UNCHANGED <<hosts, faults, tried, requests, keyed, wpos, up,
                       srvKeyed, srvIn, srvOut, offer, asked, closed, cut, excused>>
    BY TakesFacts
  <2>2. pc' \in States
    BY <1>1, <1>2
  <2>3. packet' \in Seq(Msg) /\ Len(packet') <= Length
    BY <1>2
  <2>4. keyed' => pc' \notin {"resolve", "accept", "cont", "proof"}
    BY <2>1, <1>2
  <2>. QED BY <1>0, <2>1, <2>2, <2>3, <2>4 DEF TypeOK
<1>4. ASSUME Sound' PROVE Alternates' /\ Positions'
  <2>1. Sound
    BY <1>4, TakesFacts DEF Sound, Connecting
  <2>2. /\ up' = <<>> /\ down' = <<>> /\ (keyed' <=> srvKeyed')
        /\ keyed' => wpos' = srvIn' /\ srvOut' = rpos'
        /\ ~keyed' => wpos' = 0 /\ rpos' = 0 /\ srvIn' = 0 /\ srvOut' = 0
    BY <2>1, TakesFacts
  <2>3. Alternates'
    BY <2>2, <1>2 DEF Alternates, Connecting
  <2>4. Positions'
    <3>1. DOMAIN up' = {} /\ DOMAIN down' = {} /\ Len(up') = 0 /\ Len(down') = 0
      BY <2>2
    <3>2. srvIn' \in Nat /\ rpos' \in Nat
      BY <1>3 DEF TypeOK
    <3>3. ~(srvKeyed' /\ ~keyed') /\ ~(~srvKeyed' /\ keyed')
      BY <2>2
    <3>4. /\ Understood(up', srvKeyed', srvIn')
          /\ Understood(down', TRUE, rpos') /\ Understood(down', FALSE, 0)
          /\ \A i \in DOMAIN down' : down'[i].msg.op = "Error"
      BY <3>1 DEF Understood
    <3>5. CASE srvKeyed'
      <4>0. wpos' = srvIn' /\ srvOut' = rpos'
        BY <2>2, <3>5, Zenon
      <4>1. wpos' = srvIn' + Len(up') /\ srvOut' = rpos' + Len(down')
        <5>1. \A a \in Nat : a = a + 0
          OBVIOUS
        <5>2. wpos' = srvIn' + Len(up')
          BY <5>1, <3>1, <3>2, <4>0, Zenon
        <5>3. srvOut' = rpos' + Len(down')
          BY <5>1, <3>1, <3>2, <4>0, Zenon
        <5>. QED BY <5>2, <5>3
      <4>. QED BY <2>2, <3>4, <3>5, <4>1 DEF Positions
    <3>6. CASE ~srvKeyed'
      BY <2>2, <3>4, <3>6 DEF Positions
    <3>. QED BY <3>5, <3>6
  <2>. QED BY <2>3, <2>4
<1>. QED BY <1>3, <1>4 DEF IInv

LEMMA AnswerOfferInv == \A reply : IInv /\ AnswerOffer(reply) => IInv'
<1> SUFFICES ASSUME NEW reply, IInv, AnswerOffer(reply) PROVE IInv'
  OBVIOUS
<1> DEFINE s == IF reply.data THEN "proof" ELSE "cont"
           m == Message("ContAuth", reply.plugin, reply.data)
<1>1. Takes(reply) /\ reply.op \in {"AcceptData", "ContAuth"} /\ Send(m, s)
  BY DEF AnswerOffer
<1>2. reply \in Msg
  BY <1>1, TakesFacts
<1>3. m \in Msg /\ m.op = "ContAuth"
  BY <1>2 DEF Message, Msg, Ops
<1>4. s \in Connecting /\ s \in States /\ s # "crypt" /\ OpAt[s] = "ContAuth"
  BY DEF Connecting, States, OpAt
<1>5. ~keyed
  <2>1. pc \in {"accept", "cont"}
    BY <1>1 DEF Takes, Usable
  <2>. QED BY <2>1 DEF IInv, TypeOK
<1>. HIDE DEF s, m
<1>. QED BY <1>1, <1>3, <1>4, <1>5, GoesOn

LEMMA RequestCryptInv == \A reply : IInv /\ RequestCrypt(reply) => IInv'
<1> SUFFICES ASSUME NEW reply, IInv, RequestCrypt(reply) PROVE IInv'
  OBVIOUS
<1>1. Takes(reply) /\ Send(Plain("Crypt"), "crypt")
  BY DEF RequestCrypt
<1>2. Plain("Crypt") \in Msg /\ Plain("Crypt").op = "Crypt"
  BY PlainMsg DEF Ops
<1>3. "crypt" \in Connecting /\ OpAt["crypt"] = "Crypt"
  BY DEF Connecting, States, OpAt
<1>4. ~keyed
  BY DEF RequestCrypt, IInv, TypeOK
<1>. QED BY <1>1, <1>2, <1>3, <1>4, GoesOn

LEMMA AttachInv == \A reply : IInv /\ Attach(reply) => IInv'
<1> SUFFICES ASSUME NEW reply, IInv, Attach(reply) PROVE IInv'
  OBVIOUS
<1>1. Takes(reply) /\ Send(Plain("Attach"), "attach")
  BY DEF Attach
<1>2. Plain("Attach") \in Msg /\ Plain("Attach").op = "Attach"
  BY PlainMsg DEF Ops
<1>3. "attach" \in Connecting /\ OpAt["attach"] = "Attach"
  BY DEF Connecting, States, OpAt
<1>. QED BY <1>1, <1>2, <1>3, GoesOn

LEMMA AttachedInv == \A reply : IInv /\ Attached(reply) => IInv'
<1> SUFFICES ASSUME NEW reply, IInv, Attached(reply) PROVE IInv'
  OBVIOUS
<1>0. TypeOK /\ (Sound => Alternates /\ Positions)
  BY DEF IInv
<1>1. pc = "attach" /\ pc' = "attached" /\ packet' = packet /\ Takes(reply)
  BY DEF Attached
<1>2. packet = <<>>
  BY <1>1 DEF Takes, Read, Awaiting
<1>3. TypeOK'
  BY <1>0, <1>1, TakesFacts DEF TypeOK, States
<1>4. ASSUME Sound' PROVE Alternates' /\ Positions'
  <2>1. Sound
    BY <1>1, <1>4, TakesFacts DEF Sound
  <2>2. Alternates /\ Positions
    BY <1>0, <2>1
  <2>3. /\ up' = up /\ keyed' = keyed /\ srvKeyed' = srvKeyed
        /\ wpos' = wpos /\ srvIn' = srvIn /\ srvOut' = srvOut
        /\ up = <<>> /\ down' = <<>>
        /\ keyed <=> srvKeyed
        /\ keyed => srvOut = rpos'
        /\ ~keyed => rpos' = 0
    BY <1>1, <2>1, TakesFacts
  <2>4. Alternates'
    BY <1>1, <1>2, <2>3 DEF Alternates, Connecting
  <2>5. Understood(down', TRUE, rpos') /\ Understood(down', FALSE, 0)
    BY <2>3 DEF Understood
  <2>6. \A a \in Nat : a = a + 0
    OBVIOUS
  <2>7. Len(down') = 0 /\ rpos' \in Nat
    BY <1>3, <2>3 DEF TypeOK
  <2>8. rpos' = rpos' + Len(down')
    BY <2>6, <2>7
  <2>9. Positions'
    BY <1>1, <2>2, <2>3, <2>5, <2>8 DEF Positions
  <2>. QED BY <2>4, <2>9
<1>. QED BY <1>3, <1>4 DEF IInv

LEMMA RequestInv == IInv /\ Request => IInv'
<1> SUFFICES ASSUME IInv, Request PROVE IInv'
  OBVIOUS
<1> USE DEF Request
<1>0. TypeOK /\ (Sound => Alternates /\ Positions)
  BY DEF IInv
<1>1. Plain("Request") \in Msg /\ Plain("Request").op = "Request"
  BY PlainMsg DEF Ops
<1>2. /\ packet' \in Seq(Msg) /\ Len(packet') = Length
      /\ \A i \in DOMAIN packet' : packet'[i] = Plain("Request")
      /\ pc' = "request"
  BY <1>1, Sending DEF States
<1>3. TypeOK'
  BY <1>0, <1>2 DEF TypeOK, States
<1>4. ASSUME Sound' PROVE Alternates' /\ Positions'
  <2>1. Alternates /\ Positions
    BY <1>0, <1>4 DEF Sound
  <2>2. OpAt["attached"] = "Request" /\ OpAt["request"] = "Request"
    BY DEF OpAt, States
  <2>3. Alternates'
    BY <2>1, <2>2, <1>1, <1>2 DEF Alternates, Connecting
  <2>4. Positions'
    BY <2>1, <1>2 DEF Positions
  <2>. QED BY <2>3, <2>4
<1>. QED BY <1>3, <1>4 DEF IInv

(* A read of a part of what is there moves the start of down and rpos alike.*)
LEMMA AnsweredInv == IInv /\ Answered => IInv'
<1> SUFFICES ASSUME IInv, Answered PROVE IInv'
  OBVIOUS
<1>0. TypeOK /\ (Sound => Alternates /\ Positions)
  BY DEF IInv
<1>1. PICK k \in 1..Len(down) : Read(k)
  BY DEF Answered
<1>2. /\ pc = "request" /\ pc' = "attached"
      /\ UNCHANGED <<hosts, faults, tried, packet, requests, keyed, wpos, up,
                     srvKeyed, srvIn, srvOut, offer, asked, closed, cut, excused>>
  BY DEF Answered
<1>3. /\ k \in 0..Len(down) /\ k \in Nat
      /\ down' \in Seq(Part) /\ Len(down') = Len(down) - k
      /\ rpos' = (IF keyed THEN rpos + k ELSE rpos) /\ rpos' \in Nat
      /\ packet = <<>>
  BY <1>0, <1>1, ReadFacts
<1>4. TypeOK'
  BY <1>0, <1>2, <1>3 DEF TypeOK, States
<1>5. ASSUME Sound' PROVE Alternates' /\ Positions'
  <2>1. Alternates /\ Positions
    BY <1>0, <1>2, <1>5 DEF Sound
  <2>2. OpAt["attached"] = "Request" /\ OpAt["request"] = "Request"
    BY DEF OpAt, States
  <2>3. Alternates'
    BY <2>1, <2>2, <1>2 DEF Alternates, Connecting
  <2>4. down \in Seq(Part) /\ rpos \in Nat /\ down' = SubSeq(down, k + 1, Len(down))
    BY <1>0, <1>1 DEF TypeOK, Read
  <2>5. CASE srvKeyed
    <3>1. keyed /\ srvOut = rpos + Len(down) /\ Understood(down, TRUE, rpos)
      BY <2>1, <2>5, <1>2 DEF Positions
    <3>2. Understood(down', TRUE, rpos + k)
      BY <3>1, <2>4, <1>3, UnderstoodRest
    <3>3. rpos' = rpos + k
      BY <3>1, <1>3
    <3>4. srvOut' = rpos' + Len(down')
      <4>1. Len(down) \in Nat
        BY <2>4
      <4>. QED BY <3>1, <3>3, <1>2, <1>3, <2>4, <4>1
    <3>5. Understood(down', TRUE, rpos')
      BY <3>2, <3>3
    <3>. QED BY <2>1, <2>3, <2>5, <3>1, <3>4, <3>5, <1>2 DEF Positions
  <2>6. CASE ~srvKeyed
    <3>1. ~keyed /\ rpos = 0 /\ Understood(down, FALSE, 0)
      BY <2>1, <2>6, <1>2 DEF Positions
    <3>2. Understood(down', FALSE, 0)
      BY <3>1, <2>4, <1>3, UnderstoodRest
    <3>3. rpos' = 0
      BY <3>1, <1>3
    <3>4. pc' # "crypt"
      BY <1>2
    <3>. QED BY <2>1, <2>3, <2>6, <3>1, <3>2, <3>3, <3>4, <1>2 DEF Positions
  <2>. QED BY <2>5, <2>6
<1>. QED BY <1>4, <1>5 DEF IInv

LEMMA RejectedInv == IInv /\ Rejected => IInv'
<1> SUFFICES ASSUME IInv, Rejected PROVE IInv'
  OBVIOUS
<1>1. TypeOK
  BY DEF IInv
<1>2. /\ packet' \in Seq(Msg) /\ Len(packet') <= Length
      /\ pc' = "failed" /\ ~Sound'
  BY <1>1, Failing DEF Rejected
<1>3. PICK k \in 1..Len(down) : Read(k) /\ excused' = (excused \/ k < Len(down))
  BY DEF Rejected
<1>4. down' \in Seq(Part) /\ rpos' \in Nat
  BY <1>1, <1>3, ReadFacts
<1>5. excused' \in BOOLEAN
  BY <1>3
<1>6. TypeOK'
  BY <1>1, <1>2, <1>4, <1>5 DEF Rejected, TypeOK, States
<1>. QED BY <1>2, <1>6 DEF IInv

LEMMA ReadClosedInv == IInv /\ ReadClosed => IInv'
<1> SUFFICES ASSUME IInv, ReadClosed PROVE IInv'
  OBVIOUS
<1>1. TypeOK
  BY DEF IInv
<1>2. /\ packet' \in Seq(Msg) /\ Len(packet') <= Length
      /\ pc' = "failed" /\ ~Sound'
  BY <1>1, Failing DEF ReadClosed
<1>3. TypeOK'
  BY <1>1, <1>2 DEF ReadClosed, TypeOK, States
<1>. QED BY <1>2, <1>3 DEF IInv

LEMMA TimeoutInv == IInv /\ Timeout => IInv'
<1> SUFFICES ASSUME IInv, Timeout PROVE IInv'
  OBVIOUS
<1>0. TypeOK /\ (Sound => Alternates /\ Positions)
  BY DEF IInv
<1>1. UNCHANGED <<hosts, faults, tried, requests, keyed, wpos, rpos, up, down,
                  srvKeyed, srvIn, srvOut, offer, asked, closed, cut>>
  BY DEF Timeout
<1>2. CASE pc = "request" /\ pc' = "attached" /\ UNCHANGED <<packet, excused>>
  <2>1. TypeOK'
    BY <1>0, <1>1, <1>2 DEF TypeOK, States
  <2>2. ASSUME Sound' PROVE Alternates' /\ Positions'
    <3>1. Alternates /\ Positions
      BY <1>0, <1>1, <1>2, <2>2 DEF Sound
    <3>2. OpAt["attached"] = "Request" /\ OpAt["request"] = "Request"
      BY DEF OpAt, States
    <3>3. Alternates'
      BY <3>1, <3>2, <1>1, <1>2 DEF Alternates, Connecting
    <3>4. Positions'
      BY <3>1, <1>1, <1>2 DEF Positions
    <3>. QED BY <3>3, <3>4
  <2>. QED BY <2>1, <2>2 DEF IInv
<1>3. CASE Fails /\ excused' = TRUE
  <2>1. /\ packet' \in Seq(Msg) /\ Len(packet') <= Length
        /\ pc' = "failed" /\ ~Sound'
    BY <1>0, <1>3, Failing
  <2>2. TypeOK'
    BY <1>0, <1>1, <1>3, <2>1 DEF TypeOK, States
  <2>. QED BY <2>1, <2>2 DEF IInv
<1>. QED BY <1>2, <1>3 DEF Timeout

-----------------------------------------------------------------------------
(* The server takes a whole message from up.                               *)
Taken ==
    /\ Len(up) >= Length
    /\ up' = SubSeq(up, Length + 1, Len(up))
    /\ srvIn' = IF srvKeyed THEN srvIn + Length ELSE srvIn
    /\ UNCHANGED <<setting, client, cipher, cut>>

LEMMA TakenFacts ==
  ASSUME TypeOK, Len(up) >= Length, up' = SubSeq(up, Length + 1, Len(up))
  PROVE  /\ up' \in Seq(Part) /\ Len(up') = Len(up) - Length
         /\ \A i \in DOMAIN up' : up'[i] = up[Length + i] /\ Length + i \in DOMAIN up
         /\ up[1] \in Part /\ up[1].msg \in Msg /\ 1 \in DOMAIN up
         /\ Length \in 0..Len(up) /\ Len(up) \in Nat
<1>1. up \in Seq(Part) /\ Len(up) \in Nat /\ Length \in Nat /\ Length > 0
  BY DEF TypeOK
<1>2. Length \in 0..Len(up) /\ 1 \in DOMAIN up
  BY <1>1
<1>3. up' \in Seq(Part) /\ Len(up') = Len(up) - Length
      /\ \A i \in DOMAIN up' : up'[i] = up[Length + i]
  BY <1>1, <1>2, Rest
<1>4. \A i \in DOMAIN up' : Length + i \in DOMAIN up
  BY <1>1, <1>2, <1>3
<1>5. up[1] \in Part
  BY <1>1, <1>2
<1>6. up[1].msg \in Msg
  BY <1>5 DEF Part
<1>. QED BY <1>1, <1>2, <1>3, <1>4, <1>5, <1>6

(* The reply to the message taken.                                         *)
LEMMA ReplyInv ==
  ASSUME NEW m \in Msg, NEW k \in BOOLEAN
  PROVE  /\ IInv /\ Taken /\ Reply(m, k)
         /\ k = srvKeyed \/ (k = TRUE /\ up[1].msg.op = "Crypt")
         /\ k = TRUE \/ up[1].msg.op # "Crypt" \/ m = Plain("Error")
         /\ offer' \in ServerPlugins \cup {None} /\ excused' \in BOOLEAN
         => IInv'
<1>a. SUFFICES ASSUME IInv, Taken, Reply(m, k),
                      k = srvKeyed \/ (k = TRUE /\ up[1].msg.op = "Crypt"),
                      k = TRUE \/ up[1].msg.op # "Crypt" \/ m = Plain("Error"),
                      offer' \in ServerPlugins \cup {None}, excused' \in BOOLEAN
               PROVE  IInv'
  OBVIOUS
<1>0. TypeOK /\ (Sound => Alternates /\ Positions)
  BY <1>a DEF IInv
<1> DEFINE sent == Enciphered(m, Length, k, srvOut)
<1>1. /\ up' \in Seq(Part) /\ Len(up') = Len(up) - Length
      /\ \A i \in DOMAIN up' : up'[i] = up[Length + i] /\ Length + i \in DOMAIN up
      /\ 1 \in DOMAIN up
      /\ Length \in 0..Len(up) /\ Len(up) \in Nat
  BY <1>a, <1>0, TakenFacts DEF Taken
<1>2. /\ Length \in Nat /\ Length > 0 /\ srvOut \in Nat /\ srvIn \in Nat /\ rpos \in Nat
      /\ srvKeyed \in BOOLEAN /\ up \in Seq(Part) /\ down \in Seq(Part)
      /\ Len(down) \in Nat
  BY <1>0 DEF TypeOK
<1>3. sent \in Seq(Part) /\ Len(sent) = Length /\ \A i \in 1..Length : sent[i].msg = m
  <2>1. /\ Enciphered(m, Length, k, srvOut) \in Seq(Part)
        /\ Len(Enciphered(m, Length, k, srvOut)) = Length
        /\ \A i \in 1..Length : Enciphered(m, Length, k, srvOut)[i].msg = m
    <3>1. Length \in Nat /\ srvOut \in Nat
      BY <1>2
    <3>. QED BY <3>1, EncipheredParts
  <2>. QED BY <2>1
<1>4. down' = down \o sent
  BY <1>a DEF Reply
<1>5. /\ down' \in Seq(Part) /\ Len(down') = Len(down) + Length
      /\ \A i \in DOMAIN down' : down'[i] = IF i <= Len(down) THEN down[i] ELSE sent[i - Len(down)]
  <2>. HIDE DEF sent
  <2>1. /\ down \o sent \in Seq(Part)
        /\ Len(down \o sent) = Len(down) + Len(sent)
        /\ \A i \in DOMAIN (down \o sent) :
             (down \o sent)[i] = IF i <= Len(down) THEN down[i] ELSE sent[i - Len(down)]
    <3>1. down \in Seq(Part) /\ sent \in Seq(Part)
      BY <1>2, <1>3
    <3>. QED BY <3>1, Joined
  <2>. QED BY <1>3, <1>4, <2>1
<1>6. /\ srvOut' = (IF k THEN srvOut + Length ELSE srvOut)
      /\ srvKeyed' = k /\ closed' = closed
      /\ srvIn' = (IF srvKeyed THEN srvIn + Length ELSE srvIn)
      /\ UNCHANGED <<hosts, faults, tried, pc, packet, requests, keyed, wpos, rpos, cut>>
  BY <1>a DEF Reply, Taken
<1>7. TypeOK'
  <2>1. srvOut' \in Nat /\ srvIn' \in Nat
    BY <1>2, <1>6
  <2>. QED BY <1>a, <1>0, <1>1, <1>5, <1>6, <2>1 DEF TypeOK
<1>8. ASSUME Sound' PROVE Alternates' /\ Positions'
  <2>. HIDE DEF sent
  <2>1. Alternates /\ Positions
    BY <1>0, <1>6, <1>8 DEF Sound
  <2>2. up[1].msg.op = OpAt[pc]
    BY <1>1, <2>1 DEF Alternates
  <2>3. ASSUME pc \in Connecting
        PROVE  up' = <<>> /\ packet = <<>> /\ down = <<>> /\ Len(down') = Length
               /\ Len(up) = Length
    <3>1. Len(up) + Len(packet) = Length /\ down = <<>>
      <4>1. up # <<>>
        BY <1>1
      <4>. QED BY <2>1, <2>3, <4>1 DEF Alternates
    <3>2. Len(packet) \in Nat /\ packet \in Seq(Msg)
      BY <1>0 DEF TypeOK
    <3>3. Len(packet) = 0 /\ Len(up) = Length
      BY <3>1, <3>2, <1>1, <1>2
    <3>4. Len(up') = 0
      BY <3>3, <1>1, <1>2
    <3>5. Len(down) = 0
      BY <3>1
    <3>. QED BY <3>1, <3>2, <3>3, <3>4, <3>5, <1>1, <1>2, <1>5
  <2>4. pc # "resolve"
    BY <1>1, <2>1 DEF Alternates
  <2>5. Alternates'
    <3>1. \A i \in DOMAIN up' : up'[i].msg.op = OpAt[pc]
      BY <1>1, <2>1 DEF Alternates
    <3>. QED BY <3>1, <1>6, <2>1, <2>3, <2>4 DEF Alternates
  <2>6. pc = "crypt" <=> up[1].msg.op = "Crypt"
    BY <2>2, <1>0 DEF OpAt, TypeOK, States
  <2>7. Understood(up', srvKeyed, IF srvKeyed THEN srvIn + Length ELSE srvIn)
    BY <1>a, <1>1, <1>2, <2>1, UnderstoodRest DEF Positions, Taken
  <2>8. CASE srvKeyed
    <3>1. k = TRUE
      BY <1>a, <2>8
    <3>2. /\ wpos = srvIn + Len(up) /\ srvOut = rpos + Len(down)
          /\ Understood(down, TRUE, rpos)
          /\ keyed \/ (pc = "crypt" /\ packet = <<>>)
      BY <2>1, <2>8 DEF Positions
    <3>3. Understood(down', TRUE, rpos)
      <4>1. Understood(down \o Enciphered(m, Length, TRUE, srvOut), TRUE, rpos)
        BY <3>2, <1>2, UnderstoodSent
      <4>. QED BY <4>1, <1>4, <3>1 DEF sent
    <3>4. srvKeyed' /\ srvIn' = srvIn + Length /\ srvOut' = srvOut + Length
      BY <1>6, <2>8, <3>1
    <3>5. wpos' = srvIn' + Len(up') /\ srvOut' = rpos' + Len(down')
      BY <3>2, <3>4, <1>1, <1>2, <1>5, <1>6
    <3>6. Understood(up', srvKeyed', srvIn')
      BY <2>7, <2>8, <3>4, <1>6, <3>1
    <3>7. Positions'
      BY <3>2, <3>3, <3>4, <3>5, <3>6, <1>6 DEF Positions
    <3>. QED BY <2>5, <3>7
  <2>9. CASE ~srvKeyed /\ ~k
    <3>1. /\ wpos = 0 /\ rpos = 0 /\ srvIn = 0 /\ srvOut = 0
          /\ Understood(down, FALSE, 0)
          /\ ~keyed \/ (pc = "crypt" /\ packet = <<>>)
      BY <2>1, <2>9 DEF Positions
    <3>2. Understood(down', FALSE, 0)
      <4>1. Understood(down \o Enciphered(m, Length, FALSE, srvOut), FALSE, 0)
        BY <3>1, <1>2, UnderstoodSent
      <4>2. k = FALSE
        BY <2>9
      <4>. QED BY <4>1, <4>2, <1>4 DEF sent
    <3>3. ~srvKeyed' /\ srvIn' = 0 /\ srvOut' = 0
      BY <1>6, <2>9, <3>1
    <3>4. Understood(up', srvKeyed', srvIn')
      <4>1. srvKeyed = FALSE /\ srvKeyed' = FALSE
        BY <2>9, <1>2, <1>6
      <4>2. srvIn' = 0 /\ srvIn' = IF srvKeyed THEN srvIn + Length ELSE srvIn
        BY <3>3, <1>6
      <4>. QED BY <2>7, <4>1, <4>2
    <3>5. ASSUME pc = "crypt" PROVE \A i \in DOMAIN down' : down'[i].msg.op = "Error"
      <4>1. m.op = "Error"
        BY <1>a, <2>6, <2>9, <3>5, PlainMsg DEF Ops
      <4>2. Len(down) = 0
        BY <2>3, <3>5 DEF Connecting
      <4>3. TAKE i \in DOMAIN down'
      <4>4. i \in 1..Length /\ down'[i] = sent[i]
        BY <4>2, <4>3, <1>2, <1>5
      <4>. QED BY <4>1, <4>4, <1>3
    <3>6. Positions'
      BY <3>1, <3>2, <3>3, <3>4, <3>5, <1>6 DEF Positions
    <3>. QED BY <2>5, <3>6
  <2>10. CASE ~srvKeyed /\ k
    <3>1. pc = "crypt"
      BY <1>a, <2>6, <2>10
    <3>2. /\ up' = <<>> /\ packet = <<>> /\ Len(down) = 0
      BY <2>3, <3>1 DEF Connecting
    <3>3. wpos = 0 /\ rpos = 0 /\ srvIn = 0 /\ srvOut = 0
      BY <2>1, <2>10 DEF Positions
    <3>4. srvKeyed' /\ srvIn' = 0 /\ srvOut' = Length /\ Len(up') = 0 /\ Len(down') = Length
      BY <2>10, <3>2, <3>3, <1>2, <1>5, <1>6
    <3>5. wpos' = srvIn' + Len(up') /\ srvOut' = rpos' + Len(down')
      BY <3>3, <3>4, <1>2, <1>6
    <3>6. Understood(down', TRUE, rpos')
      <4>1. Understood(down, TRUE, 0)
        BY <3>2, <1>2 DEF Understood
      <4>0. 0 = 0 + Len(down) /\ 0 \in Nat /\ TRUE \in BOOLEAN
        BY <3>2
      <4>2. Understood(down \o Enciphered(m, Length, TRUE, 0), TRUE, 0)
        BY <4>0, <4>1, <1>2, UnderstoodSent, Zenon
      <4>3. k = TRUE
        BY <2>10
      <4>. QED BY <4>2, <4>3, <3>3, <1>4, <1>6 DEF sent
    <3>7. Understood(up', srvKeyed', srvIn')
      BY <3>2 DEF Understood
    <3>8. Positions'
      BY <3>1, <3>2, <3>4, <3>5, <3>6, <3>7, <1>6 DEF Positions
    <3>. QED BY <2>5, <3>8
  <2>. QED BY <2>8, <2>9, <2>10
<1>. QED BY <1>7, <1>8 DEF IInv

(* A message that the server cannot read closes the connection; if the     *)
(* ends are in step there is none.                                         *)
LEMMA ServeInv == IInv /\ Serve => IInv'
<1>a. SUFFICES ASSUME IInv, Serve PROVE IInv'
  OBVIOUS
<1> DEFINE request == up[1].msg
           whole   == Understood(SubSeq(up, 1, Length), srvKeyed, srvIn)
<1>0. TypeOK /\ (Sound => Alternates /\ Positions)
  BY <1>a DEF IInv
<1>1. /\ Len(up) >= Length /\ up' = SubSeq(up, Length + 1, Len(up))
      /\ UNCHANGED <<setting, client, cipher, cut>>
  BY <1>a DEF Serve
<1>2. /\ up' \in Seq(Part) /\ request \in Msg
      /\ Length \in 0..Len(up)
  BY <1>0, <1>1, TakenFacts
<1>3. CASE ~whole
  <2>1. closed' = TRUE /\ UNCHANGED <<down, srvKeyed, srvIn, srvOut, offer, asked, excused>>
    BY <1>a, <1>3 DEF Serve
  <2>2. TypeOK'
    BY <1>0, <1>1, <1>2, <2>1 DEF TypeOK
  <2>3. Sound => whole
    BY <1>0, <1>2, UnderstoodFirst DEF Positions, TypeOK
  <2>4. ~Sound'
    BY <2>3, <1>1, <1>3 DEF Sound
  <2>. QED BY <2>2, <2>4 DEF IInv
<1>4. CASE whole
  <2>1. Taken
    BY <1>a, <1>4 DEF Serve, Taken
  <2>2. srvKeyed \in BOOLEAN /\ excused \in BOOLEAN /\ offer \in ServerPlugins \cup {None}
    BY <1>0 DEF TypeOK
  <2>3. Plain("Error") \in Msg /\ Plain("Error").op = "Error"
    BY PlainMsg DEF Ops
  <2>4. \A op \in Ops : Plain(op) \in Msg
    BY PlainMsg
  <2>5. request.op \in Ops
    BY <1>2 DEF Msg
  <2>6. CASE Refuse(request.op)
    <3>1. Reply(Plain("Error"), srvKeyed) /\ offer' = offer /\ excused' = TRUE
      BY <2>6 DEF Refuse, Answer
    <3>2. excused' \in BOOLEAN /\ offer' \in ServerPlugins \cup {None}
      BY <2>2, <3>1
    <3>3. CASE srvKeyed = TRUE
      BY <1>a, <2>1, <2>2, <2>3, <3>1, <3>2, <3>3, ReplyInv
    <3>4. CASE srvKeyed = FALSE
      BY <1>a, <2>1, <2>2, <2>3, <3>1, <3>2, <3>4, ReplyInv
    <3>. QED BY <2>2, <3>3, <3>4
  <2>7. CASE request.op \in {"Attach", "Request"} /\ OnOther
    <3>1. Reply(Plain("Response"), srvKeyed) /\ offer' = offer /\ excused' = excused
      BY <2>7 DEF OnOther, Answer
    <3>2. Plain("Response") \in Msg
      BY <2>4 DEF Ops
    <3>3. up[1].msg.op # "Crypt"
      BY <2>7
    <3>4. excused' \in BOOLEAN /\ offer' \in ServerPlugins \cup {None}
      BY <2>2, <3>1
    <3>. QED BY <1>a, <2>1, <2>2, <3>1, <3>2, <3>3, <3>4, ReplyInv, Zenon
  <2>8. CASE request.op = "Crypt" /\ OnCrypt
    <3>1. Reply(Plain("Response"), TRUE) /\ offer' = offer /\ excused' = excused
      BY <2>8 DEF OnCrypt
    <3>2. Plain("Response") \in Msg
      BY <2>4 DEF Ops
    <3>. QED BY <1>a, <2>1, <2>2, <2>8, <3>1, <3>2, ReplyInv
  <2>9. CASE request.op = "Connect" /\ OnConnect
    <3>1. CASE Answer("Accept") /\ UNCHANGED excused
      <4>1. Reply(Plain("Accept"), srvKeyed) /\ offer' = offer /\ excused' = excused
        BY <3>1 DEF Answer
      <4>2. Plain("Accept") \in Msg
        BY <2>4 DEF Ops
      <4>. QED BY <1>a, <2>1, <2>2, <2>9, <4>1, <4>2, ReplyInv
    <3>2. ASSUME NEW op \in {"AcceptData", "Authenticated"},
                 NEW p \in ServerPlugins, NEW data \in BOOLEAN,
                 Offer(op, p, data), excused' = (excused \/ p \notin Known)
          PROVE  IInv'
      <4>1. Reply(Message(op, p, data), srvKeyed) /\ offer' = p
        BY <3>2 DEF Offer
      <4>2. Message(op, p, data) \in Msg
        BY DEF Message, Msg, Ops
      <4>3. excused' \in BOOLEAN
        BY <3>2
      <4>. QED BY <1>a, <2>1, <2>2, <2>9, <4>1, <4>2, <4>3, ReplyInv
    <3>. QED BY <3>1, <3>2, <2>9 DEF OnConnect
  <2>10. CASE request.op = "ContAuth" /\ OnContAuth(request.plugin, request.data)
    <3>1. CASE Answer("Error") /\ UNCHANGED excused
      <4>1. Reply(Plain("Error"), srvKeyed) /\ offer' = offer /\ excused' = excused
        BY <3>1 DEF Answer
      <4>. QED BY <1>a, <2>1, <2>2, <2>3, <2>10, <4>1, ReplyInv
    <3>2. CASE Answer("Response") /\ UNCHANGED excused
      <4>1. Reply(Plain("Response"), srvKeyed) /\ offer' = offer /\ excused' = excused
        BY <3>2 DEF Answer
      <4>2. Plain("Response") \in Msg
        BY <2>4 DEF Ops
      <4>. QED BY <1>a, <2>1, <2>2, <2>10, <4>1, <4>2, ReplyInv
    <3>3. ASSUME NEW p \in ServerPlugins \cup {None}, NEW data \in BOOLEAN,
                 Offer("ContAuth", p, data), excused' \in BOOLEAN
          PROVE  IInv'
      <4>1. Reply(Message("ContAuth", p, data), srvKeyed) /\ offer' = p
        BY <3>3 DEF Offer
      <4>2. Message("ContAuth", p, data) \in Msg
        BY DEF Message, Msg, Ops
      <4>. QED BY <1>a, <2>1, <2>2, <2>10, <3>3, <4>1, <4>2, ReplyInv
    <3>4. CASE request.plugin = offer /\ Offer("ContAuth", request.plugin, TRUE) /\ UNCHANGED excused
      BY <2>2, <3>3, <3>4
    <3>5. CASE AskAnother
      BY <2>2, <3>3, <3>5 DEF AskAnother
    <3>. QED BY <3>1, <3>2, <3>4, <3>5, <2>10 DEF OnContAuth
  <2>. QED BY <1>a, <1>4, <2>6, <2>7, <2>8, <2>9, <2>10 DEF Serve
<1>. QED BY <1>3, <1>4

-----------------------------------------------------------------------------
LEMMA StutterInv == IInv /\ UNCHANGED vars => IInv'
<1> SUFFICES ASSUME IInv, UNCHANGED vars PROVE IInv'
  OBVIOUS
<1>1. UNCHANGED <<hosts, faults, tried, pc, packet, requests, keyed, wpos, rpos, up, down,
                  srvKeyed, srvIn, srvOut, offer, asked, closed, cut, excused>>
  BY DEF vars
<1>2. TypeOK' /\ (Sound' <=> Sound)
  BY <1>1 DEF IInv, TypeOK, Sound
<1>3. Alternates => Alternates'
  BY <1>1 DEF Alternates
<1>4. Positions => Positions'
  BY <1>1 DEF Positions
<1>. QED BY <1>2, <1>3, <1>4 DEF IInv

LEMMA NextInv == IInv /\ [Next]_vars => IInv'
<1> SUFFICES ASSUME IInv, [Next]_vars PROVE IInv'
  OBVIOUS
<1>1. CASE Client
  <2>1. ASSUME NEW reply,
               AnswerOffer(reply) \/ RequestCrypt(reply) \/ Attach(reply) \/ Attached(reply)
        PROVE  IInv'
    BY <2>1, AnswerOfferInv, RequestCryptInv, AttachInv, AttachedInv
  <2>. QED BY <1>1, <2>1, TryAddressInv, NoAddressInv, WriteInv, StartCipherInv,
              AnsweredInv, RejectedInv, ReadClosedInv DEF Client
<1>2. CASE Request
  BY <1>2, RequestInv
<1>3. CASE Timeout
  BY <1>3, TimeoutInv
<1>4. CASE Serve
  BY <1>4, ServeInv
<1>. QED BY <1>1, <1>2, <1>3, <1>4, StutterInv DEF Next

(* The types of Handshake's variables, and that no address is tried twice  *)
(* and the stream is enciphered exactly from op_crypt on                   *)
(* (client.rs:1206-1219), for any addresses, plugins, faults and sizes.    *)
THEOREM TypeCorrect == Spec => []TypeOK
<1>1. Init => IInv
  BY InitInv
<1>2. IInv /\ [Next]_vars => IInv'
  BY NextInv
<1>3. IInv => TypeOK
  BY DEF IInv
<1>. QED BY <1>1, <1>2, <1>3, PTL DEF Spec

(* In a state of the invariant whatever is on its way will be read with    *)
(* the position it was written with.                                       *)
LEMMA IInvInStep == IInv => InStep
<1> SUFFICES ASSUME IInv, ~cut, pc # "failed" PROVE
        /\ Understood(up, srvKeyed, srvIn)
        /\ \/ Understood(down, keyed \/ pc = "crypt", rpos)
           \/ pc = "crypt" /\ \E i \in DOMAIN down : down[i].msg.op = "Error"
  BY DEF InStep
<1>1. TypeOK /\ Positions
  BY DEF IInv, Sound
<1>2. Understood(up, srvKeyed, srvIn)
  BY <1>1 DEF Positions
<1>3. CASE srvKeyed
  <2>1. (keyed \/ pc = "crypt") = TRUE /\ Understood(down, TRUE, rpos)
    BY <1>1, <1>3 DEF Positions
  <2>. QED BY <1>2, <2>1
<1>4. CASE ~srvKeyed /\ pc # "crypt"
  <2>1. (keyed \/ pc = "crypt") = FALSE /\ Understood(down, FALSE, 0)
    BY <1>1, <1>4 DEF Positions
  <2>2. Understood(down, FALSE, rpos)
    BY <2>1 DEF Understood
  <2>. QED BY <1>2, <2>1, <2>2
<1>5. CASE ~srvKeyed /\ pc = "crypt"
  <2>1. \A i \in DOMAIN down : down[i].msg.op = "Error"
    BY <1>1, <1>5 DEF Positions
  <2>2. CASE DOMAIN down = {}
    BY <1>2, <2>2 DEF Understood
  <2>3. CASE DOMAIN down # {}
    BY <1>2, <1>5, <2>1, <2>3
  <2>. QED BY <2>2, <2>3
<1>. QED BY <1>3, <1>4, <1>5

(* Both ends of the enciphered stream (arc4.rs:68-103, client.rs:1206-1219)*)
(* stay in step, until the connection fails or an enciphered write is cut  *)
(* short.                                                                  *)
THEOREM KeyStreamsAgree == Spec => []InStep
<1>1. Init => IInv
  BY InitInv
<1>2. IInv /\ [Next]_vars => IInv'
  BY NextInv
<1>3. IInv => InStep
  BY IInvInStep
<1>. QED BY <1>1, <1>2, <1>3, PTL DEF Spec

-----------------------------------------------------------------------------
(* Why connecting fails.  A step that does not end in "failed" has only to *)
(* keep both sides agreed; one that does has to have a cause.              *)
LEMMA CauseKept ==
  ASSUME CauseInv, UNCHANGED <<hosts, closed>>, cut => cut', excused => excused',
         pc' = "resolve" => pc = "resolve" /\ UNCHANGED tried,
         pc' = "failed" <=> pc = "failed",
         Sound /\ ~excused' /\ Agreed => Agreed'
  PROVE  CauseInv'
BY DEF CauseInv, Sound, FailsForCause

LEMMA CauseFails ==
  ASSUME pc' = "failed",
         excused' \/ cut' \/ \A i \in DOMAIN hosts' : hosts'[i] = "down"
  PROVE  CauseInv'
BY DEF CauseInv, Sound, FailsForCause

LEMMA TryAddressCause == IInv /\ CauseInv /\ TryAddress => CauseInv'
<1> SUFFICES ASSUME IInv, CauseInv, TryAddress PROVE CauseInv'
  OBVIOUS
<1> USE DEF TryAddress
<1>1. CASE hosts[tried'] = "down" /\ UNCHANGED <<pc, packet>>
  <2>1. \A i \in 1..tried' : hosts'[i] = "down"
    BY <1>1 DEF CauseInv, IInv, TypeOK
  <2>2. Sound' => Sound /\ Agreed'
    BY <1>1 DEF Sound, Agreed, Connecting
  <2>. QED BY <1>1, <2>1, <2>2 DEF CauseInv, FailsForCause
<1>2. CASE Send(Plain("Connect"), "accept")
  <2>1. pc' = "accept"
    BY <1>2 DEF Send
  <2>2. Sound => Agreed'
    <3>1. Sound => down' = <<>>
      BY DEF IInv, Alternates
    <3>. QED BY <2>1, <3>1 DEF Agreed
  <2>. QED BY <2>1, <2>2, CauseKept
<1>. QED BY <1>1, <1>2

LEMMA NoAddressCause == IInv /\ CauseInv /\ NoAddress => CauseInv'
<1> SUFFICES ASSUME IInv, CauseInv, NoAddress PROVE CauseInv'
  OBVIOUS
<1>1. hosts \in Seq({"up", "down"}) /\ hosts' = hosts /\ pc' = "failed"
  BY DEF IInv, TypeOK, NoAddress, Fails
<1>2. \A i \in DOMAIN hosts' : hosts'[i] = "down"
  BY <1>1 DEF CauseInv, NoAddress
<1>. QED BY <1>1, <1>2, CauseFails

LEMMA StartCipherCause == IInv /\ CauseInv /\ StartCipher => CauseInv'
<1> SUFFICES ASSUME IInv, CauseInv, StartCipher PROVE CauseInv'
  OBVIOUS
<1>1. Agreed => Agreed'
  BY DEF StartCipher, Agreed, Usable
<1>. QED BY <1>1, CauseKept DEF StartCipher

LEMMA WriteCause == IInv /\ CauseInv /\ Write => CauseInv'
<1> SUFFICES ASSUME IInv, CauseInv, Write PROVE CauseInv'
  OBVIOUS
<1>1. PICK m \in 1..Len(packet) : \E n \in 1..m : Wrote(m, n)
  BY WriteFacts DEF IInv
<1>2. PICK n \in 1..m : Wrote(m, n)
  BY <1>1
<1>3. UNCHANGED <<hosts, closed, tried, pc, down, offer, excused>> /\ (cut => cut')
  BY <1>2 DEF Wrote
<1>4. ASSUME Agreed PROVE Agreed'
  <2>1. ASSUME pc \in {"cont", "proof"}, NEW i \in DOMAIN up'
        PROVE  up'[i].msg.plugin = offer /\ up'[i].msg.data = (pc = "proof")
    <3>1. CASE i <= Len(up)
      <4>1. i \in DOMAIN up /\ up'[i] = up[i]
        BY <1>2, <2>1, <3>1 DEF Wrote
      <4>. QED BY <1>4, <2>1, <4>1 DEF Agreed
    <3>2. CASE ~(i <= Len(up))
      <4>1. /\ i - Len(up) \in 1..n
            /\ up'[i] = Enciphered(Head(packet), n, keyed, wpos)[i - Len(up)]
        <5>1. /\ up \in Seq(Part) /\ up' \in Seq(Part) /\ Len(up') = Len(up) + n
              /\ n \in Nat
              /\ up'[i] = Enciphered(Head(packet), n, keyed, wpos)[i - Len(up)]
          BY <1>2, <2>1, <3>2 DEF Wrote
        <5>. QED BY <2>1, <3>2, <5>1
      <4>2. up'[i].msg = packet[1] /\ 1 \in DOMAIN packet
        <5>1. /\ Head(packet) \in Msg /\ Head(packet) = packet[1] /\ 1 \in DOMAIN packet
              /\ n \in Nat /\ keyed \in BOOLEAN /\ wpos \in Nat
          BY <1>2 DEF Wrote
        <5>2. Enciphered(Head(packet), n, keyed, wpos)[i - Len(up)].msg = Head(packet)
          BY <4>1, <5>1, EncipheredParts
        <5>. QED BY <4>1, <5>1, <5>2
      <4>. QED BY <1>4, <2>1, <4>2 DEF Agreed
    <3>. QED BY <3>1, <3>2
  <2>2. ASSUME pc \in {"cont", "proof"}, NEW i \in DOMAIN packet'
        PROVE  packet'[i].plugin = offer /\ packet'[i].data = (pc = "proof")
    <3>1. packet'[i] = packet[n + i] /\ n + i \in DOMAIN packet
      BY <1>2, <2>2 DEF Wrote
    <3>. QED BY <1>4, <2>2, <3>1 DEF Agreed
  <2>. QED BY <1>3, <1>4, <2>1, <2>2 DEF Agreed, Usable
<1>. QED BY <1>3, <1>4, CauseKept

(* The reply that is used is the answer to the last request.               *)
LEMMA TakesCause ==
  ASSUME IInv, NEW reply, Takes(reply), NEW s \in Connecting \cup {"attached"}, pc' = s,
         s \in {"cont", "proof"} =>
            /\ reply.op \in {"AcceptData", "ContAuth"}
            /\ \A i \in DOMAIN packet' : /\ packet'[i].plugin = reply.plugin
                                         /\ packet'[i].data = (s = "proof")
  PROVE  CauseInv => CauseInv'
<1>1. pc \in Connecting /\ UNCHANGED <<hosts, tried, closed, cut, excused, offer, up>>
  BY TakesFacts
<1>2. pc # "failed" /\ pc' \notin {"resolve", "failed"}
  BY <1>1 DEF Connecting
<1>3. ASSUME Sound, Agreed PROVE Agreed'
  <2>1. up' = <<>> /\ down' = <<>>
    BY <1>1, <1>3, TakesFacts
  <2>2. 1 \in DOMAIN down /\ reply = down[1].msg /\ Usable(reply)
    BY DEF Takes, Read, IInv, TypeOK
  <2>3. Usable(reply) /\ reply.op \in {"AcceptData", "ContAuth"} =>
          reply.plugin = offer /\ offer \in Known
    BY <1>1, <1>3, <2>2 DEF Agreed, Usable
  <2>. QED BY <1>1, <2>1, <2>2, <2>3 DEF Agreed
<1>. QED BY <1>1, <1>2, <1>3, CauseKept

LEMMA AnswerOfferCause ==
  \A reply : IInv /\ CauseInv /\ AnswerOffer(reply) => CauseInv'
<1> SUFFICES ASSUME NEW reply, IInv, CauseInv, AnswerOffer(reply) PROVE CauseInv'
  OBVIOUS
<1> DEFINE s == IF reply.data THEN "proof" ELSE "cont"
           m == Message("ContAuth", reply.plugin, reply.data)
<1>1. Takes(reply) /\ reply.op \in {"AcceptData", "ContAuth"} /\ Send(m, s)
  BY DEF AnswerOffer
<1>2. reply \in Msg
  BY <1>1, TakesFacts
<1>3. s \in Connecting \cup {"attached"} /\ m.plugin = reply.plugin /\ m.data = (s = "proof")
  BY <1>2 DEF Connecting, Message, Msg
<1>. HIDE DEF s, m
<1>4. pc' = s /\ \A i \in DOMAIN packet' : packet'[i] = m
  BY <1>1 DEF Send
<1>. QED BY <1>1, <1>3, <1>4, TakesCause

LEMMA GoesOnCause ==
  \A reply : /\ IInv /\ CauseInv
             /\ RequestCrypt(reply) \/ Attach(reply) \/ Attached(reply)
             => CauseInv'
<1> SUFFICES ASSUME NEW reply, IInv, CauseInv,
                    RequestCrypt(reply) \/ Attach(reply) \/ Attached(reply)
             PROVE  CauseInv'
  OBVIOUS
<1>1. Takes(reply) /\ pc' \in {"crypt", "attach", "attached"}
  BY DEF RequestCrypt, Attach, Attached, Send
<1>. QED BY <1>1, TakesCause DEF Connecting

LEMMA RequestCause == IInv /\ CauseInv /\ (Request \/ Answered) => CauseInv'
<1> SUFFICES ASSUME IInv, CauseInv, Request \/ Answered PROVE CauseInv'
  OBVIOUS
<1>1. /\ pc \in {"attached", "request"} /\ pc' \in {"attached", "request"}
      /\ UNCHANGED <<hosts, closed, cut, excused>>
  BY DEF Request, Answered, Send
<1>2. Agreed'
  BY <1>1 DEF Agreed, Connecting
<1>. QED BY <1>1, <1>2, CauseKept

LEMMA RejectedCause == IInv /\ CauseInv /\ Rejected => CauseInv'
<1> SUFFICES ASSUME IInv, CauseInv, Rejected PROVE CauseInv'
  OBVIOUS
<1>1. PICK k \in 1..Len(down) :
        /\ Read(k) /\ ~(Whole(k) /\ Usable(down[1].msg))
        /\ excused' = (excused \/ k < Len(down))
  BY DEF Rejected
<1>2. pc' = "failed" /\ cut' = cut /\ pc # "request"
  BY DEF Rejected, Fails
<1>3. ASSUME ~excused', ~cut' PROVE FALSE
  <2>1. /\ down \in Seq(Part) /\ keyed \in BOOLEAN /\ rpos \in Nat
        /\ excused \in BOOLEAN /\ Len(down) \in Nat
    BY DEF IInv, TypeOK
  <2>2. ~excused /\ ~cut /\ k = Len(down) /\ k # 0
    <3>1. ~excused /\ ~(k < Len(down)) /\ ~cut
      BY <1>1, <1>2, <1>3
    <3>. QED BY <2>1, <3>1
  <2>3. pc \in Connecting /\ (pc = "crypt" => keyed)
    BY <1>1, <1>2 DEF Read, Awaiting, Connecting
  <2>4. Sound /\ Alternates /\ Positions /\ Agreed
    BY <2>2, <2>3 DEF Sound, Connecting, IInv, CauseInv
  <2>5. k = Length /\ Length \in 0..Len(down) /\ 1 \in DOMAIN down
    BY <2>1, <2>2, <2>3, <2>4 DEF Alternates
  <2>6. Usable(down[1].msg)
    BY <2>3, <2>4, <2>5 DEF Agreed
  <2>7. Understood(SubSeq(down, 1, k), keyed, rpos)
    <3>1. CASE srvKeyed
      <4>1. keyed = TRUE /\ Understood(down, TRUE, rpos)
        BY <2>1, <2>3, <2>4, <3>1 DEF Positions
      <4>. QED BY <2>1, <2>5, <4>1, UnderstoodFirst
    <3>2. CASE ~srvKeyed
      <4>1. pc # "crypt"
        BY <2>4, <2>5, <2>6, <3>2 DEF Positions, Usable
      <4>2. keyed = FALSE /\ Understood(down, FALSE, rpos)
        BY <2>1, <2>4, <3>2, <4>1 DEF Positions, Understood
      <4>. QED BY <2>1, <2>5, <4>2, UnderstoodFirst
    <3>. QED BY <3>1, <3>2
  <2>. QED BY <1>1, <2>5, <2>6, <2>7 DEF Whole
<1>. QED BY <1>2, <1>3, CauseFails

LEMMA ReadClosedCause == IInv /\ CauseInv /\ ReadClosed => CauseInv'
<1> SUFFICES ASSUME IInv, CauseInv, ReadClosed PROVE CauseInv'
  OBVIOUS
<1>1. pc' = "failed" /\ cut' = cut /\ closed /\ pc # "failed"
  BY DEF ReadClosed, Fails, Awaiting
<1>2. cut
  BY <1>1 DEF CauseInv, Sound
<1>. QED BY <1>1, <1>2, CauseFails

LEMMA TimeoutCause == IInv /\ CauseInv /\ Timeout => CauseInv'
<1> SUFFICES ASSUME IInv, CauseInv, Timeout PROVE CauseInv'
  OBVIOUS
<1>1. CASE pc = "request" /\ pc' = "attached" /\ UNCHANGED excused
  <2>1. Agreed'
    BY <1>1 DEF Agreed, Connecting
  <2>. QED BY <1>1, <2>1, CauseKept DEF Timeout
<1>2. CASE Fails /\ excused' = TRUE
  BY <1>2, CauseFails DEF Fails
<1>. QED BY <1>1, <1>2 DEF Timeout

(* The server's reply.                                                     *)
LEMMA ReplyAgreed ==
  ASSUME IInv, Sound, pc \in Connecting, Taken,
         NEW m \in Msg, NEW k \in BOOLEAN, Reply(m, k),
         Usable(m), m.op \in {"AcceptData", "ContAuth"} => m.plugin = offer',
         pc \in {"cont", "proof"} => offer' \in Known
  PROVE  Agreed'
<1>1. TypeOK /\ Alternates
  BY DEF IInv
<1>2. up \in Seq(Part) /\ packet \in Seq(Msg) /\ Len(up) >= Length /\ up # <<>>
  BY <1>1 DEF TypeOK, Taken
<1>3. down = <<>> /\ Len(up) + Len(packet) = Length
  BY <1>1, <1>2 DEF Alternates
<1>4. Len(up) = Length /\ Len(packet) = 0
  BY <1>2, <1>3
<1>5. up' = <<>> /\ packet' = <<>> /\ pc' = pc
  <2>1. Len(up') = 0 /\ up' \in Seq(Part)
    BY <1>1, <1>2, <1>4, TakenFacts DEF Taken
  <2>. QED BY <1>2, <1>4, <2>1 DEF Taken
<1>6. \A i \in DOMAIN down' : down'[i].msg = m
  <2>1. srvOut \in Nat
    BY <1>1 DEF TypeOK
  <2>2. down' = Enciphered(m, Length, k, srvOut)
    BY <1>3, <2>1, EncipheredParts DEF Reply
  <2>. QED BY <2>1, <2>2 DEF Enciphered
<1>7. Usable(m)'
  BY <1>5 DEF Usable
<1>. QED BY <1>5, <1>6, <1>7 DEF Agreed, Usable

LEMMA ServeCause == IInv /\ CauseInv /\ Serve => CauseInv'
<1>a. SUFFICES ASSUME IInv, CauseInv, Serve PROVE CauseInv'
  OBVIOUS
<1> DEFINE request == up[1].msg
           whole   == Understood(SubSeq(up, 1, Length), srvKeyed, srvIn)
<1>1. /\ Len(up) >= Length /\ up' = SubSeq(up, Length + 1, Len(up))
      /\ UNCHANGED <<hosts, tried, pc, packet, cut>>
  BY <1>a DEF Serve
<1>2. /\ request \in Msg /\ 1 \in DOMAIN up /\ Length \in 0..Len(up)
      /\ up \in Seq(Part) /\ srvKeyed \in BOOLEAN /\ srvIn \in Nat
      /\ excused \in BOOLEAN
  BY <1>a, <1>1, TakenFacts DEF IInv, TypeOK
<1>3. CASE ~whole
  <2>1. closed' = TRUE /\ UNCHANGED excused
    BY <1>a, <1>3 DEF Serve
  <2>2. Sound => whole
    BY <1>a, <1>2, UnderstoodFirst DEF IInv, Positions
  <2>3. ~Sound'
    BY <2>2, <1>1, <1>3 DEF Sound
  <2>. QED BY <1>a, <1>1, <2>1, <2>3 DEF CauseInv, FailsForCause
<1>4. CASE whole
  <2>1. Taken
    BY <1>a, <1>4 DEF Serve, Taken
  <2>2. closed' = closed /\ (excused => excused')
    BY <1>a, <1>4, <1>2 DEF Serve, OnConnect, OnContAuth, OnCrypt, OnOther, Refuse,
       Answer, Offer, AskAnother, Reply
  <2>3. ASSUME Sound, ~excused', Agreed, pc \in Connecting PROVE Agreed'
    <3>1. request.op = OpAt[pc] /\ pc \in States
      BY <1>a, <1>2, <2>3 DEF IInv, Alternates, TypeOK
    <3>2. ~Refuse(request.op)
      BY <2>3 DEF Refuse
    <3>3. CASE request.op \in {"Attach", "Request"} /\ OnOther
      <4>1. pc = "attach"
        BY <2>3, <3>1, <3>3 DEF OpAt, Connecting
      <4>2. Plain("Response") \in Msg /\ Plain("Response").op = "Response"
        BY PlainMsg DEF Ops
      <4>3. Usable(Plain("Response")) /\ Reply(Plain("Response"), srvKeyed)
        BY <3>3, <4>1, <4>2 DEF Usable, OnOther, Answer
      <4>. QED BY <1>a, <1>2, <2>1, <2>3, <4>1, <4>2, <4>3, ReplyAgreed
    <3>4. CASE request.op = "Crypt" /\ OnCrypt
      <4>1. pc = "crypt"
        BY <2>3, <3>1, <3>4 DEF OpAt, Connecting
      <4>2. Plain("Response") \in Msg /\ Plain("Response").op = "Response"
        BY PlainMsg DEF Ops
      <4>3. Usable(Plain("Response")) /\ Reply(Plain("Response"), TRUE)
        BY <3>4, <4>1, <4>2 DEF Usable, OnCrypt
      <4>. QED BY <1>a, <2>1, <2>3, <4>1, <4>2, <4>3, ReplyAgreed
    <3>5. CASE request.op = "Connect" /\ OnConnect
      <4>1. pc = "accept"
        BY <2>3, <3>1, <3>5 DEF OpAt, Connecting
      <4>2. ASSUME Answer("Accept") PROVE Agreed'
        <5>1. Plain("Accept") \in Msg /\ Plain("Accept").op = "Accept"
          BY PlainMsg DEF Ops
        <5>2. Usable(Plain("Accept")) /\ Reply(Plain("Accept"), srvKeyed)
          BY <4>1, <4>2, <5>1 DEF Usable, Answer
        <5>. QED BY <1>a, <1>2, <2>1, <2>3, <4>1, <5>1, <5>2, ReplyAgreed
      <4>3. ASSUME NEW op \in {"AcceptData", "Authenticated"},
                   NEW p \in ServerPlugins, NEW data \in BOOLEAN,
                   Offer(op, p, data), excused' = (excused \/ p \notin Known)
            PROVE  Agreed'
        <5> DEFINE m == Message(op, p, data)
        <5>1. m \in Msg /\ m.op = op /\ m.plugin = p
          BY DEF Message, Msg, Ops
        <5>2. Reply(m, srvKeyed) /\ offer' = p /\ p \in Known
          BY <2>3, <4>3 DEF Offer
        <5> HIDE DEF m
        <5>3. Usable(m)
          BY <4>1, <5>1, <5>2 DEF Usable
        <5>. QED BY <1>a, <1>2, <2>1, <2>3, <5>1, <5>2, <5>3, ReplyAgreed
      <4>. QED BY <3>5, <4>2, <4>3 DEF OnConnect
    <3>6. CASE request.op = "ContAuth" /\ OnContAuth(request.plugin, request.data)
      <4>1. pc \in {"cont", "proof"}
        BY <2>3, <3>1, <3>6 DEF OpAt, Connecting
      <4>2. request.plugin = offer /\ request.data = (pc = "proof") /\ offer \in Known
        BY <1>2, <2>3, <4>1 DEF Agreed
      <4>3. ASSUME NEW p \in ServerPlugins \cup {None}, NEW data \in BOOLEAN, p \in Known,
                   Offer("ContAuth", p, data), pc = "cont"
            PROVE  Agreed'
        <5> DEFINE m == Message("ContAuth", p, data)
        <5>1. m \in Msg /\ m.op = "ContAuth" /\ m.plugin = p
          BY DEF Message, Msg, Ops
        <5>2. Reply(m, srvKeyed) /\ offer' = p
          BY <4>3 DEF Offer
        <5> HIDE DEF m
        <5>3. Usable(m)
          BY <4>3, <5>1 DEF Usable
        <5>. QED BY <1>a, <1>2, <2>1, <2>3, <4>3, <5>1, <5>2, <5>3, ReplyAgreed
      <4>4. CASE ~request.data /\ Offer("ContAuth", request.plugin, TRUE)
        <5>1. offer \in ServerPlugins \cup {None} /\ pc = "cont"
          BY <1>a, <4>1, <4>2, <4>4 DEF IInv, TypeOK
        <5>. QED BY <4>2, <4>3, <4>4, <5>1
      <4>5. CASE ~request.data /\ AskAnother
        <5>1. PICK p \in ServerPlugins : /\ Offer("ContAuth", p, FALSE)
                                         /\ excused' = (excused \/ p \notin Known)
          BY <4>5 DEF AskAnother
        <5>2. p \in Known /\ pc = "cont"
          BY <2>3, <4>1, <4>2, <4>5, <5>1
        <5>. QED BY <4>3, <5>1, <5>2
      <4>6. CASE request.data /\ Answer("Response")
        <5>1. Plain("Response") \in Msg /\ Plain("Response").op = "Response"
          BY PlainMsg DEF Ops
        <5>2. pc = "proof"
          BY <4>2, <4>6
        <5>3. /\ Usable(Plain("Response")) /\ Reply(Plain("Response"), srvKeyed)
              /\ offer' = offer
          BY <4>6, <5>1, <5>2 DEF Usable, Answer
        <5>. QED BY <1>a, <1>2, <2>1, <2>3, <4>2, <5>1, <5>2, <5>3, ReplyAgreed
      <4>. QED BY <3>6, <4>2, <4>4, <4>5, <4>6 DEF OnContAuth
    <3>. QED BY <1>a, <1>4, <3>2, <3>3, <3>4, <3>5, <3>6 DEF Serve
  <2>4. pc \notin Connecting => Agreed'
    BY <1>1 DEF Agreed, Connecting
  <2>. QED BY <1>a, <1>1, <2>2, <2>3, <2>4, CauseKept
<1>. QED BY <1>3, <1>4

LEMMA NextCause == IInv /\ CauseInv /\ [Next]_vars => CauseInv'
<1> SUFFICES ASSUME IInv, CauseInv, [Next]_vars PROVE CauseInv'
  OBVIOUS
<1>1. CASE Client
  <2>1. ASSUME NEW reply,
               AnswerOffer(reply) \/ RequestCrypt(reply) \/ Attach(reply) \/ Attached(reply)
        PROVE  CauseInv'
    BY <2>1, AnswerOfferCause, GoesOnCause
  <2>. QED BY <1>1, <2>1, TryAddressCause, NoAddressCause, WriteCause, StartCipherCause,
              RequestCause, RejectedCause, ReadClosedCause DEF Client
<1>2. CASE UNCHANGED vars
  <2>1. Agreed => Agreed'
    BY <1>2 DEF vars, Agreed, Usable
  <2>. QED BY <1>2, <2>1, CauseKept DEF vars
<1>. QED BY <1>1, <1>2, RequestCause, TimeoutCause, ServeCause DEF Next

(* Connecting fails for a cause that is not the client's (client.rs:       *)
(* 1150-1225): no offer is answered for another plugin, and no reply of a  *)
(* server that goes on is refused or waited for in vain.                   *)
THEOREM FailuresHaveCause == Spec => []FailsForCause
<1>1. Init => IInv /\ CauseInv
  <2>1. Init => CauseInv
    BY DEF Init, CauseInv, Agreed, Connecting, FailsForCause
  <2>. QED BY <2>1, InitInv
<1>2. IInv /\ CauseInv /\ [Next]_vars => IInv' /\ CauseInv'
  BY NextInv, NextCause
<1>3. CauseInv => FailsForCause
  BY DEF CauseInv
<1>. QED BY <1>1, <1>2, <1>3, PTL DEF Spec
================================================================================
