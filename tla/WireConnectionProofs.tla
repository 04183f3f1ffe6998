------------------------- MODULE WireConnectionProofs -------------------------
(***************************************************************************)
(* That WireConnection keeps IInv for every number of requests and every   *)
(* set of faults: no reply is taken for another's before an operation has  *)
(* failed, and none fails for a reason of the client's own.                *)
(***************************************************************************)
EXTENDS WireConnection, SequenceTheorems, TLAPS

LEMMA InitInv == Init => IInv
<1> SUFFICES ASSUME Init PROVE IInv
  OBVIOUS
<1> USE DEF Init
<1>1. TypeOK
  <2>1. transaction \in BOOLEAN /\ disturbed \in BOOLEAN /\ failed \in BOOLEAN
        /\ misread \in BOOLEAN
    BY Zenon
  <2>2. inbox \in Seq(Reply) /\ own \in Seq(1..requests)
    OBVIOUS
  <2>. QED BY <2>1, <2>2 DEF TypeOK
<1>2. Shape /\ Owed /\ Undisturbed
  BY DEF Shape, Owed, Undisturbed
<1>. QED BY <1>1, <1>2 DEF IInv, FailsOnlyIfDisturbed, MisreadOnlyAfterFailure

-----------------------------------------------------------------------------
(* Requests add replies at the end of the inbox.                           *)

LEMMA AnswerType ==
  ASSUME NEW request \in Nat, NEW kind \in Kind, NEW err \in BOOLEAN
  PROVE  /\ Answer(request, kind, err) \in Reply
         /\ Answer(request, kind, err).request = request
         /\ Answer(request, kind, err).part = "whole"
         /\ Answer(request, kind, err).err = err
         /\ kind = "Response" => Answer(request, kind, err).kind = "Response"
BY DEF Answer, Reply, Kind, Part

LEMMA MayErrType == \A fault : MayErr(fault) \subseteq BOOLEAN
BY DEF MayErr

LEMMA WriteInv ==
  ASSUME NEW op \in {"begin", "end", "describe", "execute", "info", "fetch",
                   "detach"},
         NEW kind \in Kind,
         IInv, own = <<>>, pc # "fetch", Write(op, kind),
         UNCHANGED <<lazy_count, handles, history>>,
         op = "fetch" => stmt = "open",
         op # "fetch" => kind = "Response"
  PROVE  IInv'
<1> USE DEF IInv, handles, history
<1>1. PICK err \in BOOLEAN : inbox' = Append(inbox, Answer(requests + 1, kind, err))
  BY MayErrType DEF Write
<1>2. /\ inbox \in Seq(Reply) /\ requests \in Nat /\ lazy_count \in Nat
      /\ requests' = requests + 1 /\ own' = <<requests + 1>> /\ pc' = op
  BY DEF TypeOK, Write
<1> DEFINE reply == Answer(requests + 1, kind, err)
<1>3. /\ reply \in Reply /\ reply.request = requests + 1
      /\ reply.part = "whole" /\ (op # "fetch" => reply.kind = "Response")
  BY <1>2, AnswerType
<1> HIDE DEF reply
<1>4. /\ inbox' \in Seq(Reply) /\ Len(inbox') = Len(inbox) + 1
      /\ \A i \in 1..Len(inbox) : inbox'[i] = inbox[i]
      /\ inbox'[Len(inbox) + 1] = reply
  BY <1>1, <1>2, <1>3 DEF reply
<1>5. TypeOK'
  BY <1>2, <1>4 DEF TypeOK, Waiting
<1>6. Shape'
  BY <1>2 DEF Shape
<1>7. Owed'
  <2> SUFFICES ASSUME ~failed PROVE Owed'
    BY DEF Owed
  <2>1. Len(inbox) = lazy_count
    BY DEF Owed, TypeOK
  <2>2. ASSUME NEW i \in 1..Len(inbox')
        PROVE  inbox'[i].part = "whole" /\ (pc' # "fetch" => inbox'[i].kind = "Response")
    <3>1. CASE i \in 1..Len(inbox)
      BY <3>1, <1>2, <1>4 DEF Owed
    <3>2. CASE i = Len(inbox) + 1
      BY <3>2, <1>2, <1>3, <1>4
    <3>. QED BY <3>1, <3>2, <1>4, <2>1, <1>2
  <2>3. inbox'[lazy_count' + 1].request = own'[1]
    BY <2>1, <1>2, <1>3, <1>4
  <2>. QED BY <2>1, <2>2, <2>3, <1>2, <1>4 DEF Owed
<1>8. Undisturbed'
  <2> SUFFICES ASSUME ~disturbed, NEW i \in 1..Len(inbox'), inbox'[i].err
               PROVE  i > lazy_count
    BY DEF Undisturbed
  <2>1. Len(inbox) = lazy_count
    BY DEF Owed, FailsOnlyIfDisturbed, TypeOK
  <2>. QED BY <2>1, <1>2, <1>4 DEF Undisturbed
<1>. QED BY <1>5, <1>6, <1>7, <1>8 DEF FailsOnlyIfDisturbed,
            MisreadOnlyAfterFailure

LEMMA SendInv ==
  ASSUME NEW op \in {"begin", "end", "execute", "fetch", "detach"}, NEW kind \in Kind,
         IInv, Send(op, kind),
         op = "fetch" => stmt = "open",
         op # "fetch" => kind = "Response"
  PROVE  IInv'
<1>1. own = <<>> /\ pc # "fetch" /\ Write(op, kind)
      /\ UNCHANGED <<lazy_count, handles, history>>
  BY DEF Send, IInv, Shape
<1>. QED BY <1>1, WriteInv

LEMMA PrepareInv == IInv /\ Prepare => IInv'
<1> SUFFICES ASSUME IInv, Prepare PROVE IInv'
  OBVIOUS
<1> USE DEF IInv, handles, history
<1>1. PICK e1 \in BOOLEAN, e2 \in BOOLEAN :
        inbox' = inbox \o <<Answer(requests + 1, "Response", e1),
                            Answer(requests + 2, "Response", e2)>>
  BY MayErrType DEF Prepare
<1>2. /\ inbox \in Seq(Reply) /\ requests \in Nat /\ lazy_count \in Nat
      /\ requests' = requests + 2 /\ own' = <<requests + 1, requests + 2>>
      /\ pc = "idle" /\ pc' = "prepare" /\ own = <<>> /\ stmt = "none"
      /\ UNCHANGED <<lazy_count, transaction, stmt, disturbed, failed, misread>>
  BY DEF TypeOK, Prepare, Shape
<1> DEFINE r1 == Answer(requests + 1, "Response", e1)
           r2 == Answer(requests + 2, "Response", e2)
<1>3. /\ r1 \in Reply /\ r1.request = requests + 1
      /\ r1.part = "whole" /\ r1.kind = "Response"
      /\ r2 \in Reply /\ r2.request = requests + 2
      /\ r2.part = "whole" /\ r2.kind = "Response"
  BY <1>2, AnswerType DEF Kind
<1> HIDE DEF r1, r2
<1>4. /\ inbox' \in Seq(Reply) /\ Len(inbox') = Len(inbox) + 2
      /\ \A i \in 1..Len(inbox) : inbox'[i] = inbox[i]
      /\ inbox'[Len(inbox) + 1] = r1 /\ inbox'[Len(inbox) + 2] = r2
  BY <1>1, <1>2, <1>3 DEF r1, r2
<1>5. TypeOK'
  BY <1>2, <1>4 DEF TypeOK, Waiting
<1>6. Shape'
  BY <1>2 DEF Shape
<1>7. Owed'
  <2> SUFFICES ASSUME ~failed PROVE Owed'
    BY <1>2 DEF Owed
  <2>1. Len(inbox) = lazy_count
    BY <1>2 DEF Owed
  <2>2. ASSUME NEW i \in 1..Len(inbox')
        PROVE  inbox'[i].part = "whole" /\ inbox'[i].kind = "Response"
    <3>1. CASE i \in 1..Len(inbox)
      BY <3>1, <1>2, <1>4 DEF Owed
    <3>2. CASE i = Len(inbox) + 1 \/ i = Len(inbox) + 2
      BY <3>2, <1>2, <1>3, <1>4
    <3>. QED BY <3>1, <3>2, <1>4, <2>1, <1>2
  <2>3. /\ inbox'[lazy_count' + 1].request = own'[1]
        /\ inbox'[lazy_count' + 2].request = own'[2]
    BY <2>1, <1>2, <1>3, <1>4
  <2>. QED BY <2>1, <2>2, <2>3, <1>2, <1>4 DEF Owed
<1>8. Undisturbed'
  <2> SUFFICES ASSUME ~disturbed, NEW i \in 1..Len(inbox'), inbox'[i].err
               PROVE  i > lazy_count
    BY <1>2 DEF Undisturbed
  <2>1. Len(inbox) = lazy_count
    BY <1>2 DEF Owed, FailsOnlyIfDisturbed
  <2>. QED BY <2>1, <1>2, <1>4 DEF Undisturbed
<1>. QED BY <1>2, <1>5, <1>6, <1>7, <1>8 DEF FailsOnlyIfDisturbed,
            MisreadOnlyAfterFailure

LEMMA FreeStatementInv == IInv /\ FreeStatement => IInv'
<1> SUFFICES ASSUME IInv, FreeStatement PROVE IInv'
  OBVIOUS
<1> USE DEF IInv
<1>1. PICK err \in BOOLEAN :
        /\ inbox' = Append(inbox, Answer(requests + 1, "Response", err))
        /\ disturbed' = (disturbed \/ err)
  BY MayErrType DEF FreeStatement
<1>2. /\ inbox \in Seq(Reply) /\ requests \in Nat /\ lazy_count \in Nat
      /\ requests' = requests + 1 /\ lazy_count' = lazy_count + 1
      /\ pc = "idle" /\ own = <<>> /\ stmt' \in {"none", "prepared"}
      /\ UNCHANGED <<pc, own, transaction, failed, misread>>
  BY DEF TypeOK, FreeStatement, Shape
<1> DEFINE reply == Answer(requests + 1, "Response", err)
<1>3. /\ reply \in Reply /\ reply.part = "whole" /\ reply.kind = "Response"
      /\ reply.err = err
  BY <1>2, AnswerType DEF Kind
<1> HIDE DEF reply
<1>4. /\ inbox' \in Seq(Reply) /\ Len(inbox') = Len(inbox) + 1
      /\ \A i \in 1..Len(inbox) : inbox'[i] = inbox[i]
      /\ inbox'[Len(inbox) + 1] = reply
  BY <1>1, <1>2, <1>3 DEF reply
<1>5. disturbed' \in BOOLEAN /\ (disturbed => disturbed') /\ (err => disturbed')
  BY <1>1, Zenon DEF TypeOK
<1>6. TypeOK'
  BY <1>2, <1>4, <1>5 DEF TypeOK
<1>7. Shape'
  BY <1>2 DEF Shape
<1>8. Owed'
  <2> SUFFICES ASSUME ~failed PROVE Owed'
    BY <1>2 DEF Owed
  <2>1. Len(inbox) = lazy_count
    BY <1>2 DEF Owed
  <2>2. ASSUME NEW i \in 1..Len(inbox')
        PROVE  inbox'[i].part = "whole" /\ inbox'[i].kind = "Response"
    BY <1>2, <1>3, <1>4 DEF Owed
  <2>. QED BY <2>1, <2>2, <1>2, <1>4 DEF Owed
<1>9. Undisturbed'
  <2> SUFFICES ASSUME ~disturbed', NEW i \in 1..Len(inbox'), inbox'[i].err
               PROVE  FALSE
    BY DEF Undisturbed
  <2>1. ~disturbed /\ ~err /\ Len(inbox) = lazy_count
    BY <1>2, <1>5 DEF Owed, FailsOnlyIfDisturbed
  <2>2. i \in 1..Len(inbox)
    BY <2>1, <1>2, <1>3, <1>4
  <2>. QED BY <2>1, <2>2, <1>2, <1>4 DEF Undisturbed
<1>. QED BY <1>2, <1>5, <1>6, <1>7, <1>8, <1>9 DEF FailsOnlyIfDisturbed,
            MisreadOnlyAfterFailure

-----------------------------------------------------------------------------
(* Operations read a packet: the first replies of the inbox.               *)

(* A packet is a part of the inbox, and all of it when nothing is left.    *)
LEMMA PacketFacts ==
  ASSUME inbox \in Seq(Reply), NEW packet \in Packets, Arrives(packet, inbox')
  PROVE  /\ packet \in Seq(Reply) /\ Len(packet) \in 1..Len(inbox)
         /\ inbox' \in Seq(Reply)
         /\ inbox' = <<>> => packet = inbox
         /\ /\ Len(packet) = Len(inbox)
            /\ \A i \in 1..Len(packet) : packet[i].part = "whole"
            => packet = inbox /\ inbox' = <<>>
<1>1. Len(inbox) \in Nat /\ Len(inbox) > 0
  <2>1. Len(inbox) \in Nat
    OBVIOUS
  <2>2. 1..Len(inbox) # {}
    BY DEF Packets
  <2>. QED BY ONLY <2>1, <2>2
<1>2. CASE packet = inbox /\ inbox' = <<>>
  BY <1>1, <1>2
<1>3. ASSUME NEW k \in 1..Len(inbox),
             packet = SubSeq(inbox, 1, k),
             inbox' = SubSeq(inbox, k + 1, Len(inbox))
      PROVE  /\ packet \in Seq(Reply) /\ Len(packet) = k
             /\ inbox' \in Seq(Reply)
             /\ (inbox' = <<>>) <=> (k = Len(inbox))
             /\ k = Len(inbox) => packet = inbox
  <2>1. \A i \in 1..Len(inbox) : inbox[i] \in Reply
    BY ElementOfSeq
  <2>2. packet \in Seq(Reply) /\ Len(packet) = k
    BY <1>1, <1>3, <2>1, SubSeqProperties
  <2>3. /\ inbox' \in Seq(Reply)
        /\ Len(inbox') = IF k + 1 <= Len(inbox) THEN Len(inbox) - k ELSE 0
    BY <1>1, <1>3, <2>1, SubSeqProperties
  <2>4. (inbox' = <<>>) <=> (k = Len(inbox))
    BY <1>1, <2>3, EmptySeq
  <2>5. k = Len(inbox) => packet = inbox
    BY <1>3, SubSeqFull
  <2>. QED BY <2>2, <2>3, <2>4, <2>5
<1>4. ASSUME NEW k \in 1..Len(inbox),
             packet = Append(SubSeq(inbox, 1, k - 1), Part1(inbox[k])),
             inbox' = <<Part2(inbox[k])>> \o SubSeq(inbox, k + 1, Len(inbox))
      PROVE  /\ packet \in Seq(Reply) /\ Len(packet) = k
             /\ packet[k].part = "head"
             /\ inbox' \in Seq(Reply) /\ inbox' # <<>>
  <2>1. /\ Part1(inbox[k]) \in Reply /\ Part1(inbox[k]).part = "head"
        /\ Part2(inbox[k]) \in Reply
    <3>1. inbox[k] \in Reply
      BY ElementOfSeq
    <3>. QED BY <3>1 DEF Part1, Part2, Reply, Part
  <2> DEFINE first == Part1(inbox[k])
             second == Part2(inbox[k])
             before == SubSeq(inbox, 1, k - 1)
             after == SubSeq(inbox, k + 1, Len(inbox))
  <2>2. before \in Seq(Reply) /\ Len(before) = k - 1 /\ after \in Seq(Reply)
    BY <1>1
  <2> HIDE DEF first, second, before, after
  <2>3. packet = Append(before, first) /\ inbox' = <<second>> \o after
        /\ first \in Reply /\ first.part = "head" /\ second \in Reply
    BY <1>4, <2>1 DEF first, second, before, after
  <2>4. packet \in Seq(Reply) /\ Len(packet) = k /\ packet[k] = first
    BY <1>1, <2>2, <2>3
  <2>5. inbox' \in Seq(Reply) /\ Len(inbox') = 1 + Len(after)
    BY <2>2, <2>3
  <2>6. inbox' # <<>>
    BY <2>2, <2>5
  <2>. QED BY ONLY <2>3, <2>4, <2>5, <2>6
<1>5. Arrives(packet, inbox')
  OBVIOUS
<1>6. PICK k \in 1..Len(inbox) :
        \/ packet = inbox /\ inbox' = <<>>
        \/ /\ packet = SubSeq(inbox, 1, k)
           /\ inbox' = SubSeq(inbox, k + 1, Len(inbox))
        \/ /\ packet = Append(SubSeq(inbox, 1, k - 1), Part1(inbox[k]))
           /\ inbox' = <<Part2(inbox[k])>> \o SubSeq(inbox, k + 1, Len(inbox))
  <2>1. 1 \in 1..Len(inbox)
    BY <1>1
  <2>. QED BY <1>5, <2>1, Zenon DEF Arrives
<1>7. CASE /\ packet = SubSeq(inbox, 1, k)
           /\ inbox' = SubSeq(inbox, k + 1, Len(inbox))
  BY <1>1, <1>3, <1>7
<1>8. CASE /\ packet = Append(SubSeq(inbox, 1, k - 1), Part1(inbox[k]))
           /\ inbox' = <<Part2(inbox[k])>> \o SubSeq(inbox, k + 1, Len(inbox))
  <2>1. /\ packet \in Seq(Reply) /\ Len(packet) = k
        /\ packet[k].part = "head"
        /\ inbox' \in Seq(Reply) /\ inbox' # <<>>
    BY <1>4, <1>8
  <2>2. k \in 1..Len(packet) /\ ~(packet[k].part = "whole")
    BY ONLY <2>1, k \in 1..Len(inbox), <1>1
  <2>. QED BY ONLY <2>1, <2>2, <1>1, k \in 1..Len(inbox)
<1>. QED BY <1>2, <1>6, <1>7, <1>8

LEMMA DisturbedType ==
  ASSUME TypeOK, NEW packet \in Packets, Receive(packet)
  PROVE  /\ disturbed' \in BOOLEAN /\ (disturbed => disturbed')
         /\ ~disturbed' => inbox' = <<>>
         /\ requests' = requests
BY Zenon DEF TypeOK, Receive

LEMMA ReplyTakenInv ==
  ASSUME NEW op \in Waiting \ {"truncated", "executed"}, IInv, ReplyTaken(op),
         pc' \in {"idle", "closed", "truncated", "executed"},
         transaction' \in BOOLEAN,
         stmt' \in {"none", "prepared", "open"}
  PROVE  IInv'
<1> USE DEF IInv
<1>1. PICK packet \in Packets, n \in 0..Len(inbox) :
        /\ Leading(packet, n) /\ Receive(packet)
        /\ n >= lazy_count + Len(own)
        /\ misread' = (misread \/ \E i \in 1..Len(own) :
                                    packet[lazy_count + i].request # own[i])
  BY DEF ReplyTaken
<1>2. /\ lazy_count' = 0 /\ own' = <<>> /\ failed' = failed
      /\ lazy_count \in Nat /\ Len(own) \in Nat /\ Len(inbox) \in Nat
      /\ failed \in BOOLEAN /\ requests \in Nat
  BY DEF ReplyTaken, TypeOK
<1>3. /\ disturbed' \in BOOLEAN /\ (disturbed => disturbed')
      /\ (~disturbed' => inbox' = <<>>) /\ requests' = requests
  BY <1>1, DisturbedType
<1>4. /\ packet \in Seq(Reply) /\ Len(packet) \in 1..Len(inbox)
      /\ inbox' \in Seq(Reply)
      /\ /\ Len(packet) = Len(inbox)
         /\ \A i \in 1..Len(packet) : packet[i].part = "whole"
         => packet = inbox /\ inbox' = <<>>
  BY <1>1, PacketFacts DEF Receive, TypeOK
<1>5. misread' \in BOOLEAN
  BY <1>1, Zenon DEF TypeOK
<1>6. ASSUME ~failed
      PROVE  packet = inbox /\ inbox' = <<>> /\ Len(inbox) = lazy_count + Len(own)
  <2>1. Len(inbox) = lazy_count + Len(own)
    BY <1>6 DEF Owed
  <2>2. n = Len(packet) /\ Len(packet) = Len(inbox)
    BY <2>1, <1>1, <1>2, <1>4 DEF Leading
  <2>3. \A i \in 1..Len(packet) : packet[i].part = "whole"
    BY <2>2, <1>1 DEF Leading, Parses
  <2>. QED BY <2>1, <2>2, <2>3, <1>4
<1>7. misread' => failed'
  <2> SUFFICES ASSUME ~failed PROVE ~misread'
    BY <1>2
  <2>1. ~misread
    BY DEF MisreadOnlyAfterFailure
  <2>2. \A i \in 1..Len(own) : packet[lazy_count + i].request = own[i]
    BY <1>6 DEF Owed
  <2>. QED BY <1>1, <2>1, <2>2, Zenon
<1>8. TypeOK'
  BY <1>2, <1>3, <1>4, <1>5 DEF TypeOK, Waiting
<1>9. Shape'
  BY <1>2 DEF Shape
<1>10. Owed'
  BY <1>2, <1>6 DEF Owed
<1>11. Undisturbed'
  BY <1>3 DEF Undisturbed
<1>. QED BY <1>2, <1>3, <1>7, <1>8, <1>9, <1>10, <1>11
         DEF FailsOnlyIfDisturbed, MisreadOnlyAfterFailure

(* An operation fails at its own reply, once nothing has disturbed it.     *)
LEMMA FailsAtRefusal ==
  ASSUME IInv, ~disturbed, pc # "fetch",
         NEW n \in 0..Len(inbox), Leading(inbox, n), n < lazy_count + Len(own)
  PROVE  \E j \in 1..Len(own) : n + 1 = lazy_count + j /\ Refusal(inbox, n + 1, j)
<1> USE DEF IInv
<1>1. /\ ~failed /\ lazy_count \in Nat /\ Len(own) \in Nat
      /\ inbox \in Seq(Reply) /\ Len(inbox) = lazy_count + Len(own)
  BY DEF FailsOnlyIfDisturbed, Owed, TypeOK
<1>2. n + 1 \in 1..Len(inbox)
  BY <1>1
<1>3. inbox[n + 1].part = "whole" /\ inbox[n + 1].kind = "Response"
  BY <1>1, <1>2 DEF Owed
<1>4. IsResponse(inbox, n + 1)
  BY <1>1, <1>2, <1>3 DEF IsResponse
<1>5. inbox[n + 1].err
  BY <1>3, <1>4 DEF Leading, Parses
<1>6. n + 1 > lazy_count
  BY <1>2, <1>5 DEF Undisturbed
<1>7. n + 1 - lazy_count \in 1..Len(own)
  BY <1>1, <1>2, <1>6
<1>8. inbox[n + 1].request = own[n + 1 - lazy_count]
  <2>1. lazy_count + (n + 1 - lazy_count) = n + 1
    BY <1>1
  <2>. QED BY <1>1, <1>7, <2>1 DEF Owed
<1>9. n + 1 = lazy_count + (n + 1 - lazy_count)
  BY <1>1
<1>. QED BY <1>3, <1>4, <1>7, <1>8, <1>9 DEF Refusal

LEMMA ReplyFailsInv == IInv /\ ReplyFails => IInv'
<1> SUFFICES ASSUME IInv, ReplyFails PROVE IInv'
  OBVIOUS
<1> USE DEF IInv
<1>1. PICK packet \in Packets, n \in 0..Len(inbox) :
        /\ Leading(packet, n) /\ Receive(packet)
        /\ n < lazy_count + Len(own)
        /\ lazy_count' = StillOwed(packet, n)
        /\ failed' = (failed \/ inbox' # <<>>
                        \/ ~\E j \in 1..Len(own) :
                             /\ n + 1 = lazy_count + j
                             /\ Refusal(packet, n + 1, j))
  BY DEF ReplyFails
<1>2. /\ pc # "fetch" /\ pc' \in {"idle", "closed"} /\ own' = <<>>
      /\ UNCHANGED <<transaction, stmt, misread>>
      /\ lazy_count \in Nat /\ Len(own) \in Nat /\ requests \in Nat
      /\ n \in Nat
  BY DEF ReplyFails, AfterFailure, TypeOK, handles
<1>3. /\ disturbed' \in BOOLEAN /\ (disturbed => disturbed')
      /\ (~disturbed' => inbox' = <<>>) /\ requests' = requests
  BY <1>1, DisturbedType
<1>4. inbox' \in Seq(Reply) /\ (inbox' = <<>> => packet = inbox)
  BY <1>1, PacketFacts DEF Receive, TypeOK
<1>5. failed' \in BOOLEAN /\ (failed => failed')
  BY <1>1, Zenon DEF TypeOK
<1>6. /\ lazy_count' \in Nat /\ (lazy_count = 0 => lazy_count' = 0)
      /\ (IsResponse(packet, n + 1) /\ n + 1 > lazy_count => lazy_count' = 0)
  BY <1>1, <1>2 DEF StillOwed, CountedOff
<1>7. ASSUME ~failed'
      PROVE  inbox' = <<>> /\ lazy_count' = 0
  <2>1. inbox' = <<>>
    BY <1>1, <1>7, Zenon
  <2>2. PICK j \in 1..Len(own) : n + 1 = lazy_count + j /\ Refusal(packet, n + 1, j)
    BY <1>1, <1>7, Zenon
  <2>3. IsResponse(packet, n + 1) /\ n + 1 > lazy_count
    BY <2>2, <1>2 DEF Refusal
  <2>. QED BY <2>1, <2>3, <1>6
<1>8. ASSUME ~disturbed' PROVE ~failed'
  <2>1. ~failed /\ ~disturbed /\ inbox' = <<>> /\ packet = inbox
    BY <1>3, <1>4, <1>8 DEF FailsOnlyIfDisturbed
  <2>2. Leading(inbox, n)
    BY <1>1, <2>1
  <2>3. \E j \in 1..Len(own) : n + 1 = lazy_count + j /\ Refusal(inbox, n + 1, j)
    BY <1>1, <1>2, <2>1, <2>2, FailsAtRefusal
  <2>. QED BY <1>1, <2>1, <2>3, Zenon
<1>9. TypeOK'
  BY <1>2, <1>3, <1>4, <1>5, <1>6 DEF TypeOK
<1>10. Shape'
  BY <1>2, <1>6 DEF Shape
<1>11. Owed'
  BY <1>2, <1>7 DEF Owed
<1>12. Undisturbed'
  BY <1>3 DEF Undisturbed
<1>. QED BY <1>2, <1>5, <1>8, <1>9, <1>10, <1>11, <1>12
         DEF FailsOnlyIfDisturbed, MisreadOnlyAfterFailure

(* A fetch awaits one reply, and is owed no other.                         *)
LEMMA FetchOwed ==
  ASSUME IInv, pc = "fetch"
  PROVE  /\ stmt = "open" /\ lazy_count = 0 /\ Len(own) = 1
         /\ ~failed => /\ Len(inbox) = 1 /\ inbox[1].part = "whole"
                       /\ inbox[1].request = own[1]
<1>1. stmt = "open" /\ lazy_count = 0 /\ Len(own) = 1
  BY DEF IInv, Shape
<1>2. ASSUME ~failed
      PROVE  /\ Len(inbox) = 1 /\ inbox[1].part = "whole"
             /\ inbox[1].request = own[1]
  <2>1. Len(inbox) = 1
    BY <1>1, <1>2 DEF IInv, Owed
  <2>2. inbox[lazy_count + 1].request = own[1]
    BY <1>1, <1>2 DEF IInv, Owed
  <2>. QED BY <1>1, <1>2, <2>1, <2>2 DEF IInv, Owed
<1>. QED BY <1>1, <1>2

LEMMA FetchTakenInv == IInv /\ FetchTaken => IInv'
<1> SUFFICES ASSUME IInv, FetchTaken PROVE IInv'
  OBVIOUS
<1> USE DEF IInv
<1>1. PICK packet \in Packets :
        /\ Receive(packet)
        /\ \/ packet[1].kind = "rows" /\ packet[1].part = "whole"
           \/ Parses(packet, 1)
        /\ misread' = (misread \/ packet[1].request # own[1])
  BY DEF FetchTaken
<1>2. /\ pc = "fetch" /\ pc' = "idle" /\ own' = <<>>
      /\ UNCHANGED <<lazy_count, transaction, stmt, failed>>
      /\ requests \in Nat /\ Len(inbox) \in Nat
  BY DEF FetchTaken, FetchEnds, TypeOK, handles
<1>3. /\ disturbed' \in BOOLEAN /\ (disturbed => disturbed')
      /\ (~disturbed' => inbox' = <<>>) /\ requests' = requests
  BY <1>1, DisturbedType
<1>4. /\ packet \in Seq(Reply) /\ Len(packet) \in 1..Len(inbox)
      /\ inbox' \in Seq(Reply)
      /\ /\ Len(packet) = Len(inbox)
         /\ \A i \in 1..Len(packet) : packet[i].part = "whole"
         => packet = inbox /\ inbox' = <<>>
  BY <1>1, PacketFacts DEF Receive, TypeOK
<1>5. misread' \in BOOLEAN
  BY <1>1, Zenon DEF TypeOK
<1>6. packet[1].part = "whole"
  BY <1>1 DEF Parses
<1>7. ASSUME ~failed
      PROVE  packet = inbox /\ inbox' = <<>> /\ inbox[1].request = own[1]
  <2>1. Len(inbox) = 1 /\ inbox[1].request = own[1]
    BY <1>2, <1>7, FetchOwed
  <2>2. Len(packet) = Len(inbox)
    BY <2>1, <1>4
  <2>. QED BY <1>4, <1>6, <2>1, <2>2
<1>8. misread' => failed'
  <2> SUFFICES ASSUME ~failed PROVE ~misread'
    BY <1>2
  <2>1. packet[1].request = own[1] /\ ~misread
    BY <1>7 DEF MisreadOnlyAfterFailure
  <2>. QED BY <1>1, <2>1, Zenon
<1>9. TypeOK'
  BY <1>2, <1>3, <1>4, <1>5 DEF TypeOK
<1>10. Shape'
  BY <1>2 DEF Shape
<1>11. Owed'
  BY <1>2, <1>7, FetchOwed DEF Owed
<1>12. Undisturbed'
  BY <1>3 DEF Undisturbed
<1>. QED BY <1>2, <1>3, <1>8, <1>9, <1>10, <1>11, <1>12
         DEF FailsOnlyIfDisturbed, MisreadOnlyAfterFailure

LEMMA FetchFailsInv == IInv /\ FetchFails => IInv'
<1> SUFFICES ASSUME IInv, FetchFails PROVE IInv'
  OBVIOUS
<1> USE DEF IInv
<1>1. PICK packet \in Packets :
        /\ Receive(packet)
        /\ packet[1].kind = "Response" \/ packet[1].part = "tail"
        /\ ~Parses(packet, 1)
        /\ failed' = (failed \/ inbox' # <<>> \/ ~Refusal(packet, 1, 1))
  BY DEF FetchFails
<1>2. /\ pc = "fetch" /\ pc' = "idle" /\ own' = <<>>
      /\ UNCHANGED <<lazy_count, transaction, stmt, misread>>
      /\ requests \in Nat /\ Len(inbox) \in Nat
  BY DEF FetchFails, FetchEnds, TypeOK, handles
<1>3. /\ disturbed' \in BOOLEAN /\ (disturbed => disturbed')
      /\ (~disturbed' => inbox' = <<>>) /\ requests' = requests
  BY <1>1, DisturbedType
<1>4. inbox' \in Seq(Reply) /\ (inbox' = <<>> => packet = inbox)
  BY <1>1, PacketFacts DEF Receive, TypeOK
<1>5. failed' \in BOOLEAN /\ (failed => failed') /\ (~failed' => inbox' = <<>>)
  BY <1>1, Zenon DEF TypeOK
<1>6. ASSUME ~disturbed' PROVE ~failed'
  <2>1. ~failed /\ inbox' = <<>> /\ packet = inbox
    BY <1>3, <1>4, <1>6 DEF FailsOnlyIfDisturbed
  <2>2. /\ Len(inbox) = 1 /\ inbox[1].part = "whole"
        /\ inbox[1].request = own[1]
    BY <1>2, <2>1, FetchOwed
  <2>3. Refusal(packet, 1, 1)
    BY <1>1, <2>1, <2>2 DEF Refusal, IsResponse
  <2>. QED BY <1>1, <2>1, <2>3, Zenon
<1>7. TypeOK'
  BY <1>2, <1>3, <1>4, <1>5 DEF TypeOK
<1>8. Shape'
  BY <1>2 DEF Shape
<1>9. Owed'
  BY <1>2, <1>5, FetchOwed DEF Owed
<1>10. Undisturbed'
  BY <1>3 DEF Undisturbed
<1>. QED BY <1>2, <1>5, <1>6, <1>7, <1>8, <1>9, <1>10
         DEF FailsOnlyIfDisturbed, MisreadOnlyAfterFailure

LEMMA TimeoutInv == IInv /\ Timeout => IInv'
<1> SUFFICES ASSUME IInv, Timeout PROVE IInv'
  OBVIOUS
<1> USE DEF IInv, Timeout, AfterFailure, socket, handles
<1>1. TypeOK'
  BY DEF TypeOK
<1>2. Shape'
  BY DEF Shape
<1>. QED BY <1>1, <1>2 DEF Owed, Undisturbed, FailsOnlyIfDisturbed,
            MisreadOnlyAfterFailure

-----------------------------------------------------------------------------
(* Every step, and the theorems.                                           *)

LEMMA CallInv == IInv /\ Call => IInv'
<1> SUFFICES ASSUME IInv, Call PROVE IInv'
  OBVIOUS
<1>1. CASE Begin
  BY <1>1, SendInv DEF Begin, Kind
<1>2. CASE End
  BY <1>2, SendInv DEF End, Kind
<1>3. CASE Execute
  BY <1>3, SendInv DEF Execute, Kind
<1>4. CASE Fetch
  BY <1>4, SendInv DEF Fetch, Kind
<1>5. CASE Detach
  BY <1>5, SendInv DEF Detach, Kind
<1>. QED BY <1>1, <1>2, <1>3, <1>4, <1>5, PrepareInv, FreeStatementInv DEF Call

(* A description that was cut off, and the rows an execute affected, are   *)
(* asked for once the reply before has been read.                          *)
LEMMA FollowUpInv == IInv /\ (Describe \/ AskInfo) => IInv'
<1> SUFFICES ASSUME IInv, Describe \/ AskInfo PROVE IInv'
  OBVIOUS
<1>1. own = <<>>
  BY DEF IInv, Shape, Describe, AskInfo
<1>2. CASE Describe
  BY <1>1, <1>2, WriteInv DEF Describe, Kind
<1>3. CASE AskInfo
  BY <1>1, <1>3, WriteInv DEF AskInfo, Kind
<1>. QED BY <1>2, <1>3

LEMMA GoInv == IInv /\ Go => IInv'
<1> SUFFICES ASSUME IInv, Go PROVE IInv'
  OBVIOUS
<1>0. transaction \in BOOLEAN /\ stmt \in {"none", "prepared", "open"}
  BY DEF IInv, TypeOK
<1>1. CASE Begun
  BY <1>0, <1>1, ReplyTakenInv DEF Begun, Waiting
<1>2. CASE Ended
  BY <1>0, <1>2, ReplyTakenInv DEF Ended, Waiting
<1>3. CASE Prepared
  <2>1. /\ pc' \in {"idle", "closed", "truncated", "executed"} /\ transaction' \in BOOLEAN
        /\ stmt' \in {"none", "prepared", "open"}
    BY <1>0, <1>3, Zenon DEF Prepared
  <2>. QED BY <1>3, <2>1, ReplyTakenInv DEF Prepared, Waiting
<1>4. CASE Executed
  BY <1>0, <1>4, ReplyTakenInv DEF Executed, Waiting, handles
<1>5. CASE InfoTaken
  BY <1>0, <1>5, ReplyTakenInv DEF InfoTaken, Waiting
<1>6. CASE Detached
  BY <1>0, <1>6, ReplyTakenInv DEF Detached, Waiting, handles
<1>. QED BY <1>1, <1>2, <1>3, <1>4, <1>5, <1>6, FollowUpInv, ReplyFailsInv,
         FetchTakenInv, FetchFailsInv DEF Go

LEMMA NextInv == IInv /\ [Next]_vars => IInv'
<1> SUFFICES ASSUME IInv, [Next]_vars PROVE IInv'
  OBVIOUS
<1>1. CASE UNCHANGED vars
  BY <1>1 DEF vars, socket, handles, history, IInv, TypeOK, Shape, Owed,
       Undisturbed, FailsOnlyIfDisturbed, MisreadOnlyAfterFailure
<1>. QED BY <1>1, CallInv, GoInv, TimeoutInv DEF Next

(* The invariant that the others follow from.                              *)
THEOREM Invariance == Spec => []IInv
BY InitInv, NextInv, PTL DEF Spec

(* The type invariant: lazy_count never goes below zero.                   *)
THEOREM TypeCorrect == Spec => []TypeOK
<1>1. IInv => TypeOK
  BY DEF IInv
<1>. QED BY <1>1, Invariance, PTL

(* While no operation has failed, what is unread is what lazy_count and    *)
(* the waiting operation say it is.                                        *)
THEOREM OwedReplies == Spec => []Owed
<1>1. IInv => Owed
  BY DEF IInv
<1>. QED BY <1>1, Invariance, PTL

(* Replies that come in time, whole, and grant every free make no          *)
(* operation fail that the server did not refuse (but for a prepare of     *)
(* columns that the client does not support, which has read its replies).  *)
THEOREM FailsForCause == Spec => []FailsOnlyIfDisturbed
<1>1. IInv => FailsOnlyIfDisturbed
  BY DEF IInv
<1>. QED BY <1>1, Invariance, PTL

(* No operation takes another's reply before one of them has failed.       *)
THEOREM NoSilentMisread == Spec => []MisreadOnlyAfterFailure
<1>1. IInv => MisreadOnlyAfterFailure
  BY DEF IInv
<1>. QED BY <1>1, Invariance, PTL

(* No free's reply is owed while a fetch reads: fetch_batch may take the   *)
(* first record for its own.                                               *)
THEOREM FetchReadsFirst == Spec => []FetchOwedNothing
<1>1. IInv => FetchOwedNothing
  BY FetchOwed DEF FetchOwedNothing
<1>. QED BY <1>1, Invariance, PTL
===============================================================================
