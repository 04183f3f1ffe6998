------------------------------- MODULE Handshake -------------------------------
(***************************************************************************)
(* How a connection is made: connect_with_timeout tries the addresses, the *)
(* client sends op_connect and goes through the server's offers of         *)
(* authentication plugins until one of them comes with data (a salt), it   *)
(* proves the password, switches the stream to Arc4Stream, attaches the    *)
(* database, and then makes requests.                                      *)
(*                                                                         *)
(* A message is written and read in Length parts.  Each part holds the     *)
(* position in the key stream with which it was enciphered, 0 for none, so *)
(* what the receiver deciphers is right iff its own position is the same.  *)
(* Both directions have a key stream and each end keeps a position in it.  *)
(* That replies come late or in pieces matters here only for the positions *)
(* and because connect reads only once; how requests pair with replies     *)
(* after the attach is the subject of WireConnection.                      *)
(***************************************************************************)
EXTENDS Integers, Sequences

CONSTANTS
    Length,         \* parts of a message
    EncBuffer,      \* parts that fit enc_buf, what one write enciphers at most
    HostLists,      \* what a name may resolve to: sequences of "up" and "down"
    ServerPlugins,  \* the plugins the server asks for, known or not
    FaultSets,      \* sets of "split", "short" and "timeout"
    MaxRequests     \* bound: requests after the attach

ASSUME HandshakeAssumption ==
    /\ Length \in Nat \ {0} /\ EncBuffer \in Nat \ {0}
    /\ HostLists \subseteq Seq({"up", "down"})
    /\ FaultSets \subseteq SUBSET {"split", "short", "timeout"}
    /\ MaxRequests \in Nat

VARIABLES
    hosts, faults,          \* chosen at the start
    tried,                  \* addresses tried
    pc,                     \* the reply awaited, or what is being done
    packet,                 \* parts of a request that write_all has yet to write
    keyed, wpos, rpos,      \* the client's stream is an Arc4Stream; positions
    up, down,               \* written and not yet read, to and from the server
    srvKeyed, srvIn, srvOut,    \* the server's end of the same
    offer,                  \* the plugin of the server's last offer
    asked,                  \* the plugins it has asked for
    closed,                 \* it has closed the connection
    requests,
    cut, excused            \* history: a write of an Arc4Stream was cut short;
                            \* somebody else gave a cause for a failure

setting == <<hosts, faults>>
client  == <<tried, pc, packet, requests>>
cipher  == <<keyed, wpos, rpos>>
server  == <<srvKeyed, srvIn, srvOut, offer, asked, closed>>
history == <<cut, excused>>
vars    == <<setting, client, cipher, up, down, server, history>>

Known == {"Srp", "Srp256"}      \* AuthPluginType::parse
None  == "none"

(* A request or reply; data is the salt that comes with an offer, and the  *)
(* proof in a continuation of the client, without which it is the public   *)
(* key.                                                                    *)
Message(op, plugin, data) == [op |-> op, plugin |-> plugin, data |-> data]
Plain(op) == Message(op, None, FALSE)

(* The parts of a message as they go over the wire, with positions from    *)
(* pos on.                                                                 *)
Enciphered(message, n, isKeyed, pos) ==
    [i \in 1..n |-> [msg |-> message, key |-> IF isKeyed THEN pos + i ELSE 0]]

Understood(parts, isKeyed, pos) ==
    \A i \in DOMAIN parts : parts[i].key = IF isKeyed THEN pos + i ELSE 0

Init ==
    /\ hosts \in HostLists /\ faults \in FaultSets
    /\ tried = 0 /\ pc = "resolve" /\ packet = <<>> /\ requests = 0
    /\ keyed = FALSE /\ wpos = 0 /\ rpos = 0
    /\ up = <<>> /\ down = <<>>
    /\ srvKeyed = FALSE /\ srvIn = 0 /\ srvOut = 0
    /\ offer = None /\ asked = {} /\ closed = FALSE
    /\ cut = FALSE /\ excused = FALSE

-----------------------------------------------------------------------------
(* The client.                                                             *)
Send(message, awaited) ==
    /\ packet' = [i \in 1..Length |-> message]
    /\ pc' = awaited

Fails == pc' = "failed" /\ packet' = <<>>

(* Wrong variant: the list is taken for longer than it is.                 *)
TryAddressBehind ==
    /\ pc = "resolve" /\ tried <= Len(hosts)
    /\ tried' = tried + 1
    /\ \/ tried' > Len(hosts) /\ UNCHANGED <<pc, packet>>
       \/ tried' <= Len(hosts) /\ hosts[tried'] = "down" /\ UNCHANGED <<pc, packet>>
       \/ tried' <= Len(hosts) /\ hosts[tried'] = "up" /\ Send(Plain("Connect"), "accept")
    /\ UNCHANGED <<setting, requests, cipher, up, down, server, history>>

(* connect_with_timeout: the addresses in turn, until one answers.         *)
TryAddress ==
    /\ pc = "resolve" /\ tried < Len(hosts)
    /\ tried' = tried + 1
    /\ \/ hosts[tried'] = "down" /\ UNCHANGED <<pc, packet>>
       \/ hosts[tried'] = "up" /\ Send(Plain("Connect"), "accept")
    /\ UNCHANGED <<setting, requests, cipher, up, down, server, history>>

NoAddress ==
    /\ pc = "resolve" /\ tried = Len(hosts)
    /\ Fails
    /\ UNCHANGED <<setting, tried, requests, cipher, up, down, server, history>>

(* One write of write_all.  Arc4Stream enciphers as much as enc_buf holds, *)
(* which moves its position, and then the socket may take less of it.      *)
Write ==
    /\ packet # <<>>
    /\ LET m == IF keyed /\ EncBuffer < Len(packet) THEN EncBuffer ELSE Len(packet)
       IN  \E n \in 1..m :
             /\ n < m => "short" \in faults
             /\ up' = up \o Enciphered(Head(packet), n, keyed, wpos)
             /\ packet' = SubSeq(packet, n + 1, Len(packet))
             /\ wpos' = IF keyed THEN wpos + m ELSE wpos
             /\ cut' = (cut \/ (keyed /\ n < m))
    /\ UNCHANGED <<setting, tried, pc, requests, keyed, rpos, down, server, excused>>

(* srp_auth makes an Arc4Stream of the socket when op_crypt is written,    *)
(* before it reads the reply.                                              *)
StartCipher ==
    /\ pc = "crypt" /\ packet = <<>> /\ ~keyed
    /\ keyed' = TRUE
    /\ UNCHANGED <<setting, client, wpos, rpos, up, down, server, history>>

Awaiting ==
    /\ pc \in {"accept", "cont", "proof", "crypt", "attach", "request"}
    /\ packet = <<>>
    /\ pc = "crypt" => keyed

(* Wrong variant: the whole buffer is deciphered, not what was read to it. *)
ReadDeciphersAll(k) ==
    /\ Awaiting
    /\ k \in 1..Len(down)
    /\ k < Len(down) => "split" \in faults
    /\ down' = SubSeq(down, k + 1, Len(down))
    /\ rpos' = IF keyed THEN rpos + Len(down) ELSE rpos

(* A read takes the parts that are there, or the first of them.            *)
Read(k) ==
    /\ Awaiting
    /\ k \in 1..Len(down)
    /\ k < Len(down) => "split" \in faults
    /\ down' = SubSeq(down, k + 1, Len(down))
    /\ rpos' = IF keyed THEN rpos + k ELSE rpos

(* What parse_accept, parse_cont_auth and read_response can use at pc.  The *)
(* plugin of an op_accept_data is parsed before its flag that says that the *)
(* client is authenticated ("Authenticated" here).                          *)
Usable(reply) ==
    CASE pc = "accept" -> \/ reply.op = "Accept"
                          \/ /\ reply.op \in {"AcceptData", "Authenticated"}
                             /\ reply.plugin \in Known
      [] pc = "cont"   -> reply.op = "ContAuth" /\ reply.plugin \in Known
      [] OTHER         -> reply.op = "Response"

Whole(k) == k = Length /\ Understood(SubSeq(down, 1, k), keyed, rpos)

Takes(reply) ==
    /\ pc # "request"
    /\ Read(Length) /\ Whole(Length)
    /\ reply = down[1].msg /\ Usable(reply)
    /\ UNCHANGED <<setting, tried, requests, keyed, wpos, up, server, history>>

(* Wrong variants: the plugin of op_connect is kept; a request without     *)
(* data is not answered.                                                   *)
AnswerOfferSrp(reply) ==
    /\ Takes(reply) /\ reply.op \in {"AcceptData", "ContAuth"}
    /\ Send(Message("ContAuth", "Srp", reply.data),
            IF reply.data THEN "proof" ELSE "cont")

AnswerOfferSilent(reply) ==
    /\ Takes(reply) /\ reply.op \in {"AcceptData", "ContAuth"}
    /\ IF ~reply.data THEN pc' = "cont" /\ packet' = <<>>
       ELSE Send(Message("ContAuth", reply.plugin, TRUE), "proof")

(* The loop over the server's offers: with data the password is proved to  *)
(* it, without it the client sends its public key for the plugin asked for.*)
AnswerOffer(reply) ==
    /\ Takes(reply) /\ reply.op \in {"AcceptData", "ContAuth"}
    /\ Send(Message("ContAuth", reply.plugin, reply.data),
            IF reply.data THEN "proof" ELSE "cont")

(* srp_auth: the proof was accepted, the stream is to be enciphered.       *)
RequestCrypt(reply) == pc = "proof" /\ Takes(reply) /\ Send(Plain("Crypt"), "crypt")

(* attach_database, at once where no authentication is asked for.          *)
Attach(reply) ==
    /\ Takes(reply)
    /\ pc = "crypt" \/ reply.op \in {"Accept", "Authenticated"}
    /\ Send(Plain("Attach"), "attach")

Attached(reply) == pc = "attach" /\ Takes(reply) /\ pc' = "attached" /\ UNCHANGED packet

Request ==
    /\ pc = "attached" /\ requests < MaxRequests
    /\ requests' = requests + 1
    /\ Send(Plain("Request"), "request")
    /\ UNCHANGED <<setting, tried, cipher, up, down, server, history>>

(* What an operation makes of its packet is left to WireConnection.        *)
Answered ==
    /\ pc = "request"
    /\ \E k \in 1..Len(down) : Read(k)
    /\ pc' = "attached"
    /\ UNCHANGED <<setting, tried, packet, requests, keyed, wpos, up, server, history>>

(* The reply is an error, another than expected, incomplete or garbled.    *)
Rejected ==
    /\ pc # "request"
    /\ \E k \in 1..Len(down) :
         /\ Read(k)
         /\ ~(Whole(k) /\ Usable(down[1].msg))
         /\ excused' = (excused \/ k < Len(down))
    /\ Fails
    /\ UNCHANGED <<setting, tried, requests, keyed, wpos, up, server, cut>>

(* read returns nothing when the server has closed the connection.         *)
ReadClosed ==
    /\ Awaiting /\ closed /\ down = <<>>
    /\ Fails
    /\ UNCHANGED <<setting, tried, requests, cipher, up, down, server, history>>

(* The socket's timeout expires.  A connection on which a request could    *)
(* not be written is not used again here; after a late reply it is.        *)
Timeout ==
    /\ "timeout" \in faults
    /\ Awaiting \/ packet # <<>>
    /\ \/ pc = "request" /\ packet = <<>> /\ pc' = "attached" /\ UNCHANGED <<packet, excused>>
       \/ ~(pc = "request" /\ packet = <<>>) /\ Fails /\ excused' = TRUE
    /\ UNCHANGED <<setting, tried, requests, cipher, up, down, server, cut>>

-----------------------------------------------------------------------------
(* The server, as the client sees it.  It asks for a plugin once, checks a *)
(* proof against its last offer, and may always refuse (a wrong password,  *)
(* no such database), which is a cause.                                    *)
Reply(message, isKeyed) ==
    /\ down' = down \o Enciphered(message, Length, isKeyed, srvOut)
    /\ srvOut' = IF isKeyed THEN srvOut + Length ELSE srvOut
    /\ srvKeyed' = isKeyed
    /\ UNCHANGED closed

Answer(op) == Reply(Plain(op), srvKeyed) /\ UNCHANGED <<offer, asked>>

Offer(op, plugin, data) ==
    /\ Reply(Message(op, plugin, data), srvKeyed)
    /\ offer' = plugin /\ asked' = asked \cup {plugin}

(* A plugin asked for first comes with data only if it is the one whose    *)
(* public key was in op_connect.  A server that takes the client for       *)
(* authenticated names a plugin all the same.                              *)
OnConnect ==
    \/ Answer("Accept") /\ UNCHANGED excused
    \/ \E op \in {"AcceptData", "Authenticated"}, p \in ServerPlugins, data \in BOOLEAN :
         /\ data => op = "AcceptData" /\ p = "Srp"
         /\ Offer(op, p, data)
         /\ excused' = (excused \/ p \notin Known)

AskAnother == \E p \in ServerPlugins \ asked :
    /\ Offer("ContAuth", p, FALSE)
    /\ excused' = (excused \/ p \notin Known)

OnContAuth(plugin, proof) ==
    \/ plugin # offer /\ Answer("Error") /\ UNCHANGED excused
    \/ plugin = offer /\ ~proof /\ Offer("ContAuth", plugin, TRUE) /\ UNCHANGED excused
    \/ plugin = offer /\ ~proof /\ AskAnother
    \/ plugin = offer /\ proof /\ Answer("Response") /\ UNCHANGED excused

(* Both directions are enciphered from the reply to op_crypt on.           *)
OnCrypt == Reply(Plain("Response"), TRUE) /\ UNCHANGED <<offer, asked, excused>>

OnOther == Answer("Response") /\ UNCHANGED excused

Refuse(op) == op # "Request" /\ Answer("Error") /\ excused' = TRUE

Serve ==
    /\ ~closed /\ Len(up) >= Length
    /\ up' = SubSeq(up, Length + 1, Len(up))
    /\ LET request == up[1].msg
       IN  IF ~Understood(SubSeq(up, 1, Length), srvKeyed, srvIn)
           THEN closed' = TRUE /\ UNCHANGED <<down, srvKeyed, srvIn, srvOut, offer, asked, excused>>
           ELSE /\ srvIn' = IF srvKeyed THEN srvIn + Length ELSE srvIn
                /\ \/ request.op = "Connect" /\ OnConnect
                   \/ request.op = "ContAuth" /\ OnContAuth(request.plugin, request.data)
                   \/ request.op = "Crypt" /\ OnCrypt
                   \/ request.op \in {"Attach", "Request"} /\ OnOther
                   \/ Refuse(request.op)
    /\ UNCHANGED <<setting, client, cipher, cut>>

-----------------------------------------------------------------------------
Client ==
    \/ TryAddress \/ NoAddress \/ Write \/ StartCipher
    \/ \E reply \in {down[i].msg : i \in DOMAIN down} :
         AnswerOffer(reply) \/ RequestCrypt(reply) \/ Attach(reply) \/ Attached(reply)
    \/ Answered \/ Rejected \/ ReadClosed

Next == Client \/ Request \/ Timeout \/ Serve

Spec == Init /\ [][Next]_vars

(* connect and an operation are synchronous; the server answers.           *)
FairSpec == Spec /\ WF_vars(Client) /\ WF_vars(Serve)

-----------------------------------------------------------------------------
States == {"resolve", "accept", "cont", "proof", "crypt", "attach", "attached",
           "request", "failed"}
Ops    == {"Connect", "ContAuth", "Crypt", "Attach", "Request",
           "Accept", "Authenticated", "AcceptData", "Response", "Error"}
Msg    == [op : Ops, plugin : ServerPlugins \cup {None}, data : BOOLEAN]
Part   == [msg : Msg, key : Nat]

(* Types; no address is tried twice, and the stream is enciphered exactly  *)
(* from the request for it on.                                             *)
TypeOK ==
    /\ pc \in States
    /\ hosts \in HostLists /\ faults \in FaultSets
    /\ tried \in 0..Len(hosts)
    /\ packet \in Seq(Msg) /\ Len(packet) <= Length
    /\ up \in Seq(Part) /\ down \in Seq(Part)
    /\ offer \in ServerPlugins \cup {None}
    /\ keyed \in BOOLEAN /\ srvKeyed \in BOOLEAN /\ closed \in BOOLEAN
    /\ cut \in BOOLEAN /\ excused \in BOOLEAN
    /\ keyed => pc \notin {"resolve", "accept", "cont", "proof"}
    /\ requests \in 0..MaxRequests
    /\ wpos \in Nat /\ rpos \in Nat /\ srvIn \in Nat /\ srvOut \in Nat

(* Both ends are in step: every part on its way was enciphered with the    *)
(* position at which its receiver will read it, however replies are cut,   *)
(* until the connection fails or a write is cut short ("Wraps a stream,    *)
(* encoding / decoding the data", arc4.rs:48).  The server refuses         *)
(* op_crypt in the clear, which the client deciphers.                      *)
InStep ==
    ~cut /\ pc # "failed" =>
        /\ Understood(up, srvKeyed, srvIn)
        /\ \/ Understood(down, keyed \/ pc = "crypt", rpos)
           \/ pc = "crypt" /\ \E i \in DOMAIN down : down[i].msg.op = "Error"

(* Connecting, and an operation that finds the connection closed, fail for *)
(* a cause: no address answers, the server refuses or asks for a plugin    *)
(* that the client does not have, a reply comes in pieces or not in time,  *)
(* or a write of an enciphered stream was cut short.                       *)
FailsForCause ==
    pc = "failed" =>
        \/ excused \/ cut
        \/ \A i \in DOMAIN hosts : hosts[i] = "down"

(* Connecting, and every operation, ends: the server's offers run out.     *)
ConnectEnds ==
    pc \notin {"attached", "failed"} ~> pc \in {"attached", "failed"}
-----------------------------------------------------------------------------
(* The inductive invariant of InStep.  Until the attach one request and    *)
(* its reply alternate, so that op_crypt is read by the server with        *)
(* nothing behind it; from then on the ends of each direction differ by    *)
(* what is on its way.                                                     *)
Sound == ~cut /\ pc # "failed"

Connecting == {"accept", "cont", "proof", "crypt", "attach"}

OpAt == [s \in States |->
    CASE s = "accept"             -> "Connect"
      [] s \in {"cont", "proof"}  -> "ContAuth"
      [] s = "crypt"              -> "Crypt"
      [] s = "attach"             -> "Attach"
      [] OTHER                    -> "Request"]

Alternates ==
    /\ pc = "resolve" => up = <<>> /\ down = <<>> /\ packet = <<>>
    /\ pc \in Connecting =>
          \/ Len(up) + Len(packet) = Length /\ down = <<>>
          \/ up = <<>> /\ packet = <<>> /\ Len(down) = Length
    /\ \A i \in DOMAIN up : up[i].msg.op = OpAt[pc]
    /\ \A i \in DOMAIN packet : packet[i].op = OpAt[pc]

Positions ==
    /\ Understood(up, srvKeyed, srvIn)
    /\ srvKeyed => /\ wpos = srvIn + Len(up)
                   /\ srvOut = rpos + Len(down)
                   /\ Understood(down, TRUE, rpos)
                   /\ keyed \/ (pc = "crypt" /\ packet = <<>>)
    /\ ~srvKeyed => /\ wpos = 0 /\ rpos = 0 /\ srvIn = 0 /\ srvOut = 0
                    /\ Understood(down, FALSE, 0)
                    /\ ~keyed \/ (pc = "crypt" /\ packet = <<>>)
    /\ ~srvKeyed /\ pc = "crypt" =>
          \A i \in DOMAIN down : down[i].msg.op = "Error"

IInv == TypeOK /\ (Sound => Alternates /\ Positions)

(* That of FailsForCause.  Until somebody gives a cause, what the client   *)
(* says is about the server's last offer, and it can use what it gets.     *)
Agreed ==
    /\ pc \in {"cont", "proof"} =>
          /\ offer \in Known
          /\ \A i \in DOMAIN up : /\ up[i].msg.plugin = offer
                                 /\ up[i].msg.data = (pc = "proof")
          /\ \A i \in DOMAIN packet : /\ packet[i].plugin = offer
                                     /\ packet[i].data = (pc = "proof")
    /\ pc \in Connecting =>
          \A i \in DOMAIN down :
             /\ Usable(down[i].msg)
             /\ down[i].msg.op \in {"AcceptData", "ContAuth"} =>
                   down[i].msg.plugin = offer

CauseInv ==
    /\ pc = "resolve" => \A i \in 1..tried : hosts[i] = "down"
    /\ Sound => ~closed /\ (excused \/ Agreed)
    /\ FailsForCause
================================================================================
