-------------------------------- MODULE Exchange --------------------------------
(***************************************************************************)
(* Clients and a server that use fiki over HTTP: sign_request, then        *)
(* verify_request and sign_response, then verify_response, each a call of  *)
(* py/src/fiki/messages.py.  Between them is a network that may lose,      *)
(* repeat, change or misdeliver a message, two clocks, and a key that the  *)
(* clients rotate before the server's resolver has heard of it.            *)
(*                                                                         *)
(* fiki keeps no state between calls.  What is kept here is the callers':  *)
(* the request a client is waiting on, and the key behind its AID.         *)
(***************************************************************************)
EXTENDS Transport

CONSTANTS
    Callers,       \* the calls being made, all by holders of the AID Client
    Asked,         \* the request each of them describes to sign_request
    Application,   \* the server's answer to each body
    Client,        \* the transferable AID that signs the requests
    ClientKeys,    \* the key it begins with, and the keys it may rotate to, in order
    ServerKey,
    ServerPolicy,  \* how the server calls verify_request
    ClientPolicy,  \* how a client calls verify_response
    Changes(_),    \* what a message may become on its way
    Ahead,         \* how far the server's clock is ahead of the clients'
    InFlight,      \* bound on the messages on their way for one caller when it sends another
    MaxFaults,     \* bound on what the network does wrong
    MaxClock       \* bound on the clients' clock

NoHeaders ==
    [signature |-> {}, input |-> {}, digest |-> {}, host |-> {}, field |-> {},
     length |-> {}, te |-> FALSE, twice |-> FALSE]

\* A request described by an absolute URL, of the one authority all callers ask,
\* and content.
Described(r) ==
    /\ r = [response |-> FALSE, method |-> r.method, status |-> 0, headers |-> NoHeaders,
            url |-> [form |-> "absolute", authority |-> r.url.authority,
                     path |-> r.url.path, query |-> r.url.query],
            body |-> r.body, request |-> {}]
    /\ \E b \in r.body : r.body = {b} /\ b # EmptyBody

Signers == {ClientKeys[k] : k \in DOMAIN ClientKeys}

\* A server that asks a resolver for the clients' key and does not sign with it, and
\* clients that know the server's; neither calls fiki with less than a window.
ASSUME ExchangeAssumption ==
    /\ \A c \in Callers : Described(Asked[c])
    /\ \A c, d \in Callers : Asked[c].url.authority = Asked[d].url.authority
    /\ ClientKeys \in Seq(Keys) /\ ClientKeys # <<>> /\ ServerKey \notin Signers
    /\ ServerPolicy.expectedAid = {} /\ ServerPolicy.resolving
    /\ ClientPolicy.expectedAid = {} /\ ~ClientPolicy.resolving
    /\ ClientPolicy.expectedKeyid = {RawKeyid(ServerKey)}
    /\ ClientPolicy.maxAge \subseteq Int /\ ClientPolicy.skew \in Int
    /\ Ahead \in Int /\ MaxClock \in Nat /\ MaxFaults \in Nat

VARIABLES
    waiting,   \* the request a caller last sent, if it has sent one
    answer,    \* the answer it accepted, if it has, and when
    network,   \* the messages on their way: records [via, msg], with the caller whose
               \* connection each travels on
    faults,    \* how many times the network has gone wrong
    key,       \* which of ClientKeys the clients sign with
    resolved,  \* which of them the server's resolver knows
    served,    \* what the server has accepted and done, when, and under which key
    clock

vars == <<waiting, answer, network, faults, key, resolved, served, clock>>

ServerClock == clock + Ahead

What(m) == [method |-> m.method, path |-> m.url.path, query |-> m.url.query,
            authority |-> Authority(m), body |-> m.body]

Answer(what) == [status |-> 200, body |-> {Application[b] : b \in what.body}]

Draft(m, signer, keyid) ==
    [m |-> m, key |-> signer, covered |-> {},
     minimum |-> {IF m.response THEN ResponseMinimum ELSE DefaultMinimum},
     keyid |-> {keyid}, created |-> {}, expires |-> {}, badLabel |-> FALSE, badText |-> FALSE]

Response(status, body, request) ==
    [response |-> TRUE, method |-> "none", url |-> [form |-> "none"], status |-> status,
     headers |-> NoHeaders, body |-> body, request |-> request]

Init ==
    /\ waiting = [c \in Callers |-> {}]
    /\ answer = [c \in Callers |-> {}]
    /\ network = {} /\ faults = 0
    /\ key = 1 /\ resolved = 1
    /\ served = {} /\ clock = 0

\* A caller signs its request and sends it, and while it has no answer signs it
\* again and sends that: a refusal it is told of and one it is not look alike.
Send(c) ==
    LET draft == Draft(Asked[c], ClientKeys[key], Aid(Client))
        m == SignedMessage(draft, clock)
    IN  /\ answer[c] = {}
        /\ Cardinality({e \in network : e.via = c}) < InFlight
        /\ SignRefusal(draft) = None
        /\ waiting' = [waiting EXCEPT ![c] = {m}]
        /\ network' = network \cup {[via |-> c, msg |-> OriginForm(m)]}
        /\ UNCHANGED <<answer, faults, key, resolved, served, clock>>

\* The server verifies, does what it is asked, and signs the answer; or refuses
\* with an unsigned 401, since it cannot sign for a client it does not know.
Handle(e, rest) ==
    LET m == e.msg
        reply == SignedMessage(Draft(Response(Answer(What(m)).status, Answer(What(m)).body, {m}),
                                     ServerKey, RawKeyid(ServerKey)), ServerClock)
    IN  IF Refusal(m, ServerPolicy, {ClientKeys[resolved]}, ServerClock) = None
        THEN /\ served' = served \cup {[what |-> What(m), at |-> ServerClock,
                                        by |-> Signature(m).by, resolver |-> ClientKeys[resolved]]}
             /\ network' = rest \cup {[via |-> e.via, msg |-> [reply EXCEPT !.request = {}]]}
        ELSE /\ network' = rest \cup {[via |-> e.via, msg |-> Response(401, {}, {})]}
             /\ UNCHANGED served

Receive(e) ==
    /\ ~e.msg.response
    /\ Handle(e, network \ {e})
    /\ UNCHANGED <<waiting, answer, faults, key, resolved, clock>>

\* A caller still waiting verifies the response against the request it sent last.
Taken(c, m) ==
    /\ waiting[c] # {} /\ answer[c] = {}
    /\ Refusal([m EXCEPT !.request = waiting[c]], ClientPolicy, {}, clock) = None

Deliver(e) ==
    /\ e.msg.response
    /\ answer' = IF Taken(e.via, e.msg)
                 THEN [answer EXCEPT ![e.via] =
                         {[status |-> e.msg.status, body |-> e.msg.body, at |-> clock]}]
                 ELSE answer
    /\ network' = network \ {e}
    /\ UNCHANGED <<waiting, faults, key, resolved, served, clock>>

\* What a network may do wrong, so many times.
Fault ==
    /\ faults < MaxFaults
    /\ faults' = faults + 1
    /\ UNCHANGED <<waiting, answer, key, resolved, clock>>

Lose(e) == Fault /\ network' = network \ {e} /\ UNCHANGED served

\* A request arrives, and will again.
Repeat(e) == Fault /\ ~e.msg.response /\ Handle(e, network)

\* The signature a message carries, if any.
Carried(m) == IF Missing(m.headers.signature) THEN {} ELSE {Signature(m)}

\* Whatever becomes of a message, nobody on the way makes a signature of another's key.
Change(e) ==
    /\ Fault
    /\ \E m \in Changes(e.msg) :
         /\ DOMAIN m = DOMAIN e.msg
         /\ \A s \in Carried(m) :
              s.by \in Signers \cup {ServerKey} => \E f \in network : s \in Carried(f.msg)
         /\ network' = (network \ {e}) \cup {[e EXCEPT !.msg = m]}
    /\ UNCHANGED served

\* A message changes places with whatever travels on another connection.
Misdeliver(e) ==
    /\ Fault
    /\ \E c \in Callers : network' = (network \ {e}) \cup {[e EXCEPT !.via = c]}
    /\ UNCHANGED served

Tick ==
    /\ clock < MaxClock
    /\ clock' = clock + 1
    /\ UNCHANGED <<waiting, answer, network, faults, key, resolved, served>>

Rotate ==
    /\ key < Len(ClientKeys)
    /\ key' = key + 1
    /\ UNCHANGED <<waiting, answer, network, faults, resolved, served, clock>>

Learn ==
    /\ resolved < key
    /\ resolved' = resolved + 1
    /\ UNCHANGED <<waiting, answer, network, faults, key, served, clock>>

Next ==
    \/ \E c \in Callers : Send(c)
    \/ \E e \in network : \/ Receive(e) \/ Deliver(e)
                           \/ Lose(e) \/ Repeat(e) \/ Change(e) \/ Misdeliver(e)
    \/ Tick \/ Rotate \/ Learn

Spec == Init /\ [][Next]_vars

\* Callers retry until they have an answer, a message the network does not lose arrives,
\* and the resolver hears of a rotation in the end.  None of it is fiki's to promise.
Fairness ==
    /\ \A c \in Callers : WF_vars(Send(c))
    /\ WF_vars(\E e \in network : Receive(e))
    /\ WF_vars(\E e \in network : Deliver(e))
    /\ WF_vars(Learn)

FairSpec == Spec /\ Fairness

-------------------------------------------------------------------------------
(* Properties *)

Asking(c) == What(OriginForm(Asked[c]))

Begun(c) == waiting[c] # {}

\* Types; nothing is answered before it is sent, and what is sent has a signature to read.
TypeOK ==
    /\ \A c \in Callers : answer[c] # {} => Begun(c)
    /\ \A c \in Callers : \A m \in waiting[c] : ReadRefusal(m, ServerPolicy) = None
    /\ \A e \in network : e.via \in Callers
    /\ faults \in 0..MaxFaults /\ clock \in 0..MaxClock
    /\ resolved \in 1..key /\ key \in 1..Len(ClientKeys)

\* The server does only what a caller asked for, every part of it as asked, however the
\* network changed, repeated or misdelivered what it was sent.
ServedWasAsked ==
    \A s \in served : \E c \in Callers : Begun(c) /\ s.what = Asking(c)

\* A key the resolver has replaced signs nothing more that is served (profile section 7,
\* R3), however late a message signed with it arrives.
ServedUnderCurrentKey == \A s \in served : s.by = s.resolver

\* An accepted answer is the server's own, to exactly what this caller asked, and no
\* older than the window: an intermediary can hold one back, and give the same answer
\* to two callers that asked the same, and that is all (profile section 3).
AnswerIsMine ==
    \A c \in Callers : \A a \in answer[c] :
      \E s \in served :
        /\ s.what = Asking(c)
        /\ [status |-> a.status, body |-> a.body] = Answer(Asking(c))
        /\ \A age \in ClientPolicy.maxAge : a.at <= s.at + age + ClientPolicy.skew

\* The server does what callers ask and callers take the answers to what they asked.
Abstract == INSTANCE RequestReply
    WITH Want <- Asking, Reply <- Answer,
         asked <- {Asking(c) : c \in {d \in Callers : Begun(d)}},
         done <- {s.what : s \in served},
         got <- [c \in Callers |-> {[status |-> a.status, body |-> a.body] : a \in answer[c]}]

ImplementsRequestReply == Abstract!Spec

\* Once the network stops failing, the clients stop rotating and the clocks agree to
\* within the skew, every caller that keeps asking is answered: signing afresh is enough.
EveryCallerIsAnswered == \A c \in Callers : <>(answer[c] # {})
===============================================================================
