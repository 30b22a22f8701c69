---------------------------- MODULE VerifierProofs ----------------------------
(***************************************************************************)
(* Proofs about Verifier, for any set of calls, keys and key states: what  *)
(* a verdict rests on, what a refusal gives away, and what a resolver is   *)
(* asked.                                                                  *)
(*                                                                         *)
(* The argument is the program counter.  Past says which checks a call at  *)
(* each stage has passed; it is inductive because the message and the      *)
(* arguments never change during the call, and because the resolver's      *)
(* answer, once given, is what every later stage uses.  Each property is   *)
(* then a fact about the operators the passed checks are made of.          *)
(***************************************************************************)
EXTENDS Verifier, VerificationProofs

-------------------------------------------------------------------------------
(* The invariant *)

CallFixed == call \in Calls

\* What the assumptions on the constants say of a call and of a key state.
LEMMA CallTyped ==
  ASSUME CallFixed
  PROVE  /\ TypedCall(call)
         /\ OneOf(P.expectedAid, Keyids) /\ AtMostOne(M.request)
         /\ P.maxAge \subseteq Int /\ P.skew \in Int
BY CallsAssumption DEF CallFixed, TypedCall, OneOf, M, P

LEMMA StatesTyped == KeyStates \subseteq [Ids -> Answers]
BY VerifierAssumption

\* The stages a call can be at once it has passed a check.
AfterDigest == {"accepted"}
AfterFresh == {"digest"} \cup AfterDigest
AfterServed == {"fresh"} \cup AfterFresh
AfterBase == {"served"} \cup AfterServed
AfterAlgorithm == {"base"} \cup AfterBase
AfterKey == {"alg"} \cup AfterAlgorithm
AfterExpect == {"ask", "wait"} \cup AfterKey
AfterLocal == {"expect"} \cup AfterExpect
AfterCover == {"local"} \cup AfterLocal
AfterRead == {"cover"} \cup AfterCover
AfterCall == {"read"} \cup AfterRead

KeyOfThisCall == KeyFor(ParamsOf(M).keyid, P, answer)

\* The message reads and its key is settled ...
KeySettled ==
    /\ ReadRefusal(M, P) = None
    /\ LocalKeyRefusal(ParamsOf(M).keyid, P) = None
    /\ UnexpectedKeyidRefusal(ParamsOf(M).keyid, P) = None
    /\ P.resolving => ResolvedRefusal(answer) = None

\* ... and its signature verified under that key.
Verified == KeySettled /\ SignatureRefusal(M, KeyOfThisCall) = None

\* What may have been handed to the resolver, and when.
Asked ==
    /\ P.resolving
    /\ asked = <<The(ParamsOf(M).keyid)>>
    /\ CallRefusal(M, P) = None /\ ReadRefusal(M, P) = None /\ CoverageRefusal(M, P) = None
    /\ LocalKeyRefusal(ParamsOf(M).keyid, P) = None
    /\ UnexpectedKeyidRefusal(ParamsOf(M).keyid, P) = None

Past ==
    /\ pc \in AfterCall => CallRefusal(M, P) = None
    /\ pc \in AfterRead => ReadRefusal(M, P) = None
    /\ pc \in AfterCover => CoverageRefusal(M, P) = None
    /\ pc \in AfterLocal => LocalKeyRefusal(ParamsOf(M).keyid, P) = None
    /\ pc \in AfterExpect => UnexpectedKeyidRefusal(ParamsOf(M).keyid, P) = None
    /\ pc \in {"ask", "wait"} => P.resolving
    /\ pc \in AfterKey => KeySettled
    /\ pc \in AfterAlgorithm => AlgorithmRefusal(ParamsOf(M)) = None
    /\ pc \in AfterBase => Verified
    /\ pc \in AfterServed => AuthorityServedRefusal(M, P) = None
    /\ pc \in AfterFresh =>
         \E now \in 0..clock : /\ FreshnessRefusal(ParamsOf(M), P, now) = None
                               /\ \A t \in answered : t <= now
    /\ pc \in AfterDigest => DigestRefusal(M) = None
    /\ pc \notin Ended => outcome = None
    /\ outcome \in PolicyRefusals => Verified
    /\ pc \notin AfterKey \cup {"wait", "refused"} => asked = <<>>
    /\ asked # <<>> => Asked

Inv == CallFixed /\ TypeOK /\ Past

\* A call that has not begun has passed nothing, and its state is of the types.
LEMMA InitInv == Init => Inv
<1> SUFFICES ASSUME Init PROVE Inv
  OBVIOUS
<1>1. CallFixed
  BY DEF Init, CallFixed
<1>2. clock \in 0..MaxClock /\ clock \in Int
  BY VerifierAssumption DEF Init
<1>3. TypeOK
  BY <1>1, <1>2, LookupNowAnswers, CallTyped, StatesTyped DEF Init, TypeOK, Stages, Ended, Answers, Opt
<1>4. Past
  BY DEF Init, Past, AfterCall, AfterRead, AfterCover, AfterLocal, AfterExpect, AfterKey,
         AfterAlgorithm, AfterBase, AfterServed, AfterFresh, AfterDigest, Ended, PolicyRefusals, None
<1>5. QED
  BY <1>1, <1>3, <1>4 DEF Inv

\* A quiet check moves the call on or ends it, and touches nothing else.
LEMMA CheckTypes ==
  ASSUME Inv, NEW from \in Stages, NEW to \in Stages, NEW refusal \in Refusals \cup {None},
         Check(from, refusal, to), Quiet
  PROVE  CallFixed' /\ TypeOK'
BY DEF Inv, CallFixed, TypeOK, Check, Quiet, Stages, Ended, None

\* The keyid is one well-formed AID.
KeyAsked == /\ ParamsOf(M).keyid = {The(ParamsOf(M).keyid)}
            /\ The(ParamsOf(M).keyid) \in Keyids
            /\ WellFormedAid(The(ParamsOf(M).keyid))

\* A keyid that passed its local check under a resolver is one well-formed AID.
LEMMA AskedKey ==
  ASSUME CallFixed, P.resolving, CallRefusal(M, P) = None, ReadRefusal(M, P) = None,
         LocalKeyRefusal(ParamsOf(M).keyid, P) = None
  PROVE  KeyAsked
BY AskedKeyid, CallTyped DEF KeyAsked, M, P

\* Every stage of a call keeps the invariant, and so do a tick of the clock and a
\* rotation of the key state between any two of them.
LEMMA NextInv == Inv /\ [Next]_vars => Inv'
<1> SUFFICES ASSUME Inv, [Next]_vars PROVE Inv'
  OBVIOUS
<1> USE DEF Inv
<1> DEFINE keyid == ParamsOf(M).keyid
<1>0. /\ CallFixed /\ TypeOK /\ Past
      /\ Early \subseteq Refusals \cup {None} /\ Early \cap PolicyRefusals = {}
      /\ None \notin Refusals /\ "accepted" \notin Refusals
  BY DEF Early, Refusals, PolicyRefusals, None
<1>1. CASE CheckCall
  <2>1. CallRefusal(M, P) \in Early
    BY CallRange
  <2>2. CallFixed' /\ TypeOK'
    BY <1>0, <1>1, <2>1, CheckTypes DEF CheckCall, Stages, Ended
  <2>3. Past'
    BY <1>0, <1>1, <2>1
       DEF CheckCall, Check, Quiet, Past, KeySettled, Verified, KeyOfThisCall, Asked, M, P, Ended,
           AfterCall, AfterRead, AfterCover, AfterLocal, AfterExpect,
           AfterKey, AfterAlgorithm, AfterBase, AfterServed, AfterFresh, AfterDigest
  <2>4. QED
    BY <2>2, <2>3
<1>2. CASE ReadHeaders
  <2>1. ReadRefusal(M, P) \in Early
    BY <1>0, ReadRange, CallTyped DEF M, P
  <2>2. CallFixed' /\ TypeOK'
    BY <1>0, <1>2, <2>1, CheckTypes DEF ReadHeaders, Stages, Ended
  <2>3. Past'
    BY <1>0, <1>2, <2>1
       DEF ReadHeaders, Check, Quiet, Past, KeySettled, Verified, KeyOfThisCall, Asked, M, P, Ended,
           AfterCall, AfterRead, AfterCover, AfterLocal, AfterExpect,
           AfterKey, AfterAlgorithm, AfterBase, AfterServed, AfterFresh, AfterDigest
  <2>4. QED
    BY <2>2, <2>3
<1>3. CASE CheckCoverage
  <2>1. CoverageRefusal(M, P) \in Early
    BY CoverageRange
  <2>2. CallFixed' /\ TypeOK'
    BY <1>0, <1>3, <2>1, CheckTypes DEF CheckCoverage, Stages, Ended
  <2>3. Past'
    BY <1>0, <1>3, <2>1
       DEF CheckCoverage, Check, Quiet, Past, KeySettled, Verified, KeyOfThisCall, Asked, M, P, Ended,
           AfterCall, AfterRead, AfterCover, AfterLocal, AfterExpect,
           AfterKey, AfterAlgorithm, AfterBase, AfterServed, AfterFresh, AfterDigest
  <2>4. QED
    BY <2>2, <2>3
<1>4. CASE CheckLocalKey
  <2>1. LocalKeyRefusal(keyid, P) \in Early
    BY KeyRange
  <2>2. CallFixed' /\ TypeOK'
    BY <1>0, <1>4, <2>1, CheckTypes DEF CheckLocalKey, Stages, Ended
  <2>3. Past'
    BY <1>0, <1>4, <2>1
       DEF CheckLocalKey, Check, Quiet, Past, KeySettled, Verified, KeyOfThisCall, Asked, M, P, Ended,
           AfterCall, AfterRead, AfterCover, AfterLocal, AfterExpect,
           AfterKey, AfterAlgorithm, AfterBase, AfterServed, AfterFresh, AfterDigest
  <2>4. QED
    BY <2>2, <2>3
<1>5. CASE CheckExpectedKeyid
  <2>1. UnexpectedKeyidRefusal(keyid, P) \in Early
    BY KeyRange
  <2>2. CallFixed' /\ TypeOK'
    BY <1>0, <1>5, <2>1, CheckTypes DEF CheckExpectedKeyid, Stages, Ended
  <2>3. Past'
    BY <1>0, <1>5, <2>1
       DEF CheckExpectedKeyid, Check, Quiet, Past, KeySettled, Verified, KeyOfThisCall, Asked, M, P, Ended,
           AfterCall, AfterRead, AfterCover, AfterLocal, AfterExpect,
           AfterKey, AfterAlgorithm, AfterBase, AfterServed, AfterFresh, AfterDigest
  <2>4. QED
    BY <2>2, <2>3
<1>6. CASE CheckAlgorithm
  <2>1. AlgorithmRefusal(ParamsOf(M)) \in Early
    BY KeyRange
  <2>2. CallFixed' /\ TypeOK'
    BY <1>0, <1>6, <2>1, CheckTypes DEF CheckAlgorithm, Stages, Ended
  <2>3. Past'
    BY <1>0, <1>6, <2>1
       DEF CheckAlgorithm, Check, Quiet, Past, KeySettled, Verified, KeyOfThisCall, Asked, M, P, Ended,
           AfterCall, AfterRead, AfterCover, AfterLocal, AfterExpect,
           AfterKey, AfterAlgorithm, AfterBase, AfterServed, AfterFresh, AfterDigest
  <2>4. QED
    BY <2>2, <2>3
<1>7. CASE VerifySignature
  <2>1. SignatureRefusal(M, KeyOfThisCall) \in Early
    BY <1>0, <1>7, SignatureRange, CallTyped DEF M, P, Past, VerifySignature, Check, AfterKey, AfterAlgorithm, KeySettled
  <2>2. CallFixed' /\ TypeOK'
    BY <1>0, <1>7, <2>1, CheckTypes DEF VerifySignature, KeyOfThisCall, Stages, Ended
  <2>3. Past'
    BY <1>0, <1>7, <2>1
       DEF VerifySignature, Check, Quiet, Past, KeySettled, Verified, KeyOfThisCall, Asked, M, P, Ended,
           AfterCall, AfterRead, AfterCover, AfterLocal, AfterExpect,
           AfterKey, AfterAlgorithm, AfterBase, AfterServed, AfterFresh, AfterDigest
  <2>4. QED
    BY <2>2, <2>3
<1>8. CASE CheckAuthority
  <2>1. AuthorityServedRefusal(M, P) \in Early
    BY ServedRange
  <2>2. CallFixed' /\ TypeOK'
    BY <1>0, <1>8, <2>1, CheckTypes DEF CheckAuthority, Stages, Ended
  <2>3. Past'
    BY <1>0, <1>8, <2>1
       DEF CheckAuthority, Check, Quiet, Past, KeySettled, Verified, KeyOfThisCall, Asked, M, P, Ended,
           AfterCall, AfterRead, AfterCover, AfterLocal, AfterExpect,
           AfterKey, AfterAlgorithm, AfterBase, AfterServed, AfterFresh, AfterDigest
  <2>4. QED
    BY <2>2, <2>3
<1>9. CASE CheckDigests
  <2>1. DigestRefusal(M) \in Refusals \cup {None}
    BY PolicyRange
  <2>2. CallFixed' /\ TypeOK'
    BY <1>0, <1>9, <2>1, CheckTypes DEF CheckDigests, Stages, Ended
  <2>3. Past'
    BY <1>0, <1>9, <2>1
       DEF CheckDigests, Check, Quiet, Past, KeySettled, Verified, KeyOfThisCall, Asked, M, P, Ended,
           AfterCall, AfterRead, AfterCover, AfterLocal, AfterExpect,
           AfterKey, AfterAlgorithm, AfterBase, AfterServed, AfterFresh, AfterDigest
  <2>4. QED
    BY <2>2, <2>3
<1>10. CASE AskResolver
  <2>1. CallFixed' /\ TypeOK'
    BY <1>0, <1>10 DEF AskResolver, CallFixed, TypeOK, Stages
  <2>2. Past'
    BY <1>0, <1>10
       DEF AskResolver, Past, KeySettled, Verified, KeyOfThisCall, Asked, M, P, Ended,
           AfterCall, AfterRead, AfterCover, AfterLocal, AfterExpect,
           AfterKey, AfterAlgorithm, AfterBase, AfterServed, AfterFresh, AfterDigest
  <2>3. QED
    BY <2>1, <2>2
<1>11. CASE ResolverAnswers
  <2> DEFINE said == Lookup(keyState, The(keyid))
  <2>1. P.resolving /\ KeyAsked
    BY <1>0, <1>11, AskedKey DEF ResolverAnswers, Check, Past, AfterExpect, AfterLocal, AfterCover,
                                 AfterRead, AfterCall, CallFixed
  <2>2. said \in Answers
    BY <1>0, <2>1, LookupAnswers, StatesTyped DEF TypeOK, KeyAsked
  <2>3. ResolvedRefusal(said) \in Early
    BY KeyRange
  <2>4. CallFixed' /\ TypeOK'
    <3>1. answer' = said /\ answered' = {clock}
      BY <1>11 DEF ResolverAnswers
    <3>2. answered' \in Opt(0..clock)
      BY <1>0, <3>1 DEF TypeOK, Opt
    <3>3. QED
      BY <1>0, <1>11, <2>2, <2>3, <3>1, <3>2
         DEF ResolverAnswers, Check, CallFixed, TypeOK, Stages, Ended
  <2>5. Past'
    BY <1>0, <1>11, <2>3
       DEF ResolverAnswers, Check, Past, KeySettled, Verified, KeyOfThisCall, Asked, M, P, Ended,
           AfterCall, AfterRead, AfterCover, AfterLocal, AfterExpect,
           AfterKey, AfterAlgorithm, AfterBase, AfterServed, AfterFresh, AfterDigest
  <2>6. QED
    BY <2>4, <2>5
<1>12. CASE CheckFreshness
  <2>1. FreshnessRefusal(ParamsOf(M), P, clock) \in Refusals \cup {None}
    BY PolicyRange
  <2>2. clock \in 0..clock /\ \A t \in answered : t <= clock
    BY <1>0 DEF TypeOK, Opt
  <2>3. CallFixed' /\ TypeOK'
    <3>1. stamp' \in Opt(0..clock)
      BY <1>0, <1>12 DEF CheckFreshness, TypeOK, Opt
    <3>2. QED
      BY <1>0, <1>12, <2>1, <3>1 DEF CheckFreshness, Check, CallFixed, TypeOK, Stages, Ended
  <2>4. Past'
    BY <1>0, <1>12, <2>1, <2>2
       DEF CheckFreshness, Check, Past, KeySettled, Verified, KeyOfThisCall, Asked, M, P, Ended,
           AfterCall, AfterRead, AfterCover, AfterLocal, AfterExpect,
           AfterKey, AfterAlgorithm, AfterBase, AfterServed, AfterFresh, AfterDigest
  <2>5. QED
    BY <2>3, <2>4
<1>13. CASE Tick
  <2>1. clock \in Nat /\ clock' = clock + 1 /\ clock < MaxClock /\ MaxClock \in Nat
    BY <1>0, <1>13, VerifierAssumption DEF Tick, TypeOK
  <2>2. CallFixed' /\ TypeOK'
    <3>1. clock' \in 0..MaxClock /\ \A h \in held : h.answer \in Answers /\ h.at \in 0..clock'
      BY <1>0, <2>1 DEF TypeOK
    <3>2. answered \in Opt(0..clock') /\ stamp \in Opt(0..clock')
      BY <1>0, <2>1 DEF TypeOK, Opt
    <3>3. QED
      BY <1>0, <1>13, <3>1, <3>2 DEF Tick, caller, CallFixed, TypeOK
  <2>3. 0..clock \subseteq 0..clock'
    BY <2>1
  <2>4. Past'
    BY <1>0, <1>13, <2>3
       DEF Tick, caller, Past, KeySettled, Verified, KeyOfThisCall, Asked, M, P
  <2>5. QED
    BY <2>2, <2>4
<1>14. CASE Rotate
  <2>1. LookupNow(call, keyState') \in Answers
    BY <1>0, <1>14, LookupNowAnswers, CallTyped, StatesTyped DEF Rotate
  <2>2. CallFixed' /\ TypeOK'
    <3>1. clock \in 0..clock
      BY <1>0 DEF TypeOK
    <3>2. QED
      BY <1>0, <1>14, <2>1, <3>1 DEF Rotate, caller, CallFixed, TypeOK
  <2>3. Past'
    BY <1>0, <1>14 DEF Rotate, caller, Past, KeySettled, Verified, KeyOfThisCall, Asked, M, P
  <2>4. QED
    BY <2>2, <2>3
<1>15. CASE UNCHANGED vars
  <2>1. CallFixed' /\ TypeOK'
    BY <1>0, <1>15 DEF vars, CallFixed, TypeOK
  <2>2. Past'
    BY <1>0, <1>15 DEF vars, Past, KeySettled, Verified, KeyOfThisCall, Asked, M, P
  <2>3. QED
    BY <2>1, <2>2
<1>16. QED
  BY <1>0, <1>1, <1>2, <1>3, <1>4, <1>5, <1>6, <1>7, <1>8, <1>9, <1>10, <1>11, <1>12, <1>13, <1>14,
     <1>15 DEF Next, VerifyStep

\* A call at any stage has passed every check before it, and remembers the resolver's
\* answer it passed them with.
THEOREM Invariance == Spec => []Inv
<1>1. QED
  BY InitInv, NextInv, PTL DEF Spec

\* At every moment the control state, the refusal, the resolver's answer and the
\* clock are what the code can have made them.
THEOREM TypeCorrect == Spec => []TypeOK
<1>1. Inv => TypeOK
  BY DEF Inv
<1>2. QED
  BY Invariance, <1>1, PTL

-------------------------------------------------------------------------------
(* What a verdict rests on *)

\* A message whose signature verified is vouched for.
LEMMA VerifiedIsVouched ==
  ASSUME Inv, Verified
  PROVE  SignedAndVouched
<1> DEFINE key == KeyOfThisCall
           keyid == ParamsOf(M).keyid
<1>0. LinesRefusal(ItemsOf(M), M, TRUE) = None
  BY DEF Verified, SignatureRefusal, ??, None
<1>1. Signature(M).by = key /\ Signature(M).over = Base(ItemsOf(M), M, ParamsOf(M))
  <2>1. Signature(M) = Sign(key, Base(ItemsOf(M), M, ParamsOf(M)))
    BY DEF Verified, SignatureRefusal, ??, SignatureVerifies, None
  <2>2. QED
    BY <2>1 DEF Sign
<1>2. P.expectedKeyid # {} => keyid = P.expectedKeyid
  BY DEF Verified, KeySettled, UnexpectedKeyidRefusal, None
<1>3. \A k : KeyRefusal(k) = None => k \in SoundKeys
  BY DEF KeyRefusal, None
<1>4. OneOf(P.expectedAid, Keyids) /\ OneOf(keyid, Keyids)
  BY ReadGives, CallTyped DEF Inv, M, P, Verified, KeySettled
<1>5. CASE P.expectedAid # {}
  <2> DEFINE aid == The(P.expectedAid)
  <2>1. PICK x \in Keyids : P.expectedAid = {x}
    BY <1>4, <1>5 DEF OneOf, AtMostOne
  <2>2. aid = x
    BY <2>1 DEF The
  <2>3. WellFormedAid(x) /\ KeyRefusal(x.id) = None
    BY <1>5, <2>2 DEF Verified, KeySettled, LocalKeyRefusal, None
  <2>4. x = Aid(x.id)
    BY <2>1, <2>3 DEF Keyids, WellFormedAid, Aid, RawKeyid, GarbledKeyid, EmptyKeyid
  <2>5. key = x.id
    BY <1>5, <2>2 DEF KeyOfThisCall, KeyFor
  <2>6. QED
    BY <1>0, <1>1, <1>2, <1>3, <1>5, <2>1, <2>3, <2>4, <2>5 DEF SignedAndVouched
<1>6. CASE P.expectedAid = {} /\ P.resolving
  <2>1. ResolvedRefusal(answer) = None
    BY <1>6 DEF Verified, KeySettled
  <2>2. answer # {} /\ KeyRefusal(The(answer)) = None
    BY <2>1 DEF ResolvedRefusal, None
  <2>3. PICK k : answer = {k}
    BY <2>2 DEF Inv, TypeOK, Answers, Opt
  <2>4. The(answer) = k
    BY <2>3 DEF The
  <2>5. key = k
    BY <1>6, <2>4 DEF KeyOfThisCall, KeyFor
  <2>6. QED
    BY <1>0, <1>1, <1>2, <1>3, <1>6, <2>2, <2>3, <2>4, <2>5 DEF SignedAndVouched
<1>7. CASE P.expectedAid = {} /\ ~P.resolving
  <2>1. keyid # {} /\ The(keyid).form = "raw" /\ KeyRefusal(The(keyid).id) = None
    BY <1>7 DEF Verified, KeySettled, LocalKeyRefusal, None
  <2>2. PICK x \in Keyids : keyid = {x}
    BY <1>4, <2>1 DEF OneOf, AtMostOne
  <2>3. The(keyid) = x
    BY <2>2 DEF The
  <2>4. x = RawKeyid(x.id)
    BY <2>1, <2>2, <2>3 DEF Keyids, Aid, RawKeyid, GarbledKeyid, EmptyKeyid
  <2>5. key = x.id
    BY <1>7, <2>3 DEF KeyOfThisCall, KeyFor
  <2>6. QED
    BY <1>0, <1>1, <1>2, <1>3, <1>7, <2>1, <2>2, <2>3, <2>4, <2>5 DEF SignedAndVouched
<1>8. QED
  BY <1>5, <1>6, <1>7

\* A call that accepts has passed every check.
LEMMA AcceptedPassed ==
  ASSUME Inv, pc = "accepted"
  PROVE  /\ Verified
         /\ CoverageRefusal(M, P) = None
         /\ AuthorityServedRefusal(M, P) = None
         /\ DigestRefusal(M) = None
         /\ \E now \in 0..clock : /\ FreshnessRefusal(ParamsOf(M), P, now) = None
                                  /\ \A t \in answered : t <= now
BY DEF Inv, Past, AfterCall, AfterRead, AfterCover, AfterLocal, AfterExpect, AfterKey,
       AfterAlgorithm, AfterBase, AfterServed, AfterFresh, AfterDigest

\* A verdict is never given on less than a vouched signature: the key is a sound
\* one, the base is exactly this message's, and the expected_aid, the resolver or
\* the keyid, in that order of authority, says the key is the signer's.
THEOREM AcceptanceIsVouched == Spec => []AcceptedIsVouched
<1>1. Inv => AcceptedIsVouched
  BY AcceptedPassed, VerifiedIsVouched DEF AcceptedIsVouched
<1>2. QED
  BY Invariance, <1>1, PTL

\* A forger learns nothing of the verifier's clock or of the body: a refusal that
\* depends on either is given only for a message whose signature is vouched for.
THEOREM PolicyIsHidden == Spec => []PolicyHidden
<1>1. Inv => PolicyHidden
  BY VerifiedIsVouched DEF Inv, Past, PolicyHidden
<1>2. QED
  BY Invariance, <1>1, PTL

\* A resolver is asked at most once in a call, about one well-formed AID that is
\* the expected one, and only once the headers and the covered list were accepted.
THEOREM ResolverAskedOnlyWhatMatters == Spec => []AskedOnlyWhatMatters
<1>1. Inv => AskedOnlyWhatMatters
  <2> SUFFICES ASSUME Inv, asked # <<>> PROVE AskedOnlyWhatMatters
    BY DEF AskedOnlyWhatMatters
  <2>1. Asked
    BY DEF Inv, Past
  <2>2. KeyAsked
    BY <2>1, AskedKey DEF Inv, Asked
  <2>3. asked[1] = The(ParamsOf(M).keyid)
    BY <2>1 DEF Asked
  <2>4. P.expectedKeyid \in {{}, {asked[1]}}
    BY <2>1, <2>2, <2>3 DEF Asked, UnexpectedKeyidRefusal, None, KeyAsked
  <2>5. QED
    BY <2>1, <2>2, <2>3, <2>4 DEF Asked, KeyAsked, AskedOnlyWhatMatters
<1>2. QED
  BY Invariance, <1>1, PTL

\* However long the resolver took, an accepted signature was inside its window
\* when the answer came.
THEOREM FreshThroughTheWait == Spec => []FreshWhenAnswered
<1>1. Inv => FreshWhenAnswered
  <2> SUFFICES ASSUME Inv, pc = "accepted", NEW t \in answered
      PROVE  /\ \A a \in P.maxAge : \E c \in ParamsOf(M).created : t <= c + a + P.skew
             /\ \A e \in ParamsOf(M).expires : t <= e + P.skew
    BY DEF FreshWhenAnswered
  <2>1. PICK now \in 0..clock : FreshnessRefusal(ParamsOf(M), P, now) = None /\ t <= now
    BY AcceptedPassed
  <2>2. ~TooOld(ParamsOf(M), P, now) /\ \A e \in ParamsOf(M).expires : ~(now > e + P.skew)
    BY <2>1 DEF FreshnessRefusal, None
  <2>3. /\ ParamsOf(M).created \subseteq Int /\ ParamsOf(M).expires \subseteq Int
        /\ P.maxAge \subseteq Int /\ P.skew \in Int
    BY AcceptedPassed, ReadGives, CallTyped
       DEF Inv, M, P, Verified, KeySettled, OneOf
  <2>4. t \in Int /\ now \in Int
    BY <2>1 DEF Inv, TypeOK, Opt
  <2>5. ASSUME NEW a \in P.maxAge PROVE \E c \in ParamsOf(M).created : t <= c + a + P.skew
    <3>1. PICK c \in ParamsOf(M).created : TRUE
      BY <2>2 DEF TooOld
    <3>2. ~(now - c > a + P.skew)
      BY <2>2, <3>1 DEF TooOld
    <3>3. t <= c + a + P.skew
      BY <2>1, <2>3, <2>4, <3>1, <3>2
    <3>4. QED
      BY <3>1, <3>3
  <2>6. ASSUME NEW e \in ParamsOf(M).expires PROVE t <= e + P.skew
    BY <2>1, <2>2, <2>3, <2>4
  <2>7. QED
    BY <2>5, <2>6
<1>2. QED
  BY Invariance, <1>1, PTL

-------------------------------------------------------------------------------
(* What a verdict binds *)

\* A covered item is a line of the signed base, beside the value the message has for it.
LEMMA CoveredIsSigned ==
  ASSUME SignedAndVouched, NEW i \in DOMAIN ItemsOf(M)
  PROVE  <<ItemsOf(M)[i], ValueOf(ItemsOf(M)[i], M)>>
           \in {l \in ElementsOf(Signature(M).over.lines) : l[1] = ItemsOf(M)[i]}
<1>1. Signature(M).over.lines = LinesFor(ItemsOf(M), M)
  BY DEF SignedAndVouched, Base
<1>2. QED
  BY <1>1 DEF LinesFor, ElementsOf

\* A digest that was compared and not refused names the content, and nothing else.
LEMMA ComparedNames ==
  ASSUME NEW digest, NEW body,
         ReadDigestRefusal(digest) = None, CompareDigestRefusal(digest, body) = None
  PROVE  Recognized(digest) # {} /\ \A d \in Recognized(digest) : {d.of} = body
BY DEF ReadDigestRefusal, CompareDigestRefusal, None

\* Every digest the signature covers was read and compared before a verdict was given.
LEMMA CoveredDigestsNamed ==
  ASSUME NEW m, DigestRefusal(m) = None, NEW digest, NEW body,
         <<digest, body>> \in DigestsCovered(m)
  PROVE  Recognized(digest) # {} /\ \A d \in Recognized(digest) : {d.of} = body
<1>1. /\ \A d \in DigestsCovered(m) : ReadDigestRefusal(d[1]) = None
      /\ \A d \in DigestsCovered(m) : CompareDigestRefusal(d[1], d[2]) = None
  BY DEF DigestRefusal, None
<1>2. ReadDigestRefusal(digest) = None /\ CompareDigestRefusal(digest, body) = None
  BY <1>1
<1>3. QED
  BY <1>2, ComparedNames

\* Under any minimum the covered list has the digest of a body, and of the body of
\* the request a response answers.
LEMMA BodiesCovered ==
  ASSUME NEW m, NEW p, CoverageRefusal(m, p) = None, p.minimum # {}
  PROVE  /\ HasContent(m.body) => CoversBody(ItemsOf(m))
         /\ (\E r \in m.request : HasContent(r.body)) => BindsRequestDigest(ItemsOf(m))
<1>1. PICK minimum \in p.minimum : TRUE
  OBVIOUS
<1>2. CoversMinimum(ItemsOf(m), minimum, HasBody(m), RequestHadBody(m))
  BY <1>1 DEF CoverageRefusal, ??, None
<1>3. HasContent(m.body) => HasBody(m)
  BY DEF HasBody, RequestHasBody
<1>4. QED
  BY <1>2, <1>3 DEF CoversMinimum, Required, CoversBody, BindsRequestDigest, RequestHadBody

\* Under any minimum, the content handed over and the content of the request a
\* response answers are what the signature commits to.
THEOREM BodiesAreBound == Spec => []BodyIsBound
<1>1. Inv => BodyIsBound
  <2> SUFFICES ASSUME Inv, pc = "accepted", P.minimum # {}
      PROVE  /\ HasContent(M.body) =>
                  \E l \in Lines(ContentDigest, {}) :
                    Recognized(l[2]) # {} /\ \A d \in Recognized(l[2]) : {d.of} = M.body
             /\ \A r \in M.request : HasContent(r.body) =>
                  \E l \in Lines(ContentDigest, {"req"}) :
                    Recognized(l[2]) # {} /\ \A d \in Recognized(l[2]) : {d.of} = r.body
    BY DEF BodyIsBound
  <2>1. SignedAndVouched /\ CoverageRefusal(M, P) = None /\ DigestRefusal(M) = None
    BY AcceptedPassed, VerifiedIsVouched
  <2>2. ASSUME HasContent(M.body)
        PROVE  \E l \in Lines(ContentDigest, {}) :
                 Recognized(l[2]) # {} /\ \A d \in Recognized(l[2]) : {d.of} = M.body
    <3> DEFINE digest == The(M.headers.digest)
    <3>1. CoversBody(ItemsOf(M))
      BY <2>1, <2>2, BodiesCovered
    <3>2. PICK i \in DOMAIN ItemsOf(M) : ItemsOf(M)[i] = Item(ContentDigest)
      BY <3>1 DEF CoversBody, ElementsOf
    <3>3. ValueOf(Item(ContentDigest), M) = digest
      BY DEF ValueOf, Subject, FieldOf, Item, ContentDigest
    <3>4. <<Item(ContentDigest), digest>> \in Lines(ContentDigest, {})
      BY <2>1, <3>2, <3>3, CoveredIsSigned DEF Lines, Item
    <3>5. <<digest, M.body>> \in DigestsCovered(M)
      BY <3>1 DEF DigestsCovered
    <3>6. Recognized(digest) # {} /\ \A d \in Recognized(digest) : {d.of} = M.body
      BY <2>1, <3>5, CoveredDigestsNamed
    <3>7. QED
      BY <3>4, <3>6
  <2>3. ASSUME NEW r \in M.request, HasContent(r.body)
        PROVE  \E l \in Lines(ContentDigest, {"req"}) :
                 Recognized(l[2]) # {} /\ \A d \in Recognized(l[2]) : {d.of} = r.body
    <3> DEFINE digest == The(r.headers.digest)
    <3>1. BindsRequestDigest(ItemsOf(M))
      BY <2>1, <2>3, BodiesCovered
    <3>2. PICK i \in DOMAIN ItemsOf(M) : ItemsOf(M)[i] = Req(ContentDigest)
      BY <3>1 DEF BindsRequestDigest, ElementsOf
    <3>3. The(M.request) = r
      BY <2>3, CallTyped DEF Inv, AtMostOne, The
    <3>4. ValueOf(Req(ContentDigest), M) = digest
      BY <3>3 DEF ValueOf, Subject, FieldOf, Req, ContentDigest, AsciiLower
    <3>5. Req(ContentDigest) = [name |-> ContentDigest, params |-> {"req"}]
      BY DEF Req, ContentDigest, AsciiLower
    <3>6. <<Req(ContentDigest), digest>> \in Lines(ContentDigest, {"req"})
      BY <2>1, <3>2, <3>4, <3>5, CoveredIsSigned DEF Lines
    <3>7. <<digest, r.body>> \in DigestsCovered(M)
      BY <2>3, <3>1 DEF DigestsCovered
    <3>8. Recognized(digest) # {} /\ \A d \in Recognized(digest) : {d.of} = r.body
      BY <2>1, <3>7, CoveredDigestsNamed
    <3>9. QED
      BY <3>6, <3>8
  <2>4. QED
    BY <2>2, <2>3
<1>2. QED
  BY Invariance, <1>1, PTL

\* A request accepted by a verifier that says which authorities it serves was
\* signed for one of them.
THEOREM OnlyServedAuthorities == Spec => []ServedOnly
<1>1. Inv => ServedOnly
  <2> SUFFICES ASSUME Inv, pc = "accepted", NEW served \in P.authorities
      PROVE  \E l \in Lines("@authority", {}) : l[2] \in served
    BY DEF ServedOnly
  <2>1. SignedAndVouched /\ CoverageRefusal(M, P) = None /\ AuthorityServedRefusal(M, P) = None
    BY AcceptedPassed, VerifiedIsVouched
  <2>2. CoversMinimum(ItemsOf(M), {Item("@authority")}, FALSE, FALSE)
    BY <2>1 DEF CoverageRefusal, ??, None
  <2>3. Component(Item("@authority")) = Item("@authority")
    BY DEF Component, Item, AsciiLower
  <2>4. Item("@authority") \in ElementsOf(ItemsOf(M))
    BY <2>2, <2>3 DEF CoversMinimum, Required
  <2>5. PICK i \in DOMAIN ItemsOf(M) : ItemsOf(M)[i] = Item("@authority")
    BY <2>4 DEF ElementsOf
  <2>6. ValueOf(ItemsOf(M)[i], M) \in served
    <3>1. \A s \in P.authorities, j \in DOMAIN ItemsOf(M) :
             ItemsOf(M)[j].name = "@authority" => ValueOf(ItemsOf(M)[j], M) \in s
      BY <2>1 DEF AuthorityServedRefusal, None
    <3>2. ItemsOf(M)[i].name = "@authority"
      BY <2>5 DEF Item
    <3>3. QED
      BY <3>1, <3>2
  <2>7. <<ItemsOf(M)[i], ValueOf(ItemsOf(M)[i], M)>> \in Lines("@authority", {})
    BY <2>1, <2>5, CoveredIsSigned DEF Lines, Item
  <2>8. QED
    BY <2>6, <2>7
<1>2. QED
  BY Invariance, <1>1, PTL

-------------------------------------------------------------------------------
(* The one code of a moment *)

\* What the resolver would say now is something it said in the call ...
Current == pc \notin Ended => \E h \in held : h.answer = LookupNow(call, keyState)

\* ... and there is a moment whose key state gives the answer the call was given, and no later
\* than a clock at which the message was fresh.
Moment ==
    \E h \in held :
      /\ P.resolving /\ pc \in AfterKey => h.answer = answer
      /\ pc \in AfterFresh => \E now \in h.at..clock : FreshnessRefusal(ParamsOf(M), P, now) = None

HeldInv == Current /\ Moment

LEMMA InitHeld == Init => HeldInv
BY DEF Init, HeldInv, Current, Moment, AfterKey, AfterAlgorithm, AfterBase, AfterServed,
       AfterFresh, AfterDigest

\* Moves of the call that leave the answer and the clock alone stay at the same moment.
LEMMA QuietHeld ==
  ASSUME HeldInv, UNCHANGED <<call, answer, clock, keyState, held>>,
         P.resolving /\ pc' \in AfterKey => pc \in AfterKey,
         pc' \in AfterFresh => pc \in AfterFresh, pc' \notin Ended => pc \notin Ended
  PROVE  HeldInv'
<1>1. Current'
  BY DEF HeldInv, Current
<1>2. PICK h \in held :
        /\ P.resolving /\ pc \in AfterKey => h.answer = answer
        /\ pc \in AfterFresh => \E now \in h.at..clock : FreshnessRefusal(ParamsOf(M), P, now) = None
  BY DEF HeldInv, Moment
<1>3. h \in held' /\ (P' = P) /\ (M' = M) /\ answer' = answer /\ clock' = clock
  BY DEF P, M
<1>4. Moment'
  BY <1>2, <1>3 DEF Moment
<1>5. QED
  BY <1>1, <1>4 DEF HeldInv

\* A resolver that answers says what a lookup of the keyid says now.
LEMMA AnswersNow ==
  ASSUME CallFixed, P.resolving, CallRefusal(M, P) = None, ReadRefusal(M, P) = None,
         LocalKeyRefusal(ParamsOf(M).keyid, P) = None
  PROVE  LookupNow(call, keyState) = Lookup(keyState, The(ParamsOf(M).keyid))
BY AskedKeyid, CallTyped DEF M, P

\* The moment moves with the call: it is chosen again when the resolver answers, and
\* the clock of the freshness check is one of its clocks.
LEMMA NextHeld == Inv /\ HeldInv /\ [Next]_vars => HeldInv'
<1> SUFFICES ASSUME Inv, HeldInv, [Next]_vars PROVE HeldInv'
  OBVIOUS
<1>0. TypeOK /\ Past /\ CallFixed
  BY DEF Inv
<1>1. ASSUME NEW from \in Stages, NEW to, NEW refusal, Check(from, refusal, to), Quiet,
             from \notin Ended,
             P.resolving /\ to \in AfterKey => from \in AfterKey,
             to \in AfterFresh => from \in AfterFresh
      PROVE  HeldInv'
  BY <1>1, QuietHeld DEF Check, Quiet, Ended, AfterKey, AfterAlgorithm, AfterBase, AfterServed,
                         AfterFresh, AfterDigest
<1>2. CASE CheckCall \/ ReadHeaders \/ CheckCoverage \/ CheckLocalKey
  BY <1>1, <1>2 DEF CheckCall, ReadHeaders, CheckCoverage, CheckLocalKey, Stages, Ended,
                    AfterKey, AfterAlgorithm, AfterBase, AfterServed, AfterFresh, AfterDigest
<1>3. CASE CheckExpectedKeyid
  BY <1>1, <1>3 DEF CheckExpectedKeyid, Stages, Ended,
                    AfterKey, AfterAlgorithm, AfterBase, AfterServed, AfterFresh, AfterDigest
<1>4. CASE CheckAlgorithm \/ VerifySignature \/ CheckAuthority \/ CheckDigests
  BY <1>1, <1>4 DEF CheckAlgorithm, VerifySignature, CheckAuthority, CheckDigests, Stages, Ended,
                    AfterKey, AfterAlgorithm, AfterBase, AfterServed, AfterFresh, AfterDigest
<1>5. CASE AskResolver
  BY <1>5, QuietHeld DEF AskResolver, Ended,
                         AfterKey, AfterAlgorithm, AfterBase, AfterServed, AfterFresh, AfterDigest
<1>6. CASE ResolverAnswers
  <2> DEFINE said == Lookup(keyState, The(ParamsOf(M).keyid))
  <2>1. LookupNow(call, keyState) = said
    BY <1>0, <1>6, AnswersNow DEF ResolverAnswers, Check, Past, AfterExpect, AfterLocal, AfterCover,
                                  AfterRead, AfterCall
  <2>2. PICK h \in held : h.answer = said
    BY <1>6, <2>1 DEF HeldInv, Current, ResolverAnswers, Check, Ended
  <2>3. answer' = said /\ UNCHANGED <<call, clock, keyState, held>>
    BY <1>6 DEF ResolverAnswers, Check
  <2>4. pc' \notin AfterFresh
    BY <1>6 DEF ResolverAnswers, Check, AfterFresh, AfterDigest
  <2>5. Moment'
    BY <2>2, <2>3, <2>4 DEF Moment, M, P
  <2>6. Current'
    BY <1>6, <2>3 DEF HeldInv, Current, ResolverAnswers, Check, Ended
  <2>7. QED
    BY <2>5, <2>6 DEF HeldInv
<1>7. CASE CheckFreshness
  <2>1. UNCHANGED <<call, answer, clock, keyState, held>> /\ pc \in AfterKey /\ pc \notin Ended
    BY <1>7 DEF CheckFreshness, Check, Ended,
                AfterKey, AfterAlgorithm, AfterBase, AfterServed, AfterFresh
  <2>2. PICK h \in held : P.resolving => h.answer = answer
    BY <2>1 DEF HeldInv, Moment
  <2>3. pc' \in AfterFresh => FreshnessRefusal(ParamsOf(M), P, clock) = None
    BY <1>7 DEF CheckFreshness, Check, AfterFresh, AfterDigest
  <2>4. clock \in h.at..clock
    BY <1>0 DEF TypeOK
  <2>5. Moment'
    BY <2>1, <2>2, <2>3, <2>4 DEF Moment, M, P
  <2>6. Current'
    BY <2>1 DEF HeldInv, Current
  <2>7. QED
    BY <2>5, <2>6 DEF HeldInv
<1>8. CASE Tick
  <2>1. UNCHANGED <<call, pc, answer, keyState, held>> /\ clock' = clock + 1
    BY <1>8 DEF Tick, caller
  <2>2. \A h \in held : h.at..clock \subseteq h.at..clock'
    BY <1>0, <2>1 DEF TypeOK
  <2>3. PICK h \in held :
          /\ P.resolving /\ pc \in AfterKey => h.answer = answer
          /\ pc \in AfterFresh => \E now \in h.at..clock : FreshnessRefusal(ParamsOf(M), P, now) = None
    BY DEF HeldInv, Moment
  <2>4. Moment'
    BY <2>1, <2>2, <2>3 DEF Moment, M, P
  <2>5. Current'
    BY <2>1 DEF HeldInv, Current
  <2>6. QED
    BY <2>4, <2>5 DEF HeldInv
<1>9. CASE Rotate
  <2> DEFINE said == LookupNow(call, keyState')
  <2>1. UNCHANGED <<call, pc, answer, clock>>
    BY <1>9 DEF Rotate, caller
  <2>2. held' = IF pc \in Ended \/ \E h \in held : h.answer = said THEN held
                ELSE held \cup {[answer |-> said, at |-> clock]}
    BY <1>9 DEF Rotate
  <2>3. held \subseteq held' /\ (pc \notin Ended => \E h \in held' : h.answer = said)
    <3>1. CASE pc \in Ended \/ \E h \in held : h.answer = said
      BY <2>2, <3>1
    <3>2. CASE ~(pc \in Ended \/ \E h \in held : h.answer = said)
      <4> DEFINE new == [answer |-> said, at |-> clock]
      <4>1. held' = held \cup {new} /\ new.answer = said
        BY <2>2, <3>2
      <4> HIDE DEF new
      <4>2. QED
        BY <4>1
    <3>3. QED
      BY <3>1, <3>2
  <2>4. PICK h \in held :
          /\ P.resolving /\ pc \in AfterKey => h.answer = answer
          /\ pc \in AfterFresh => \E now \in h.at..clock : FreshnessRefusal(ParamsOf(M), P, now) = None
    BY DEF HeldInv, Moment
  <2>5. Moment'
    BY <2>1, <2>3, <2>4 DEF Moment, M, P
  <2>6. Current'
    BY <2>1, <2>3 DEF Current
  <2>7. QED
    BY <2>5, <2>6 DEF HeldInv
<1>10. CASE UNCHANGED vars
  BY <1>10, QuietHeld DEF vars
<1>11. QED
  BY <1>2, <1>3, <1>4, <1>5, <1>6, <1>7, <1>8, <1>9, <1>10 DEF Next, VerifyStep

\* A whole call, made at a moment of this one, would end with this refusal, or with none.
DecidedNow(refusal) ==
    \E h \in held : \E now \in h.at..clock : Refusal(M, P, h.answer, now) = refusal

\* Each stage refuses as the whole call would at some moment of this one.
LEMMA StagesDecide ==
  ASSUME Inv, HeldInv
  PROVE  /\ pc = "call" /\ CallRefusal(M, P) # None => DecidedNow(CallRefusal(M, P))
         /\ pc = "read" /\ ReadRefusal(M, P) # None => DecidedNow(ReadRefusal(M, P))
         /\ pc = "cover" /\ CoverageRefusal(M, P) # None => DecidedNow(CoverageRefusal(M, P))
         /\ pc = "local" /\ LocalKeyRefusal(ParamsOf(M).keyid, P) # None
              => DecidedNow(LocalKeyRefusal(ParamsOf(M).keyid, P))
         /\ pc = "expect" /\ UnexpectedKeyidRefusal(ParamsOf(M).keyid, P) # None
              => DecidedNow(UnexpectedKeyidRefusal(ParamsOf(M).keyid, P))
         /\ pc = "alg" /\ AlgorithmRefusal(ParamsOf(M)) # None => DecidedNow(AlgorithmRefusal(ParamsOf(M)))
         /\ pc = "base" /\ SignatureRefusal(M, KeyOfThisCall) # None
              => DecidedNow(SignatureRefusal(M, KeyOfThisCall))
         /\ pc = "served" /\ AuthorityServedRefusal(M, P) # None => DecidedNow(AuthorityServedRefusal(M, P))
         /\ pc = "fresh" /\ FreshnessRefusal(ParamsOf(M), P, clock) # None
              => DecidedNow(FreshnessRefusal(ParamsOf(M), P, clock))
         /\ pc = "digest" => DecidedNow(DigestRefusal(M))
<1> DEFINE keyid == ParamsOf(M).keyid
           resolved(said) == IF P.resolving THEN ResolvedRefusal(said) ELSE None
<1>1. TypeOK /\ Past
  BY DEF Inv
<1>2. PICK h \in held :
        /\ P.resolving /\ pc \in AfterKey => h.answer = answer
        /\ pc \in AfterFresh => \E now \in h.at..clock : FreshnessRefusal(ParamsOf(M), P, now) = None
  BY DEF HeldInv, Moment
<1>3. clock \in h.at..clock
  BY <1>1 DEF TypeOK
<1>4. ASSUME NEW refusal, NEW now \in h.at..clock, Refusal(M, P, h.answer, now) = refusal
      PROVE  DecidedNow(refusal)
  BY <1>4 DEF DecidedNow
<1>5. pc \in AfterKey => /\ KeyFor(keyid, P, h.answer) = KeyOfThisCall
                         /\ resolved(h.answer) = None
  BY <1>1, <1>2 DEF KeyFor, KeyOfThisCall, Past, KeySettled
<1>6. CASE pc \in {"call", "read", "cover", "local", "expect"}
  BY <1>1, <1>3, <1>4, <1>6
     DEF Past, Refusal, KeyStageRefusal, ??, AfterCall, AfterRead, AfterCover, AfterLocal, AfterExpect
<1>7. CASE pc \in {"alg", "base", "served", "fresh"}
  BY <1>1, <1>3, <1>4, <1>5, <1>7
     DEF Past, Refusal, KeyStageRefusal, ??, AfterCall, AfterRead, AfterCover, AfterLocal, AfterExpect,
         AfterKey, AfterAlgorithm, AfterBase, AfterServed, KeySettled, Verified
<1>8. CASE pc = "digest"
  BY <1>1, <1>2, <1>4, <1>5, <1>8
     DEF Past, Refusal, KeyStageRefusal, ??, AfterCall, AfterRead, AfterCover, AfterLocal, AfterExpect,
         AfterKey, AfterAlgorithm, AfterBase, AfterServed, AfterFresh, KeySettled, Verified
<1>9. CASE pc \notin {"call", "read", "cover", "local", "expect", "alg", "base", "served", "fresh", "digest"}
  BY <1>9
<1>10. QED
  BY <1>6, <1>7, <1>8, <1>9

\* A stage that ends the call is section 9's one step, and one that does not is none of its.
LEMMA CheckDecides ==
  ASSUME \A c \in Calls : Undisputed(c), Inv, pc \notin Ended,
         NEW from, NEW to, NEW refusal, Check(from, refusal, to),
         refusal # None => DecidedNow(refusal),
         to = "accepted" => DecidedNow(refusal)
  PROVE  [S9!Next]_<<call, CodeOf(outcome), clock, held>>
<1>0. TypeOK /\ CallFixed /\ outcome = None /\ TypedCall(call) /\ Undisputed(call)
  BY CallTyped DEF Inv, Past, CallFixed
<1>1. UNCHANGED <<call, clock, held>>
  BY DEF Check
<1>2. CASE refusal = None /\ to # "accepted"
  BY <1>0, <1>1, <1>2 DEF Check
<1>3. CASE refusal # None \/ to = "accepted"
  <2>1. outcome' = IF refusal = None THEN "accepted" ELSE refusal
    BY <1>3 DEF Check
  <2>2. PICK h \in held : \E now \in h.at..clock : Refusal(M, P, h.answer, now) = refusal
    BY <1>3 DEF DecidedNow
  <2>3. PICK now \in h.at..clock : Refusal(M, P, h.answer, now) = refusal
    BY <2>2
  <2>4. h.answer \in Answers /\ now \in Int
    BY <1>0, <2>2, <2>3 DEF TypeOK
  <2>5. Code(M, P, h.answer, now) = IF refusal = None THEN "accepted" ELSE CodeOf(refusal)
    BY <1>0, <2>3, <2>4, OneCorrectCode DEF M, P
  <2>6. CodeOf(outcome') = Code(M, P, h.answer, now)
    BY <2>1, <2>5, NoCodeYet
  <2>7. CodeOf(outcome) = None
    BY <1>0, NoCodeYet
  <2>8. S9!Decide
    BY <1>1, <2>2, <2>3, <2>6, <2>7 DEF S9!Decide, M, P
  <2>9. QED
    BY <2>8 DEF S9!Next
<1>4. QED
  BY <1>2, <1>3

\* What the resolver answers is what a lookup says now, so a call it ends is decided now.
LEMMA AnswerDecides ==
  ASSUME Inv, HeldInv, ResolverAnswers,
         ResolvedRefusal(Lookup(keyState, The(ParamsOf(M).keyid))) # None
  PROVE  DecidedNow(ResolvedRefusal(Lookup(keyState, The(ParamsOf(M).keyid))))
<1> DEFINE said == Lookup(keyState, The(ParamsOf(M).keyid))
<1>1. pc = "wait" /\ TypeOK /\ Past /\ CallFixed
  BY DEF ResolverAnswers, Check, Inv
<1>2. /\ CallRefusal(M, P) = None /\ ReadRefusal(M, P) = None /\ CoverageRefusal(M, P) = None
      /\ LocalKeyRefusal(ParamsOf(M).keyid, P) = None
      /\ UnexpectedKeyidRefusal(ParamsOf(M).keyid, P) = None
      /\ P.resolving
  BY <1>1 DEF Past, AfterCall, AfterRead, AfterCover, AfterLocal, AfterExpect
<1>3. LookupNow(call, keyState) = said
  BY <1>1, <1>2, AnswersNow
<1>4. PICK h \in held : h.answer = said
  BY <1>1, <1>3 DEF HeldInv, Current, Ended
<1>5. clock \in h.at..clock
  BY <1>1 DEF TypeOK
<1> HIDE DEF said
<1>6. Refusal(M, P, said, clock) = ResolvedRefusal(said)
  BY <1>2 DEF Refusal, KeyStageRefusal, ??, said
<1>7. QED
  BY <1>4, <1>5, <1>6 DEF DecidedNow, said

\* Every step of the call is section 9's one step, or none of its, and the clock and the
\* key state move as they do there.
LEMMA StepsDecide ==
  ASSUME \A c \in Calls : Undisputed(c), Inv, HeldInv, [Next]_vars
  PROVE  [S9!Next]_<<call, CodeOf(outcome), clock, held>>
<1> DEFINE Abstractly == [S9!Next]_<<call, CodeOf(outcome), clock, held>>
<1>1. ASSUME NEW from, from \notin Ended, NEW to, NEW refusal, Check(from, refusal, to),
             refusal # None => DecidedNow(refusal),
             to = "accepted" => DecidedNow(refusal)
      PROVE  Abstractly
  <2>1. pc \notin Ended
    BY <1>1 DEF Check
  <2>2. QED
    BY <1>1, <2>1, CheckDecides
<1>2. CASE CheckCall
  BY <1>1, <1>2, StagesDecide DEF CheckCall, Check, Ended
<1>3. CASE ReadHeaders
  BY <1>1, <1>3, StagesDecide DEF ReadHeaders, Check, Ended
<1>4. CASE CheckCoverage
  BY <1>1, <1>4, StagesDecide DEF CheckCoverage, Check, Ended
<1>5. CASE CheckLocalKey
  BY <1>1, <1>5, StagesDecide DEF CheckLocalKey, Check, Ended
<1>6. CASE CheckExpectedKeyid
  BY <1>1, <1>6, StagesDecide DEF CheckExpectedKeyid, Check, Ended
<1>7. CASE CheckAlgorithm
  BY <1>1, <1>7, StagesDecide DEF CheckAlgorithm, Check, Ended
<1>8. CASE VerifySignature
  BY <1>1, <1>8, StagesDecide DEF VerifySignature, KeyOfThisCall, Check, Ended
<1>9. CASE CheckAuthority
  BY <1>1, <1>9, StagesDecide DEF CheckAuthority, Check, Ended
<1>10. CASE CheckFreshness
  BY <1>1, <1>10, StagesDecide DEF CheckFreshness, Check, Ended
<1>11. CASE CheckDigests
  BY <1>1, <1>11, StagesDecide DEF CheckDigests, Check, Ended
<1>12. CASE ResolverAnswers
  BY <1>1, <1>12, AnswerDecides DEF ResolverAnswers, Ended
<1>13. CASE AskResolver
  BY <1>13 DEF AskResolver
<1>14. CASE Tick
  <2>1. S9!Tick
    BY <1>14 DEF Tick, caller, S9!Tick
  <2>2. QED
    BY <2>1 DEF S9!Next
<1>15. CASE Rotate
  <2>1. S9!Rotate
    BY <1>15 DEF Rotate, caller, S9!Rotate
  <2>2. QED
    BY <2>1 DEF S9!Next
<1>16. CASE UNCHANGED vars
  BY <1>16 DEF vars
<1>17. QED
  BY <1>2, <1>3, <1>4, <1>5, <1>6, <1>7, <1>8, <1>9, <1>10, <1>11, <1>12, <1>13, <1>14, <1>15, <1>16
     DEF Next, VerifyStep

\* Whatever the calls, the keys and the interleaving, a verification decides what section 9
\* says of its message, once, for a key state and a clock of the call, where section 9 and
\* the code name the same refusal.
THEOREM VerifierImplementsSection9 ==
  ASSUME \A c \in Calls : Undisputed(c)
  PROVE  Spec => ImplementsSection9
<1>1. Init => S9!Begin
  BY NoCodeYet DEF Init, S9!Begin
<1>2. Inv /\ HeldInv /\ [Next]_vars => [S9!Next]_<<call, CodeOf(outcome), clock, held>>
  BY StepsDecide
<1>3. Spec => [](Inv /\ HeldInv)
  BY InitInv, NextInv, InitHeld, NextHeld, PTL DEF Spec
<1>4. QED
  BY <1>1, <1>2, <1>3, PTL DEF Spec, ImplementsSection9, S9!Spec

===============================================================================
