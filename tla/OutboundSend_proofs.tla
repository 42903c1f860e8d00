------------------------ MODULE OutboundSend_proofs ------------------------
(***************************************************************************)
(* Proofs about OutboundSend and the kinds of parts, for any requests,     *)
(* keys, contents, delays and fault budget.                                *)
(***************************************************************************)
EXTENDS OutboundSend, FiniteSetTheorems, TLAPS

----------------------------------------------------------------------------
(* The kind of a part *)

\* What is sent inline goes out as the medium its bytes are, whatever name and type the caller
\* gave it, when they have a signature the code looks for and are no picture in an ISO container.
LEMMA InlineIsShown ==
    ASSUME NEW p, KindOf(p) = "inline", p.format \in (Signed \cup IsoMedia) \ IsoPictures
    PROVE  p.format \in FormatsOf(verifiedMimetype(p))
<1>1. verifiedMimetype(p) \in INLINE_MIMETYPES
  BY DEF KindOf, canSendInline
<1>2. CASE p.format \in PictureFormats
  <2>1. verifiedMimetype(p) \in {"image/jpeg", "image/png", "image/webp"}
    BY <1>2 DEF PictureFormats, IsoMedia, verifiedMimetype, sniffMimetype, None
  <2> QED
    BY <1>2, <2>1 DEF FormatsOf
<1>3. CASE p.format \in VideoFormats
  <2>1. sniffMimetype(p.format) = sniffIsoMedia(p.format)
    BY <1>3 DEF VideoFormats, IsoMedia, sniffMimetype
  <2>2. verifiedMimetype(p) \in {"video/mp4", "video/3gpp", "video/quicktime"}
    BY <1>3, <2>1 DEF VideoFormats, sniffIsoMedia, verifiedMimetype, None
  <2> QED
    BY <1>3, <2>2 DEF FormatsOf
<1>4. CASE p.format \in SoundFormats
  <2>1. verifiedMimetype(p) \in {"audio/wav", "audio/ogg", "audio/mpeg", "audio/mp4"}
    BY <1>4 DEF SoundFormats, IsoMedia, verifiedMimetype, sniffMimetype, sniffIsoMedia, None
  <2> QED
    BY <1>4, <2>1 DEF FormatsOf
<1>5. CASE p.format \in {"gif", "bmp", "matroska", "pdf", "zip", "html"}
  <2>1. verifiedMimetype(p) = Other
    BY <1>5 DEF verifiedMimetype, sniffMimetype, IsoMedia, None, Other
  <2> QED
    BY <1>1, <2>1 DEF Other, INLINE_MIMETYPES
<1> QED
  BY <1>2, <1>3, <1>4, <1>5
  DEF Signed, IsoMedia, IsoPictures, PictureFormats, VideoFormats, SoundFormats

\* A file in the HEIC format goes out inline, as a video/mp4, whatever its name and its caller
\* say, unless it is turned away: sniffIsoMedia takes every brand it does not know for a video.
\* ("Anything else - a GIF, a HEIC, an MKV - ... so we do not even try those inline.")
THEOREM HeicGoesInline ==
    ASSUME NEW p \in Part, p.from # "text", p.format = "heic", ~BadFile(p)
    PROVE  verifiedMimetype(p) = "video/mp4" /\ KindOf(p) = "inline"
<1>1. sniffMimetype(p.format) = "video/mp4"
  BY DEF sniffMimetype, sniffIsoMedia, IsoMedia
<1>2. verifiedMimetype(p) = "video/mp4"
  BY <1>1 DEF verifiedMimetype, None
<1> QED
  BY <1>2 DEF KindOf, canSendInline, INLINE_MIMETYPES

----------------------------------------------------------------------------
(* Types *)

USE DEF vars, storeVars, sendVars

\* Only a keyed request claims; without that TypeOK would not be inductive, since what is claimed
\* is a key. The clock starts at 1, since a completion at 0 would be none.
KeyedClaims == \A r \in Requests : pc[r] = "claiming" => Keyed(r)
TypeInv == TypeOK /\ KeyedClaims /\ now > 0

\* Dropping what expired leaves a record.
LEMMA PrunedType ==
    ASSUME NEW record \in [Keys -> Nat]
    PROVE  Pruned(record) \in [Keys -> Nat]
  BY DEF Pruned

LEMMA TypeInit == Init => TypeInv
<1>1. SUFFICES ASSUME Init PROVE TypeInv
  OBVIOUS
<1>2. \A r \in Requests : delivered[r] \in [DOMAIN Content[r] -> 0 .. 3]
  BY <1>1 DEF Init
<1>3. pc \in [Requests -> Stages] /\ \A r \in Requests : pc[r] # "claiming"
  BY <1>1 DEF Init, Stages
<1>4. /\ part \in [Requests -> Nat] /\ wakeAt \in [Requests -> Int]
      /\ reply \in [Requests -> Replies] /\ DOMAIN delivered = Requests
      /\ misread \subseteq Requests \X Nat
  BY <1>1 DEF Init, Replies
<1>5. completed \in [Keys -> Nat] /\ snap \in [Keys -> Nat] /\ disk \in [Keys -> Nat]
  BY <1>1 DEF Init, NoRecord
<1> QED
  <2>1. lastSentAt \in Int /\ now \in Nat /\ now > 0 /\ faults \in Nat /\ queued \in Nat
    BY <1>1, TimesAssumption DEF Init
  <2> QED
    BY <1>1, <1>2, <1>3, <1>4, <1>5, <2>1 DEF Init, TypeInv, TypeOK, KeyedClaims

\* A fault is counted.
LEMMA FaultType ==
    ASSUME faults \in Nat, Fault
    PROVE  faults' \in Nat
  BY DEF Fault

\* The steps of the store.
LEMMA TypeStore ==
    ASSUME TypeOK, load \/ PersistStart \/ PersistDone \/ PersistFails
    PROVE  TypeOK'
<1>1. CASE load
  BY <1>1, PrunedType, FaultType DEF TypeOK, load, ReadFailed
<1>2. CASE PersistStart
  BY <1>2 DEF TypeOK, PersistStart, NextWrite
<1>3. CASE PersistDone
  BY <1>3 DEF TypeOK, PersistDone, NoRecord
<1>4. CASE PersistFails
  BY <1>4, FaultType DEF TypeOK, PersistFails, NoRecord
<1> QED
  BY <1>1, <1>2, <1>3, <1>4

\* The steps of the environment.
LEMMA TypeEnvironment ==
    ASSUME TypeOK, Tick \/ SessionReady \/ SessionLost \/ Crash \/ Restart
    PROVE  TypeOK'
<1>1. CASE Tick
  BY <1>1, TimesAssumption DEF TypeOK, Tick
<1>2. CASE SessionReady
  BY <1>2 DEF TypeOK, SessionReady
<1>3. CASE SessionLost
  BY <1>3, FaultType DEF TypeOK, SessionLost
<1>4. CASE Crash
  <2>1. /\ pc' \in [Requests -> Stages] /\ reply' \in [Requests -> Replies]
        /\ wakeAt' \in [Requests -> Int]
    BY <1>4 DEF TypeOK, Crash, Stages, Replies
  <2>2. DOMAIN delivered' = Requests
        /\ \A r \in Requests : delivered'[r] \in [DOMAIN Content[r] -> 0 .. 3]
    <3>1. PICK late \in SUBSET Requests :
             delivered' = [q \in Requests |->
                 IF q \in late
                 THEN [delivered[q] EXCEPT ![part[q]] = OneMore(@)]
                 ELSE delivered[q]]
      BY <1>4 DEF Crash
    <3>2. ASSUME NEW q \in Requests
          PROVE  [delivered[q] EXCEPT ![part[q]] = OneMore(@)]
                     \in [DOMAIN Content[q] -> 0 .. 3]
      <4>1. delivered[q] \in [DOMAIN Content[q] -> 0 .. 3]
        BY DEF TypeOK
      <4>2. \A n \in 0 .. 3 : OneMore(n) \in 0 .. 3
        BY DEF OneMore
      <4>3. \A i \in DOMAIN Content[q] : delivered[q][i] \in 0 .. 3
        BY <4>1
      <4> DEFINE f == delivered[q]
                 D == DOMAIN Content[q]
      <4>4. [f EXCEPT ![part[q]] = OneMore(@)] =
               [i \in D |-> IF i = part[q] THEN OneMore(f[i]) ELSE f[i]]
        BY <4>1
      <4> QED
        BY <4>2, <4>3, <4>4
    <3> QED
      BY <3>1, <3>2 DEF TypeOK
  <2>3. completed' \in [Keys -> Nat] /\ snap' \in [Keys -> Nat]
    BY <1>4 DEF Crash, NoRecord
  <2> QED
    <3>1. lastSentAt' \in Int /\ faults' \in Nat /\ queued' \in Nat
      BY <1>4, FaultType, TimesAssumption DEF TypeOK, Crash
    <3> QED
      BY <1>4, <2>1, <2>2, <2>3, <3>1 DEF TypeOK, Crash
<1>5. CASE Restart
  BY <1>5 DEF TypeOK, Restart
<1> QED
  BY <1>1, <1>2, <1>3, <1>4, <1>5

\* What a send leaves behind when it ends, either way.
LEMMA TypeEnd ==
    ASSUME TypeOK, NEW r \in Requests, Fail(r) \/ Succeed(r)
    PROVE  /\ pc' \in [Requests -> Stages] /\ reply' \in [Requests -> Replies]
           /\ loaded' \in {"no", "reading", "yes"} /\ inFlight' \subseteq Keys
           /\ queued' \in Nat /\ writing' \in BOOLEAN
           /\ completed' \in [Keys -> Nat]
           /\ snap' \in [Keys -> Nat] /\ disk' \in [Keys -> Nat]
<1>1. CASE Fail(r)
  BY <1>1 DEF TypeOK, Fail, release, Answer, Goto, Stages, Replies
<1>2. CASE Succeed(r)
  BY <1>2 DEF TypeOK, Succeed, complete, Answer, Goto, Stages, Replies
<1> QED
  BY <1>1, <1>2

\* A part that arrives keeps the counts within 0 .. 3.
LEMMA TypeDelivers ==
    ASSUME TypeOK, NEW r \in Requests, Delivers(r) \/ UNCHANGED delivered
    PROVE  /\ DOMAIN delivered' = Requests
           /\ \A q \in Requests : delivered'[q] \in [DOMAIN Content[q] -> 0 .. 3]
<1>1. \A n \in 0 .. 3 : OneMore(n) \in 0 .. 3
  BY DEF OneMore
<1> QED
  BY <1>1 DEF TypeOK, Delivers

\* An error that is taken for a refusal keeps the types, too.
LEMMA TypeRefusal ==
    ASSUME TypeOK, NEW r \in Requests, TakenForRefusal(r)
    PROVE  /\ pc' \in [Requests -> Stages] /\ reply' \in [Requests -> Replies]
           /\ loaded' \in {"no", "reading", "yes"} /\ inFlight' \subseteq Keys
           /\ queued' \in Nat /\ writing' \in BOOLEAN
           /\ completed' \in [Keys -> Nat]
           /\ snap' \in [Keys -> Nat] /\ disk' \in [Keys -> Nat]
<1>1. CASE Fail(r)
  BY <1>1, TypeEnd
<1>2. CASE Goto(r, "asDocument") /\ UNCHANGED <<reply, storeVars>>
  BY <1>2 DEF TypeOK, Goto, Stages, InSend, Sending
<1> QED
  BY <1>1, <1>2 DEF TakenForRefusal

\* The steps of a call and of its claim.
LEMMA TypeCall ==
    ASSUME TypeInv, NEW r \in Requests, CallKeyless(r) \/ CallKeyed(r) \/ Claim(r)
    PROVE  TypeOK'
<1> TypeOK
  BY DEF TypeInv
<1>1. CASE CallKeyless(r)
  BY <1>1 DEF TypeOK, CallKeyless, Resolve, Answer, Goto, Stages, Replies, InSend, Resolving
<1>2. CASE CallKeyed(r)
  BY <1>2 DEF TypeOK, CallKeyed, Goto, Stages
<1>3. CASE Claim(r)
  <2>1. completed' \in [Keys -> Nat]
    BY <1>3, PrunedType DEF TypeOK, Claim, claim
  <2>2. pc' \in [Requests -> Stages] /\ reply' \in [Requests -> Replies]
    <3>1. \/ \E s \in {"chatList", "number"} : Goto(r, s) /\ UNCHANGED reply
          \/ \E a \in {"replayed", "busy", "failed"} : Answer(r, a)
      BY <1>3 DEF Claim, claim, Resolve
    <3> QED
      BY <3>1 DEF TypeOK, Answer, Goto, Stages, Replies, InSend, Resolving
  <2>3. inFlight' \subseteq Keys
    <3>1. KeyOf[r] \in Keys
      BY <1>3, RequestsAssumption DEF TypeInv, KeyedClaims, Keyed, Claim
    <3> QED
      BY <1>3, <3>1 DEF TypeOK, Claim, claim
  <2> QED
    BY <1>3, <2>1, <2>2, <2>3 DEF TypeOK, Claim
<1> QED
  BY <1>1, <1>2, <1>3

\* The steps of the send path.
LEMMA TypeSend ==
    ASSUME TypeOK, NEW r \in Requests,
           \/ ChatListed(r) \/ NumberResolved(r) \/ ResolveFails(r) \/ NumberFrameError(r)
           \/ BadAttachment(r) \/ Throttle(r) \/ Wake(r)
           \/ PartSent(r) \/ Refused(r) \/ CutOff(r) \/ SendFrameError(r)
    PROVE  TypeOK'
<1> USE DEF Goto
<1>1. CASE ChatListed(r) \/ NumberResolved(r)
  BY <1>1 DEF TypeOK, ChatListed, NumberResolved, Stages, InSend, Resolving
<1>2. CASE ResolveFails(r) \/ BadAttachment(r)
  <2>1. Fail(r)
    BY <1>2 DEF ResolveFails, BadAttachment
  <2> QED
    BY <1>2, <2>1, TypeEnd DEF TypeOK, ResolveFails, BadAttachment
<1>3. CASE NumberFrameError(r)
  <2>1. CASE Fail(r) /\ ready' = FALSE
    BY <1>3, <2>1, TypeEnd, FaultType DEF TypeOK, NumberFrameError
  <2>2. CASE Goto(r, "numberAgain") /\ UNCHANGED <<ready, reply, storeVars>>
    BY <1>3, <2>2, FaultType DEF TypeOK, NumberFrameError, Stages, InSend, Resolving
  <2> QED
    BY <1>3, <2>1, <2>2 DEF NumberFrameError
<1>4. CASE Throttle(r)
  <2>1. pc' \in [Requests -> Stages] /\ wakeAt' \in [Requests -> Int] /\ lastSentAt' \in Int
    BY <1>4, TimesAssumption DEF TypeOK, Throttle, SendPart, Stages, InSend, Sending
  <2> QED
    BY <1>4, <2>1 DEF TypeOK, Throttle
<1>5. CASE Wake(r)
  <2>1. pc' \in [Requests -> Stages] /\ wakeAt' \in [Requests -> Int] /\ lastSentAt' \in Int
    BY <1>5 DEF TypeOK, Wake, SendPart, Stages, InSend, Sending
  <2> QED
    BY <1>5, <2>1 DEF TypeOK, Wake
<1>6. CASE PartSent(r)
  <2>1. /\ DOMAIN delivered' = Requests
        /\ \A q \in Requests : delivered'[q] \in [DOMAIN Content[q] -> 0 .. 3]
    BY <1>6, TypeDelivers DEF PartSent
  <2>2. CASE LastPart(r)
    <3>1. Succeed(r) /\ UNCHANGED part
      BY <1>6, <2>2 DEF PartSent
    <3> QED
      BY <1>6, <2>1, <3>1, TypeEnd DEF TypeOK, PartSent
  <2>3. CASE ~LastPart(r)
    <3>1. part' \in [Requests -> Nat] /\ pc' \in [Requests -> Stages]
      BY <1>6, <2>3 DEF TypeOK, PartSent, Stages, InSend
    <3> QED
      BY <1>6, <2>1, <2>3, <3>1 DEF TypeOK, PartSent
  <2> QED
    BY <2>2, <2>3
<1>7. CASE Refused(r)
  <2>1. TakenForRefusal(r)
    BY <1>7 DEF Refused
  <2> QED
    BY <1>7, <2>1, TypeRefusal DEF TypeOK, Refused
<1>8. CASE SendFrameError(r)
  <2>1. /\ DOMAIN delivered' = Requests
        /\ \A q \in Requests : delivered'[q] \in [DOMAIN Content[q] -> 0 .. 3]
    BY <1>8, TypeDelivers DEF SendFrameError
  <2>2. Fail(r) /\ ready' = FALSE
    BY <1>8 DEF SendFrameError, FrameErrorEnds
  <2> QED
    BY <1>8, <2>1, <2>2, TypeEnd, FaultType DEF TypeOK, SendFrameError
<1>9. CASE CutOff(r)
  <2>1. /\ DOMAIN delivered' = Requests
        /\ \A q \in Requests : delivered'[q] \in [DOMAIN Content[q] -> 0 .. 3]
    BY <1>9, TypeDelivers DEF CutOff
  <2>2. TakenForRefusal(r)
    BY <1>9 DEF CutOff
  <2>3. misread' \subseteq Requests \X Nat
    BY <1>9 DEF TypeOK, CutOff
  <2> QED
    BY <1>9, <2>1, <2>2, <2>3, TypeRefusal, FaultType DEF TypeOK, CutOff
<1> QED
  BY <1>1, <1>2, <1>3, <1>4, <1>5, <1>6, <1>7, <1>8, <1>9

\* Only CallKeyed makes a request a claimant.
LEMMA KeyedClaimsStep ==
    ASSUME TypeOK, KeyedClaims, Next
    PROVE  KeyedClaims'
<1> SUFFICES ASSUME NEW q \in Requests, pc'[q] = "claiming", pc[q] # "claiming" PROVE Keyed(q)
  BY DEF KeyedClaims, Keyed
<1> USE DEF TypeOK, Goto, Answer
<1>1. ASSUME NEW r \in Requests, CallKeyless(r) \/ CallKeyed(r) \/ Claim(r) PROVE Keyed(q)
  BY <1>1 DEF CallKeyless, CallKeyed, Claim, claim, Resolve
<1>2. ASSUME NEW r \in Requests,
             ChatListed(r) \/ NumberResolved(r) \/ ResolveFails(r) \/ NumberFrameError(r)
      PROVE  FALSE
  BY <1>2 DEF ChatListed, NumberResolved, ResolveFails, NumberFrameError, Fail
<1>3. ASSUME NEW r \in Requests, BadAttachment(r) \/ Throttle(r) \/ Wake(r) PROVE FALSE
  BY <1>3 DEF BadAttachment, Throttle, Wake, SendPart, Fail
<1>4. ASSUME NEW r \in Requests, PartSent(r) \/ Refused(r) \/ CutOff(r) \/ SendFrameError(r)
      PROVE  FALSE
  BY <1>4
  DEF PartSent, Refused, CutOff, TakenForRefusal, SendFrameError, FrameErrorEnds, Fail, Succeed
<1>5. CASE Crash
  BY <1>5 DEF Crash
<1>6. CASE UNCHANGED pc
  BY <1>6
<1> QED
  BY <1>1, <1>2, <1>3, <1>4, <1>5, <1>6
  DEF Next, RequestStep, load, PersistStart, PersistDone, PersistFails, Tick, SessionReady,
      SessionLost, Restart

LEMMA ClockStep ==
    ASSUME now \in Nat, now > 0, Next
    PROVE  now' > 0
<1>1. CASE Tick
  BY <1>1 DEF Tick
<1>2. CASE UNCHANGED now
  BY <1>2
<1>3. ASSUME NEW r \in Requests, CallKeyless(r) \/ CallKeyed(r) \/ RequestStep(r)
      PROVE  UNCHANGED now
  BY <1>3
  DEF CallKeyless, CallKeyed, RequestStep, Claim, ChatListed, NumberResolved, ResolveFails,
      NumberFrameError, BadAttachment, Throttle, Wake, PartSent, Refused, CutOff, SendFrameError
<1> QED
  BY <1>1, <1>2, <1>3
  DEF Next, load, PersistStart, PersistDone, PersistFails, SessionReady, SessionLost, Crash, Restart

LEMMA TypeStep == TypeInv /\ [Next]_vars => TypeInv'
<1> SUFFICES ASSUME TypeInv, [Next]_vars PROVE TypeInv'
  OBVIOUS
<1>1. CASE Next
  <2>1. TypeOK'
    BY <1>1, TypeStore, TypeEnvironment, TypeCall, TypeSend DEF Next, RequestStep, TypeInv
  <2>2. now' > 0
    BY <1>1, ClockStep DEF TypeInv, TypeOK
  <2> QED
    BY <1>1, <2>1, <2>2, KeyedClaimsStep DEF TypeInv
<1>2. CASE UNCHANGED vars
  BY <1>2 DEF TypeInv, TypeOK, KeyedClaims, Keyed
<1> QED
  BY <1>1, <1>2

\* Every reachable state of the send path and its store is well typed, whatever fails.
THEOREM TypeCorrect == Spec => []TypeOK
<1>1. TypeInv => TypeOK
  BY DEF TypeInv
<1> QED
  BY <1>1, TypeInit, TypeStep, PTL DEF Spec
----------------------------------------------------------------------------
(* One request at a time *)

RequestAction(r) == CallKeyless(r) \/ CallKeyed(r) \/ RequestStep(r)

\* A step of one request leaves the others where they are.
LEMMA OthersUntouched ==
    ASSUME TypeOK, NEW r \in Requests, RequestAction(r), NEW q \in Requests \ {r}
    PROVE  /\ pc'[q] = pc[q] /\ part'[q] = part[q]
           /\ reply'[q] = reply[q] /\ delivered'[q] = delivered[q]
           /\ \A i : <<q, i>> \in misread' <=> <<q, i>> \in misread
<1> USE DEF TypeOK, Goto, Answer
<1>1. CASE CallKeyless(r) \/ CallKeyed(r) \/ Claim(r)
  BY <1>1 DEF CallKeyless, CallKeyed, Claim, claim, Resolve
<1>2. CASE ChatListed(r) \/ NumberResolved(r) \/ ResolveFails(r) \/ NumberFrameError(r)
  BY <1>2 DEF ChatListed, NumberResolved, ResolveFails, NumberFrameError, Fail
<1>3. CASE BadAttachment(r) \/ Throttle(r) \/ Wake(r)
  BY <1>3 DEF BadAttachment, Throttle, Wake, SendPart, Fail
<1>4. CASE PartSent(r)
  BY <1>4 DEF PartSent, Succeed, Delivers
<1>5. CASE Refused(r)
  BY <1>5 DEF Refused, TakenForRefusal, Fail
<1>6. CASE SendFrameError(r)
  BY <1>6 DEF SendFrameError, FrameErrorEnds, Fail, Delivers
<1>7. CASE CutOff(r)
  <2>1. pc'[q] = pc[q] /\ part'[q] = part[q] /\ reply'[q] = reply[q]
    BY <1>7 DEF CutOff, TakenForRefusal, Fail
  <2>2. delivered'[q] = delivered[q]
    BY <1>7 DEF CutOff, Delivers
  <2>3. \A i : <<q, i>> \in misread' <=> <<q, i>> \in misread
    BY <1>7 DEF CutOff
  <2> QED
    BY <2>1, <2>2, <2>3
<1> QED
  BY <1>1, <1>2, <1>3, <1>4, <1>5, <1>6, <1>7 DEF RequestAction, RequestStep

\* The steps that are no request's leave all of them where they are, but for a crash.
LEMMA NoRequestMoves ==
    ASSUME Next, ~Crash, ~\E r \in Requests : RequestAction(r)
    PROVE  UNCHANGED <<pc, part, reply, delivered, misread>>
  BY DEF Next, RequestAction, load, PersistStart, PersistDone, PersistFails, Tick, SessionReady,
         SessionLost, Restart

\* What a step of r does to r, as far as the invariants below tell its steps apart.
Begins(r) ==
    /\ pc[r] \in {"new", "claiming"}
    /\ pc'[r] = "claiming" \/ (pc'[r] \in Resolving /\ Content[r] # <<>>)
    /\ part'[r] = part[r] /\ reply'[r] = reply[r] /\ UNCHANGED misread
    /\ delivered'[r] = delivered[r]
Goes(r) ==
    /\ pc[r] \in InSend \ {"asDocument"} /\ pc'[r] \in InSend
    /\ pc'[r] = "asleep" => Kind(r) # "bad"
    /\ pc'[r] = "inline" => Kind(r) # "document" /\ (Kind(r) # "bad" \/ pc[r] = "asleep")
    /\ part'[r] = part[r] /\ reply'[r] = reply[r] /\ UNCHANGED misread
    /\ delivered'[r] = delivered[r]
SendsAgain(r) ==
    /\ Repeats(r) /\ pc'[r] = "asDocument"
    /\ part'[r] = part[r] /\ reply'[r] = reply[r] /\ misread' = misread \cup {<<r, part[r]>>}
    /\ Delivers(r)
GoesOn(r) ==
    /\ pc[r] \in Sending /\ pc'[r] = "next"
    /\ ~LastPart(r) /\ part'[r] = part[r] + 1
    /\ Delivers(r) /\ reply'[r] = reply[r] /\ UNCHANGED misread
IsThrough(r) ==
    /\ pc[r] \in Sending /\ pc'[r] = "ended"
    /\ LastPart(r) /\ part'[r] = part[r]
    /\ Delivers(r) /\ reply'[r] = "sent" /\ UNCHANGED misread
GivesUp(r) ==
    /\ pc[r] # "ended" /\ pc'[r] = "ended"
    /\ part'[r] = part[r] /\ reply'[r] \in {"failed", "busy", "replayed"}
    /\ UNCHANGED misread
    /\ delivered'[r] = delivered[r] \/ (pc[r] \in Sending /\ Delivers(r))

LEMMA RequestMoves ==
    ASSUME TypeOK, NEW r \in Requests, RequestAction(r)
    PROVE  Begins(r) \/ Goes(r) \/ SendsAgain(r) \/ GoesOn(r) \/ IsThrough(r) \/ GivesUp(r)
<1> USE DEF TypeOK, Goto, Answer
<1>1. CASE CallKeyless(r)
  BY <1>1 DEF CallKeyless, Resolve, assertSendable, Begins, GivesUp, Resolving
<1>2. CASE CallKeyed(r)
  BY <1>2 DEF CallKeyed, Begins
<1>3. CASE Claim(r)
  BY <1>3 DEF Claim, claim, Resolve, assertSendable, Begins, GivesUp, Resolving
<1>4. CASE ChatListed(r) \/ NumberResolved(r)
  BY <1>4 DEF ChatListed, NumberResolved, Goes, InSend, Resolving
<1>5. CASE ResolveFails(r) \/ BadAttachment(r)
  BY <1>5 DEF ResolveFails, BadAttachment, Fail, GivesUp, Resolving
<1>6. CASE NumberFrameError(r)
  BY <1>6 DEF NumberFrameError, Fail, Goes, GivesUp, InSend, Resolving
<1>7. CASE Throttle(r)
  BY <1>7 DEF Throttle, SendPart, Goes, InSend, Sending
<1>8. CASE Wake(r)
  BY <1>8 DEF Wake, SendPart, Goes, InSend, Sending
<1>9. CASE PartSent(r)
  BY <1>9 DEF PartSent, Succeed, GoesOn, IsThrough
<1>10. CASE Refused(r)
  BY <1>10 DEF Refused, TakenForRefusal, Repeats, Fail, Goes, GivesUp, InSend, Sending
<1>11. CASE SendFrameError(r)
  BY <1>11 DEF SendFrameError, FrameErrorEnds, Fail, GivesUp, Sending
<1>12. CASE CutOff(r)
  BY <1>12 DEF CutOff, TakenForRefusal, Repeats, Fail, SendsAgain, GivesUp, Sending
<1> QED
  BY <1>1, <1>2, <1>3, <1>4, <1>5, <1>6, <1>7, <1>8, <1>9, <1>10, <1>11, <1>12
  DEF RequestAction, RequestStep

----------------------------------------------------------------------------
(* What goes inline *)

\* A part that sleeps in the throttle is no bad file, and one that is sent inline is a text or
\* a file of that kind: the second is what has to hold, the first is what carries it over the
\* sleep.
KindInv ==
    \A r \in Requests :
        /\ pc[r] = "asleep" => Kind(r) # "bad"
        /\ pc[r] = "inline" => Kind(r) \in {"text", "inline"}

LEMMA KindStep ==
    ASSUME TypeOK, KindInv, [Next]_vars
    PROVE  KindInv'
<1> SUFFICES ASSUME NEW q \in Requests
             PROVE  /\ pc'[q] = "asleep" => Kind(q)' # "bad"
                    /\ pc'[q] = "inline" => Kind(q)' \in {"text", "inline"}
  BY DEF KindInv
<1>1. part'[q] = part[q] => Kind(q)' = Kind(q)
  BY DEF Kind
<1>2. Kind(q) \in {"text", "inline", "document", "bad"}
  BY DEF Kind, KindOf
<1>3. CASE RequestAction(q)
  BY <1>1, <1>2, <1>3, RequestMoves
  DEF KindInv, Begins, Goes, SendsAgain, GoesOn, IsThrough, GivesUp, Resolving
<1>4. ASSUME NEW r \in Requests \ {q}, RequestAction(r)
      PROVE  pc'[q] = pc[q] /\ part'[q] = part[q]
  BY <1>4, OthersUntouched
<1>5. CASE Crash
  <2>1. pc'[q] \in {pc[q], "ended"} /\ part'[q] = part[q]
    BY <1>5 DEF Crash
  <2> QED
    BY <1>1, <2>1 DEF KindInv
<1>6. CASE UNCHANGED <<pc, part>>
  BY <1>1, <1>6 DEF KindInv
<1> QED
  BY <1>1, <1>3, <1>4, <1>5, <1>6, NoRequestMoves DEF KindInv

\* Whatever the names and the callers of the files say, what goes through the page's media
\* decoder goes out as the picture, the video or the sound it is, when its bytes have a signature
\* the code looks for and it is no HEIC or AVIF picture.
THEOREM NothingMislabelledInline == Spec => []NoMislabelledInline
<1>1. Init => KindInv
  BY DEF Init, KindInv
<1>2. TypeInv /\ KindInv /\ [Next]_vars => KindInv'
  BY KindStep DEF TypeInv
<1>3. KindInv => NoMislabelledInline
  BY InlineIsShown DEF KindInv, NoMislabelledInline, Kind
<1> QED
  BY <1>1, <1>2, <1>3, TypeInit, TypeStep, PTL DEF Spec

----------------------------------------------------------------------------
(* What has been delivered *)

\* The copy too many that an inline try leaves which went through under an error.
Extra(r, i) == IF <<r, i>> \in misread THEN 1 ELSE 0

\* How far a request is: until it ends, everything before its next part is in the chat, nothing
\* after it is, and each inline try that was misread adds one copy; the next part can be a
\* misread one only while it is on its way as a document. What was answered "sent" is in the chat
\* whole.
Progress(r) ==
    /\ pc[r] \in InSend => part[r] \in DOMAIN Content[r]
    /\ pc[r] \in {"new", "claiming"} => part[r] = 1
    /\ pc[r] # "ended" =>
        /\ reply[r] = "none"
        /\ \A i \in DOMAIN Content[r] :
              delivered[r][i] = (IF i < part[r] THEN 1 ELSE 0) + Extra(r, i)
    /\ \A i \in DOMAIN Content[r] : delivered[r][i] <= 1 + Extra(r, i)
    /\ \A i \in DOMAIN Content[r] : <<r, i>> \in misread =>
        /\ KindOf(Content[r][i]) = "inline" /\ i <= part[r]
        /\ i = part[r] => pc[r] \in {"asDocument", "ended"}
    /\ reply[r] = "sent" => \A i \in DOMAIN Content[r] : delivered[r][i] > 0
ProgressInv == \A r \in Requests : Progress(r)

\* The parts of a request are numbered from 1.
LEMMA PartsOf ==
    ASSUME NEW r \in Requests
    PROVE  /\ Len(Content[r]) \in Nat
           /\ DOMAIN Content[r] = 1 .. Len(Content[r])
           /\ Content[r] # <<>> => 1 \in DOMAIN Content[r]
<1>1. Content[r] \in Seq(Part)
  BY RequestsAssumption
<1> QED
  BY <1>1

\* A delivery adds one copy of the part that was next.
LEMMA OneMoreCopy ==
    ASSUME TypeOK, NEW r \in Requests, Progress(r), pc[r] \in Sending,
           delivered'[r] = [delivered[r] EXCEPT ![part[r]] = OneMore(@)]
    PROVE  \A i \in DOMAIN Content[r] :
               delivered'[r][i] = (IF i < part[r] + 1 THEN 1 ELSE 0) + Extra(r, i)
<1>1. /\ delivered[r] \in [DOMAIN Content[r] -> 0 .. 3]
      /\ part[r] \in DOMAIN Content[r] /\ part[r] \in Nat
      /\ \A i \in DOMAIN Content[r] :
            delivered[r][i] = (IF i < part[r] THEN 1 ELSE 0) + Extra(r, i)
  BY DEF TypeOK, Progress, InSend, Sending
<1>2. \A i \in DOMAIN Content[r] : i \in Nat /\ Extra(r, i) \in {0, 1}
  BY PartsOf DEF Extra
<1>3. delivered[r][part[r]] = Extra(r, part[r])
  BY <1>1, <1>2
<1>4. delivered'[r][part[r]] = 1 + Extra(r, part[r])
  BY <1>1, <1>2, <1>3 DEF OneMore
<1>5. \A i \in DOMAIN Content[r] \ {part[r]} : delivered'[r][i] = delivered[r][i]
  BY <1>1
<1> QED
  BY <1>1, <1>2, <1>4, <1>5

LEMMA ProgressStep ==
    ASSUME TypeOK, ProgressInv, [Next]_vars
    PROVE  ProgressInv'
<1> SUFFICES ASSUME NEW q \in Requests PROVE Progress(q)'
  BY DEF ProgressInv
<1>1. Progress(q)
  BY DEF ProgressInv
<1>2. part[q] \in Nat /\ \A i \in DOMAIN Content[q] : i \in Nat
  BY PartsOf DEF TypeOK
<1>3. UNCHANGED misread => \A i : Extra(q, i)' = Extra(q, i)
  BY DEF Extra
<1>4. Delivers(q) => delivered'[q] = [delivered[q] EXCEPT ![part[q]] = OneMore(@)]
  BY DEF Delivers, TypeOK
<1>5. \A i : Extra(q, i) \in {0, 1}
  BY DEF Extra
<1>6. CASE RequestAction(q)
  <2>1. CASE Begins(q)
    BY <1>1, <1>3, <2>1, PartsOf DEF Progress, Begins, InSend, Resolving, Sending
  <2>2. CASE Goes(q)
    BY <1>1, <1>3, <2>2 DEF Progress, Goes, InSend, Resolving, Sending
  <2>3. CASE SendsAgain(q)
    <3>1. /\ pc[q] = "inline" /\ pc'[q] = "asDocument"
          /\ part'[q] = part[q] /\ part[q] \in DOMAIN Content[q]
          /\ reply'[q] = "none" /\ KindOf(Content[q][part[q]]) = "inline"
      BY <1>1, <2>3 DEF Progress, SendsAgain, Repeats, Kind, InSend, Sending
    <3>2. <<q, part[q]>> \notin misread
      BY <1>1, <3>1 DEF Progress
    <3>3. \A i \in DOMAIN Content[q] :
             Extra(q, i)' = IF i = part[q] THEN 1 ELSE Extra(q, i)
      BY <2>3 DEF SendsAgain, Extra
    <3>4. \A i \in DOMAIN Content[q] :
             delivered'[q][i] = (IF i < part[q] + 1 THEN 1 ELSE 0) + Extra(q, i)
      BY <1>1, <1>4, <2>3, <3>1, OneMoreCopy DEF SendsAgain, Sending
    <3>5. \A i \in DOMAIN Content[q] :
             delivered'[q][i] = (IF i < part'[q] THEN 1 ELSE 0) + Extra(q, i)'
      BY <1>2, <1>5, <3>1, <3>2, <3>3, <3>4 DEF Extra
    <3>6. \A i \in DOMAIN Content[q] : <<q, i>> \in misread' =>
             KindOf(Content[q][i]) = "inline" /\ i <= part'[q]
      BY <1>1, <1>2, <2>3, <3>1 DEF Progress, SendsAgain
    <3>7. \A i \in DOMAIN Content[q] : delivered'[q][i] <= 1 + Extra(q, i)'
      BY <1>5, <3>3, <3>5
    <3> QED
      BY <3>1, <3>5, <3>6, <3>7 DEF Progress, InSend, Resolving, Sending
  <2>4. CASE GoesOn(q)
    <3>1. part[q] \in DOMAIN Content[q] /\ reply[q] = "none"
      BY <1>1, <2>4 DEF Progress, GoesOn, InSend, Sending
    <3>2. part'[q] \in DOMAIN Content[q]
      BY <2>4, <3>1, PartsOf DEF GoesOn, LastPart
    <3>3. \A i \in DOMAIN Content[q] :
             delivered'[q][i] = (IF i < part'[q] THEN 1 ELSE 0) + Extra(q, i)'
      BY <1>1, <1>3, <1>4, <2>4, OneMoreCopy DEF GoesOn
    <3>4. \A i \in DOMAIN Content[q] : <<q, i>> \in misread' =>
             KindOf(Content[q][i]) = "inline" /\ i < part'[q]
      BY <1>1, <1>2, <2>4 DEF Progress, GoesOn
    <3>5. \A i \in DOMAIN Content[q] : delivered'[q][i] <= 1 + Extra(q, i)'
      BY <1>3, <1>5, <2>4, <3>3 DEF GoesOn
    <3> QED
      BY <1>2, <2>4, <3>1, <3>2, <3>3, <3>4, <3>5 DEF Progress, GoesOn
  <2>5. CASE IsThrough(q)
    <3>1. \A i \in DOMAIN Content[q] :
             delivered'[q][i] = (IF i < part[q] + 1 THEN 1 ELSE 0) + Extra(q, i)'
      BY <1>1, <1>3, <1>4, <2>5, OneMoreCopy DEF IsThrough
    <3>2. \A i \in DOMAIN Content[q] : delivered'[q][i] = 1 + Extra(q, i)'
      BY <2>5, <3>1, PartsOf DEF IsThrough, LastPart
    <3>3. \A i \in DOMAIN Content[q] :
             delivered'[q][i] <= 1 + Extra(q, i)' /\ delivered'[q][i] > 0
      BY <1>3, <1>5, <2>5, <3>2 DEF IsThrough
    <3> QED
      BY <1>1, <2>5, <3>3 DEF Progress, IsThrough, InSend, Resolving, Sending
  <2>6. CASE GivesUp(q)
    <3>1. \A i \in DOMAIN Content[q] : delivered'[q][i] <= 1 + Extra(q, i)
      <4>1. CASE delivered'[q] = delivered[q]
        BY <1>1, <4>1 DEF Progress
      <4>2. CASE pc[q] \in Sending /\ Delivers(q)
        BY <1>1, <1>4, <1>5, <4>2, OneMoreCopy
      <4> QED
        BY <2>6, <4>1, <4>2 DEF GivesUp
    <3> QED
      BY <1>1, <1>3, <2>6, <3>1 DEF Progress, GivesUp, InSend, Resolving, Sending
  <2> QED
    BY <1>6, <2>1, <2>2, <2>3, <2>4, <2>5, <2>6, RequestMoves
<1>7. ASSUME NEW r \in Requests \ {q}, RequestAction(r) PROVE Progress(q)'
  <2>1. /\ pc'[q] = pc[q] /\ part'[q] = part[q]
        /\ reply'[q] = reply[q] /\ delivered'[q] = delivered[q]
        /\ \A i : <<q, i>> \in misread' <=> <<q, i>> \in misread
    BY <1>7, OthersUntouched
  <2>2. \A i : Extra(q, i)' = Extra(q, i)
    BY <2>1 DEF Extra
  <2> QED
    BY <1>1, <2>1, <2>2 DEF Progress
<1>8. CASE Crash
  <2>1. PICK late \in SUBSET {r \in Requests : pc[r] \in Sending} :
           delivered' = [r \in Requests |->
               IF r \in late
               THEN [delivered[r] EXCEPT ![part[r]] = OneMore(@)]
               ELSE delivered[r]]
    BY <1>8 DEF Crash
  <2>2. \/ pc[q] \in InSend \cup {"claiming"} /\ pc'[q] = "ended" /\ reply'[q] = "torn"
        \/ pc[q] \notin InSend \cup {"claiming"} /\ pc'[q] = pc[q] /\ reply'[q] = reply[q]
    BY <1>8 DEF Crash, TypeOK
  <2>3. part'[q] = part[q] /\ UNCHANGED misread
    BY <1>8 DEF Crash
  <2>4. CASE q \notin late
    <3>1. delivered'[q] = delivered[q]
      BY <2>1, <2>4
    <3> QED
      BY <1>1, <1>3, <2>2, <2>3, <3>1 DEF Progress, InSend, Resolving, Sending
  <2>5. CASE q \in late
    <3>1. pc[q] \in Sending /\ delivered'[q] = [delivered[q] EXCEPT ![part[q]] = OneMore(@)]
      BY <2>1, <2>5
    <3>2. \A i \in DOMAIN Content[q] :
             delivered'[q][i] = (IF i < part[q] + 1 THEN 1 ELSE 0) + Extra(q, i)
      BY <1>1, <3>1, OneMoreCopy
    <3>3. \A i \in DOMAIN Content[q] : delivered'[q][i] <= 1 + Extra(q, i)
      BY <1>5, <3>2
    <3> QED
      BY <1>1, <1>3, <2>2, <2>3, <3>1, <3>3 DEF Progress, InSend, Resolving, Sending
  <2> QED
    BY <2>4, <2>5
<1>9. CASE UNCHANGED <<pc, part, reply, delivered, misread>>
  BY <1>1, <1>3, <1>9 DEF Progress
<1> QED
  BY <1>6, <1>7, <1>8, <1>9, NoRequestMoves

\* One run of a send leaves at most one copy of each part, but for a photo, video or audio whose
\* inline try went through under an error that reads as a refusal: of that there are two, the try
\* and the document, and never more. No frame error, crash or real refusal doubles anything, and
\* a text or a document is never doubled.
THEOREM OneCopy == Spec => []OneSendOneCopy
<1>1. Init => ProgressInv
  BY PartsOf DEF Init, ProgressInv, Progress, Extra, InSend, Resolving, Sending
<1>2. TypeInv /\ ProgressInv /\ [Next]_vars => ProgressInv'
  BY ProgressStep DEF TypeInv
<1>3. TypeInv /\ ProgressInv => OneSendOneCopy
  <2> SUFFICES ASSUME TypeOK, ProgressInv,
                      NEW r \in Requests, NEW i \in DOMAIN Content[r], delivered[r][i] > 1
               PROVE  /\ delivered[r][i] = 2
                      /\ <<r, i>> \in misread /\ KindOf(Content[r][i]) = "inline"
    BY DEF OneSendOneCopy, TypeInv
  <2>1. delivered[r][i] \in 0 .. 3 /\ delivered[r][i] <= 1 + Extra(r, i)
    BY DEF TypeOK, ProgressInv, Progress
  <2>2. <<r, i>> \in misread
    BY <2>1 DEF Extra
  <2> QED
    BY <2>1, <2>2 DEF ProgressInv, Progress, Extra
<1> QED
  BY <1>1, <1>2, <1>3, TypeInit, TypeStep, PTL DEF Spec

----------------------------------------------------------------------------
(* Claims and the record *)

\* What a step of r does to the claims and the record: nothing but dropping what expired, a
\* claim with the start of its send, or the end of a send.
Keeps(r) ==
    /\ pc[r] # "ended" /\ (pc[r] \in InSend <=> pc'[r] \in InSend)
    /\ reply'[r] # "sent" /\ inFlight' = inFlight
    /\ completed' = completed \/ completed' = Pruned(completed)
Enters(r) ==
    /\ pc[r] \in {"new", "claiming"} /\ pc'[r] \in InSend /\ reply'[r] = reply[r]
    /\ Keyed(r) => /\ KeyOf[r] \notin inFlight /\ inFlight' = inFlight \cup {KeyOf[r]}
                   /\ completed' = Pruned(completed) /\ completed'[KeyOf[r]] = 0
    /\ ~Keyed(r) => UNCHANGED <<inFlight, completed>>
Leaves(r) == pc[r] \in InSend /\ (Fail(r) \/ Succeed(r))

LEMMA StoreMoves ==
    ASSUME TypeInv, ProgressInv, NEW r \in Requests, RequestAction(r)
    PROVE  /\ Keeps(r) \/ Enters(r) \/ Leaves(r)
           /\ UNCHANGED <<snap, disk>>
<1> USE DEF TypeInv, TypeOK, Goto, Answer
<1>1. pc[r] # "ended" => reply[r] = "none"
  BY DEF ProgressInv, Progress
<1>2. CASE CallKeyless(r) \/ CallKeyed(r)
  BY <1>1, <1>2 DEF CallKeyless, CallKeyed, Resolve, Keeps, Enters, InSend, Resolving, Sending
<1>3. CASE Claim(r)
  <2>1. pc[r] = "claiming" /\ Keyed(r) /\ claim(r) /\ UNCHANGED <<snap, disk>>
    BY <1>3 DEF Claim, KeyedClaims
  <2>2. CASE Answer(r, "replayed") \/ Answer(r, "busy") \/ Answer(r, "failed")
    BY <1>1, <2>1, <2>2 DEF claim, Resolve, Keeps, InSend, Resolving, Sending
  <2>3. CASE Resolve(r) /\ UNCHANGED reply
    BY <1>1, <2>1, <2>3 DEF claim, Resolve, Enters, InSend, Resolving, Sending
  <2> QED
    BY <2>1, <2>2, <2>3 DEF claim
<1>4. CASE ChatListed(r) \/ NumberResolved(r) \/ Throttle(r) \/ Wake(r)
  BY <1>1, <1>4
  DEF ChatListed, NumberResolved, Throttle, Wake, SendPart, Keeps, InSend, Resolving, Sending
<1>5. CASE ResolveFails(r) \/ BadAttachment(r) \/ SendFrameError(r)
  BY <1>5
  DEF ResolveFails, BadAttachment, SendFrameError, FrameErrorEnds, Leaves, Fail, InSend
<1>6. CASE NumberFrameError(r) \/ Refused(r) \/ CutOff(r)
  BY <1>1, <1>6
  DEF NumberFrameError, Refused, CutOff, TakenForRefusal, Repeats, Keeps, Leaves, Fail, InSend,
      Resolving, Sending
<1>7. CASE PartSent(r)
  <2>1. CASE LastPart(r)
    BY <1>7, <2>1 DEF PartSent, Leaves, Succeed, InSend
  <2>2. CASE ~LastPart(r)
    <3>1. pc[r] \in InSend /\ pc'[r] = "next" /\ UNCHANGED <<reply, storeVars>>
      BY <1>7, <2>2 DEF PartSent, InSend
    <3> QED
      BY <1>1, <3>1 DEF Keeps, InSend, Resolving, Sending
  <2> QED
    BY <2>1, <2>2
<1> QED
  BY <1>2, <1>3, <1>4, <1>5, <1>6, <1>7 DEF RequestAction, RequestStep

\* A step of r changes the sends of r's key only, and by r only.
LEMMA RunningMoves ==
    ASSUME TypeOK, NEW r \in Requests, RequestAction(r), NEW k
    PROVE  /\ k # KeyOf[r] \/ (pc[r] \in InSend <=> pc'[r] \in InSend) =>
                  Running(k)' = Running(k)
           /\ k = KeyOf[r] /\ pc'[r] \in InSend => Running(k)' = Running(k) \cup {r}
           /\ k = KeyOf[r] /\ pc'[r] \notin InSend => Running(k)' = Running(k) \ {r}
<1>1. \A q \in Requests \ {r} : pc'[q] = pc[q]
  BY OthersUntouched
<1> QED
  BY <1>1 DEF Running

\* A claimed key has exactly one send, another has none.
ClaimInv ==
    \A k \in Keys : \/ k \in inFlight /\ \E r \in Requests : Running(k) = {r}
                    \/ k \notin inFlight /\ Running(k) = {}

LEMMA ClaimStep ==
    ASSUME TypeInv, ProgressInv, ClaimInv, [Next]_vars
    PROVE  ClaimInv'
<1> SUFFICES ASSUME NEW k \in Keys
             PROVE  \/ k \in inFlight' /\ \E r \in Requests : Running(k)' = {r}
                    \/ k \notin inFlight' /\ Running(k)' = {}
  BY DEF ClaimInv
<1>1. \/ k \in inFlight /\ \E r \in Requests : Running(k) = {r}
      \/ k \notin inFlight /\ Running(k) = {}
  BY DEF ClaimInv
<1>2. ASSUME NEW r \in Requests, RequestAction(r)
      PROVE  \/ k \in inFlight' /\ \E q \in Requests : Running(k)' = {q}
             \/ k \notin inFlight' /\ Running(k)' = {}
  <2>1. CASE Keeps(r)
    BY <1>1, <1>2, <2>1, RunningMoves DEF Keeps, TypeInv
  <2>2. CASE Enters(r)
    <3>1. pc'[r] \in InSend /\ pc[r] \notin InSend
      BY <2>2 DEF Enters, InSend, Resolving, Sending
    <3>2. CASE k = KeyOf[r]
      <4>1. Keyed(r)
        BY <3>2, RequestsAssumption DEF Keyed
      <4> QED
        BY <1>1, <1>2, <2>2, <3>1, <3>2, <4>1, RunningMoves DEF Enters, TypeInv
    <3>3. CASE k # KeyOf[r]
      BY <1>1, <1>2, <2>2, <3>3, RunningMoves DEF Enters, TypeInv
    <3> QED
      BY <3>2, <3>3
  <2>3. CASE Leaves(r)
    <3>1. /\ pc[r] \in InSend /\ pc'[r] \notin InSend
          /\ inFlight' = IF Keyed(r) THEN inFlight \ {KeyOf[r]} ELSE inFlight
      BY <2>3 DEF Leaves, Fail, Succeed, release, complete, Answer, Goto, TypeInv, TypeOK,
                  InSend, Resolving, Sending
    <3>2. CASE k = KeyOf[r]
      <4>1. Keyed(r)
        BY <3>2, RequestsAssumption DEF Keyed
      <4>2. r \in Running(k)
        BY <3>1, <3>2 DEF Running
      <4>3. Running(k) = {r}
        BY <1>1, <4>2
      <4> QED
        BY <1>2, <3>1, <3>2, <4>1, <4>3, RunningMoves DEF TypeInv
    <3>3. CASE k # KeyOf[r]
      BY <1>1, <1>2, <3>1, <3>3, RunningMoves DEF TypeInv
    <3> QED
      BY <3>2, <3>3
  <2> QED
    BY <1>2, <2>1, <2>2, <2>3, StoreMoves
<1>3. CASE Crash
  <2>1. inFlight' = {} /\ \A r \in Requests : pc'[r] \notin InSend
    BY <1>3 DEF Crash, TypeInv, TypeOK, InSend, Resolving, Sending
  <2> QED
    BY <2>1 DEF Running
<1>4. CASE UNCHANGED <<pc, inFlight>>
  <2>1. Running(k)' = Running(k)
    BY <1>4 DEF Running
  <2> QED
    BY <1>1, <1>4, <2>1
<1>5. CASE Next /\ ~Crash /\ ~\E r \in Requests : RequestAction(r)
  BY <1>4, <1>5
  DEF Next, RequestAction, load, PersistStart, PersistDone, PersistFails, Tick, SessionReady,
      SessionLost, Restart
<1> QED
  BY <1>2, <1>3, <1>4, <1>5

\* The keys some send completed.
Ever == {KeyOf[r] : r \in {q \in Requests : reply[q] = "sent" /\ Keyed(q)}}

\* The record, in memory, in a write and on disk, knows only completed keys.
RecordInv ==
    \A k \in Keys : completed[k] # 0 \/ snap[k] # 0 \/ disk[k] # 0 => k \in Ever

\* Nothing but the end of a send makes a key completed, and nothing makes it otherwise.
LEMMA EverMoves ==
    ASSUME TypeInv, ProgressInv, [Next]_vars
    PROVE  /\ \A r \in Requests : RequestAction(r) =>
                  Ever' = IF Succeed(r) /\ Keyed(r) THEN Ever \cup {KeyOf[r]} ELSE Ever
           /\ (~\E r \in Requests : RequestAction(r)) => Ever' = Ever
<1> USE DEF TypeInv, TypeOK
<1>1. ASSUME NEW r \in Requests, RequestAction(r)
      PROVE  /\ \A q \in Requests \ {r} : reply'[q] = reply[q]
             /\ Succeed(r) => reply'[r] = "sent"
             /\ ~Succeed(r) => reply'[r] # "sent" /\ reply[r] # "sent"
  <2>1. \A q \in Requests \ {r} : reply'[q] = reply[q]
    BY <1>1, OthersUntouched
  <2>2. pc[r] # "ended"
    BY <1>1, RequestMoves
    DEF Begins, Goes, SendsAgain, Repeats, GoesOn, IsThrough, GivesUp, InSend, Resolving, Sending
  <2>3. reply[r] = "none"
    BY <2>2 DEF ProgressInv, Progress
  <2> QED
    BY <1>1, <2>1, <2>3, StoreMoves
    DEF Keeps, Enters, Leaves, Fail, Succeed, Answer, Goto
<1>2. CASE \E r \in Requests : RequestAction(r)
  BY <1>1, <1>2 DEF Ever, Keyed
<1>3. CASE Crash
  <2>1. \A r \in Requests : reply'[r] = "sent" <=> reply[r] = "sent"
    BY <1>3 DEF Crash, ProgressInv, Progress, InSend, Resolving, Sending
  <2>2. Ever' = Ever
    BY <2>1 DEF Ever, Keyed
  <2> QED
    BY <1>2, <2>2
<1>4. CASE UNCHANGED reply
  <2>1. Ever' = Ever
    BY <1>4 DEF Ever, Keyed
  <2> QED
    BY <1>2, <2>1
<1> QED
  BY <1>2, <1>3, <1>4, NoRequestMoves
LEMMA RecordStep ==
    ASSUME TypeInv, ProgressInv, RecordInv, [Next]_vars
    PROVE  RecordInv'
<1> SUFFICES ASSUME NEW k \in Keys, completed'[k] # 0 \/ snap'[k] # 0 \/ disk'[k] # 0
             PROVE  k \in Ever'
  BY DEF RecordInv
<1> USE DEF TypeInv, TypeOK
<1>1. Ever \subseteq Ever'
  BY EverMoves
<1>2. SUFFICES k \notin Ever => k \in Ever'
  BY <1>1
<1>3. k \notin Ever => completed[k] = 0 /\ snap[k] = 0 /\ disk[k] = 0
  BY DEF RecordInv
<1>4. completed[k] = 0 => Pruned(completed)[k] = 0
  BY DEF Pruned
<1>5. disk[k] = 0 => Pruned(disk)[k] = 0
  BY DEF Pruned
<1>6. ASSUME NEW r \in Requests, RequestAction(r), k \notin Ever PROVE k \in Ever'
  <2>1. UNCHANGED <<snap, disk>> /\ completed'[k] # 0
    BY <1>3, <1>6, StoreMoves
  <2>2. CASE Keeps(r) \/ Enters(r)
    BY <1>3, <1>4, <1>6, <2>1, <2>2 DEF Keeps, Enters
  <2>3. CASE Leaves(r)
    <3>1. Succeed(r) /\ Keyed(r) /\ k = KeyOf[r]
      BY <1>3, <1>6, <2>1, <2>3 DEF Leaves, Fail, Succeed, complete
    <3> QED
      BY <1>6, <3>1, EverMoves
  <2> QED
    BY <1>6, <2>2, <2>3, StoreMoves
<1>7. CASE load
  BY <1>3, <1>5, <1>7 DEF load, ReadFailed
<1>8. CASE PersistStart \/ PersistDone \/ PersistFails \/ Crash
  BY <1>3, <1>8 DEF PersistStart, PersistDone, PersistFails, Crash, NoRecord
<1>9. CASE UNCHANGED <<completed, snap, disk>>
  BY <1>3, <1>9
<1> QED
  BY <1>6, <1>7, <1>8, <1>9
  DEF Next, RequestAction, Tick, SessionReady, SessionLost, Restart

----------------------------------------------------------------------------
(* The invariant, and what follows from it *)

SendInv == TypeInv /\ ProgressInv /\ ClaimInv /\ RecordInv

LEMMA SendInit == Init => SendInv
<1> SUFFICES ASSUME Init PROVE SendInv
  OBVIOUS
<1>1. \A r \in Requests : pc[r] = "new"
  BY DEF Init
<1>2. ProgressInv
  BY PartsOf DEF Init, ProgressInv, Progress, Extra, InSend, Resolving, Sending
<1>3. ClaimInv
  BY <1>1 DEF Init, ClaimInv, Running, InSend, Resolving, Sending
<1>4. RecordInv
  BY DEF Init, RecordInv, NoRecord
<1> QED
  BY <1>2, <1>3, <1>4, TypeInit DEF SendInv

LEMMA SendStep == SendInv /\ [Next]_vars => SendInv'
  BY TypeStep, ProgressStep, ClaimStep, RecordStep DEF SendInv, TypeInv

LEMMA SendSafe == Spec => []SendInv
  BY SendInit, SendStep, PTL DEF Spec

\* No error path, crash or replay leaves a key claimed that no send will release, and no two
\* sends of a key run at a time.
THEOREM ClaimsAreSends == Spec => []ClaimsMatchSends
<1>1. SendInv => ClaimsMatchSends
  <2> SUFFICES ASSUME SendInv, NEW k \in Keys
               PROVE  Cardinality(Running(k)) = IF k \in inFlight THEN 1 ELSE 0
    BY DEF ClaimsMatchSends
  <2>1. CASE k \in inFlight /\ \E r \in Requests : Running(k) = {r}
    BY <2>1, FS_Singleton
  <2>2. CASE k \notin inFlight /\ Running(k) = {}
    BY <2>2, FS_EmptySet
  <2> QED
    BY <2>1, <2>2 DEF SendInv, ClaimInv
<1> QED
  BY <1>1, SendSafe, PTL

\* Whatever the record answers for, after crashes and failed writes too, was delivered whole.
THEOREM RecordIsTrue == Spec => []RecordMeansDelivered
<1>1. SendInv => RecordMeansDelivered
  BY DEF SendInv, RecordInv, Ever, ProgressInv, Progress, RecordMeansDelivered
<1> QED
  BY <1>1, SendSafe, PTL

----------------------------------------------------------------------------
(* The contract of the key *)

Runs == [k \in Keys |-> Running(k)]
Answering == {k \in Keys : completed[k] # 0}

LEMMA ContractInit == Init => Contract!Init
<1> SUFFICES ASSUME Init PROVE Contract!Init
  OBVIOUS
<1>1. \A k \in Keys : Running(k) = {}
  BY DEF Init, Running, InSend, Resolving, Sending
<1>2. \A k \in Keys : completed[k] = 0
  BY DEF Init, NoRecord
<1>3. \A r \in Requests : reply[r] # "sent"
  BY DEF Init
<1> QED
  BY <1>1, <1>2, <1>3 DEF Contract!Init

\* A step of a request is one of the contract, or one that it does not see.
LEMMA ContractRequest ==
    ASSUME SendInv, [Next]_vars, NEW r \in Requests, RequestAction(r)
    PROVE  [Contract!Next]_(Contract!vars)
<1> USE DEF SendInv, TypeInv, TypeOK
<1>1. Ever' = IF Succeed(r) /\ Keyed(r) THEN Ever \cup {KeyOf[r]} ELSE Ever
  BY EverMoves
<1>2. \A k \in Keys : completed[k] = 0 => Pruned(completed)[k] = 0
  BY DEF Pruned
<1>3. Keyed(r) <=> KeyOf[r] \in Keys
  BY RequestsAssumption DEF Keyed
<1>4. CASE Keeps(r)
  <2>1. Runs' = Runs
    BY <1>4, RunningMoves DEF Keeps, Runs
  <2>2. Answering' \subseteq Answering
    BY <1>2, <1>4 DEF Keeps, Answering
  <2>3. ~Succeed(r)
    BY <1>4 DEF Keeps, Succeed, Answer
  <2>4. Contract!Expire
    BY <1>1, <2>1, <2>2, <2>3 DEF Contract!Expire, Runs, Answering, Ever
  <2> QED
    BY <2>4 DEF Contract!Next
<1>5. CASE Enters(r)
  <2>1. pc'[r] \in InSend /\ pc[r] \notin InSend /\ ~Succeed(r)
    BY <1>5 DEF Enters, Succeed, Answer, Goto, InSend, Resolving, Sending
  <2>2. CASE Keyed(r)
    <3>1. Runs[KeyOf[r]] = {}
      BY <1>3, <1>5, <2>2 DEF Enters, ClaimInv, Runs
    <3>2. Runs' = [Runs EXCEPT ![KeyOf[r]] = {r}]
      <4>1. Running(KeyOf[r])' = Running(KeyOf[r]) \cup {r}
        BY <2>1, RunningMoves
      <4>2. \A k \in Keys \ {KeyOf[r]} : Running(k)' = Running(k)
        BY RunningMoves
      <4>3. Running(KeyOf[r]) = {}
        BY <1>3, <2>2, <3>1 DEF Runs
      <4> QED
        BY <4>1, <4>2, <4>3 DEF Runs
    <3>3. Answering' \subseteq Answering \ {KeyOf[r]}
      BY <1>2, <1>5, <2>2 DEF Enters, Answering
    <3>4. Ever' = Ever
      BY <1>1, <2>1
    <3>5. Contract!Begin(r)
      BY <3>1, <3>2, <3>3, <3>4 DEF Contract!Begin, Runs, Answering, Ever
    <3> QED
      BY <1>3, <2>2, <3>5 DEF Contract!Next
  <2>3. CASE ~Keyed(r)
    <3>1. Runs' = Runs
      BY <1>3, <2>3, RunningMoves DEF Runs
    <3>2. Answering' = Answering /\ Ever' = Ever
      BY <1>1, <1>5, <2>3 DEF Enters, Answering
    <3> QED
      BY <3>1, <3>2 DEF Contract!vars, Runs, Answering, Ever
  <2> QED
    BY <2>2, <2>3
<1>6. CASE Leaves(r)
  <2>1. pc[r] \in InSend /\ pc'[r] \notin InSend
    BY <1>6 DEF Leaves, Fail, Succeed, Answer, Goto, InSend, Resolving, Sending
  <2>2. CASE Keyed(r)
    <3>1. r \in Runs[KeyOf[r]]
      BY <1>3, <2>1, <2>2 DEF Runs, Running
    <3>2. Runs' = [Runs EXCEPT ![KeyOf[r]] = @ \ {r}]
      <4>1. Running(KeyOf[r])' = Running(KeyOf[r]) \ {r}
        BY <2>1, RunningMoves
      <4>2. \A k \in Keys \ {KeyOf[r]} : Running(k)' = Running(k)
        BY RunningMoves
      <4> QED
        BY <4>1, <4>2 DEF Runs
    <3>3. CASE Succeed(r)
      <4>1. Answering' = Answering \cup {KeyOf[r]}
        <5>1. completed' = [completed EXCEPT ![KeyOf[r]] = now] /\ now # 0
          BY <2>2, <3>3 DEF Succeed, complete
        <5> QED
          BY <1>3, <2>2, <5>1 DEF Answering
      <4>2. Ever' = Ever \cup {KeyOf[r]}
        BY <1>1, <2>2, <3>3
      <4>3. Contract!Complete(r)
        BY <3>1, <3>2, <4>1, <4>2 DEF Contract!Complete, Runs, Answering, Ever
      <4> QED
        BY <1>3, <2>2, <4>3 DEF Contract!Next
    <3>4. CASE ~Succeed(r)
      <4>1. Answering' = Answering /\ Ever' = Ever
        BY <1>1, <1>6, <3>4 DEF Leaves, Fail, Answering
      <4>2. Contract!Release(r)
        BY <3>1, <3>2, <4>1 DEF Contract!Release, Runs, Answering, Ever
      <4> QED
        BY <1>3, <2>2, <4>2 DEF Contract!Next
    <3> QED
      BY <3>3, <3>4
  <2>3. CASE ~Keyed(r)
    <3>1. Runs' = Runs
      BY <1>3, <2>3, RunningMoves DEF Runs
    <3>2. Answering' = Answering /\ Ever' = Ever
      BY <1>1, <1>6, <2>3 DEF Leaves, Fail, Succeed, Answering
    <3> QED
      BY <3>1, <3>2 DEF Contract!vars, Runs, Answering, Ever
  <2> QED
    BY <2>2, <2>3
<1> QED
  BY <1>4, <1>5, <1>6, StoreMoves

LEMMA ContractStep ==
    ASSUME SendInv, SendInv', [Next]_vars
    PROVE  [Contract!Next]_(Contract!vars)
<1> USE DEF SendInv, TypeInv, TypeOK
<1>1. CASE \E r \in Requests : RequestAction(r)
  BY <1>1, ContractRequest
<1>2. CASE ~\E r \in Requests : RequestAction(r)
  <2>1. Ever' = Ever
    BY <1>2, EverMoves
  <2>2. CASE Crash
    <3>1. \A r \in Requests : pc'[r] \notin InSend
      BY <2>2 DEF Crash, InSend, Resolving, Sending
    <3>2. Runs' = [k \in Keys |-> {}]
      BY <3>1 DEF Runs, Running
    <3>3. Answering' = {}
      BY <2>2 DEF Crash, NoRecord, Answering
    <3>4. Contract!Crash
      BY <2>1, <3>2, <3>3 DEF Contract!Crash, Runs, Answering, Ever
    <3> QED
      BY <3>4 DEF Contract!Next
  <2>3. CASE UNCHANGED pc
    <3>1. Runs' = Runs
      BY <2>3 DEF Runs, Running
    <3>2. CASE load
      <4>1. Answering' \subseteq Ever
        BY <2>1 DEF Answering, RecordInv
      <4>2. Contract!Load
        BY <2>1, <3>1, <4>1 DEF Contract!Load, Runs, Answering, Ever
      <4> QED
        BY <4>2 DEF Contract!Next
    <3>3. CASE UNCHANGED completed
      <4>1. Answering' = Answering
        BY <3>3 DEF Answering
      <4> QED
        BY <2>1, <3>1, <4>1 DEF Contract!vars, Runs, Answering, Ever
    <3> QED
      BY <1>2, <2>2, <3>2, <3>3
      DEF Next, RequestAction, PersistStart, PersistDone, PersistFails, Tick, SessionReady,
          SessionLost, Restart
  <2> QED
    BY <1>2, <2>2, <2>3, NoRequestMoves
<1> QED
  BY <1>1, <1>2

\* The idempotency store keeps the contract of the key: at most one send of a key at a time, a
\* key that is answered from the record is not sent, and only completed keys are in the record.
THEOREM KeepsContract == Spec => HonoursContract
<1>1. SendInv /\ SendInv' /\ [Next]_vars => [Contract!Next]_(Contract!vars)
  BY ContractStep
<1> QED
  BY <1>1, ContractInit, SendSafe, PTL DEF Spec, HonoursContract, Contract!Spec
=============================================================================
