---------------------------- MODULE OutboundSend ----------------------------
(***************************************************************************)
(* The outbound half of the gateway: HTTP requests that send a message run *)
(* concurrently through runIdempotentSend, the IdempotencyStore and the    *)
(* send path of WhatsappService (resolve the chat, throttle, send each     *)
(* part, fall back to a document) into the WhatsApp Web page.              *)
(*                                                                         *)
(* One action is the code between two awaits. A request is one HTTP call;  *)
(* a caller's retry is another request with the same key. What the caller  *)
(* sends is a sequence of parts (MediaKind): a text, or files of which the *)
(* first carries the text. The session is `ready` (ready and settled) or   *)
(* not; a frame error is one that makes the service recover the session.   *)
(***************************************************************************)
EXTENDS Integers, Sequences, FiniteSets, MediaKind

CONSTANTS
    Requests,       \* the HTTP calls, each made at most once
    Keys, NoKey,    \* idempotency keys; no key, or a blank one
    KeyOf,          \* KeyOf[r]: the key request r carries
    Content,        \* Content[r]: its parts, in order
    ByChat,         \* the requests that name a chat id, not a phone number
    MessageDelay,   \* WHATSAPP_MESSAGE_DELAY_MS
    Ttl,            \* IDEMPOTENCY_TTL_MS
    \* Bounds of the model:
    MaxTime,        \* the clock; it goes on only to wake a sleeping request
    MaxFaults       \* crashes, lost sessions, frame errors, failed reads and writes

ASSUME RequestsAssumption ==
    /\ IsFiniteSet(Requests)
    /\ NoKey \notin Keys
    /\ KeyOf \in [Requests -> Keys \cup {NoKey}]
    /\ Content \in [Requests -> Seq(Part)]
    /\ ByChat \subseteq Requests
ASSUME TimesAssumption ==
    /\ MessageDelay \in Nat /\ Ttl \in Nat /\ MaxTime \in Nat /\ MaxFaults \in Nat

VARIABLES
    now, faults, up, ready,
    \* IdempotencyStore: the memoised load, the record (completedAt of a key, 0 when it has
    \* none), the claims, the write queue and the write that is running; and the file
    loaded, completed, inFlight, queued, writing, snap, disk,
    \* WhatsappService.lastSentAt
    lastSentAt,
    \* the requests: where each stands, its next part, when its throttle lets it go, its answer
    pc, part, wakeAt, reply,
    \* WhatsApp: delivered[r][i], the copies of part i of request r in the chat, or sure to get
    \* there (3: more than two)
    delivered,
    \* a history variable, which no step reads: the parts <<r, i>> that WhatsApp took although
    \* the service read the error of their inline try as a refusal
    misread

storeVars == <<loaded, completed, inFlight, queued, writing, snap, disk>>
sendVars  == <<lastSentAt, pc, part, wakeAt, reply, delivered, misread>>
vars == <<now, faults, up, ready, storeVars, sendVars>>

\* Where a request awaits: the load, the chat list, getNumberId (and its retry), the
\* throttle, client.sendMessage inline and as a document. "next" is about to send a part.
Resolving == {"chatList", "number", "numberAgain"}
Sending == {"inline", "asDocument"}
InSend == Resolving \cup {"next", "asleep"} \cup Sending
Stages == {"new", "claiming", "ended"} \cup InSend
Replies == {"none", "sent", "replayed", "busy", "failed", "torn"}

NoRecord == [k \in Keys |-> 0]
\* A blank key is no key.
Keyed(r) == KeyOf[r] # NoKey
Kind(r) == KindOf(Content[r][part[r]])
Running(k) == {r \in Requests : KeyOf[r] = k /\ pc[r] \in InSend}

Init ==
    /\ now = 1 /\ faults = 0 /\ up = TRUE /\ ready = FALSE
    /\ loaded = "no" /\ completed = NoRecord /\ inFlight = {}
    /\ queued = 0 /\ writing = FALSE /\ snap = NoRecord /\ disk = NoRecord
    \* lastSentAt starts at the epoch: long enough ago for the throttle to let go
    /\ lastSentAt = -MessageDelay
    /\ pc = [r \in Requests |-> "new"]
    /\ part = [r \in Requests |-> 1]
    /\ wakeAt = [r \in Requests |-> 0]
    /\ reply = [r \in Requests |-> "none"]
    /\ delivered = [r \in Requests |-> [i \in DOMAIN Content[r] |-> 0]]
    /\ misread = {}

Fault == faults < MaxFaults /\ faults' = faults + 1
Goto(r, stage) == pc' = [pc EXCEPT ![r] = stage]
Answer(r, answer) == Goto(r, "ended") /\ reply' = [reply EXCEPT ![r] = answer]

----------------------------------------------------------------------------
(* IdempotencyStore *)

Pruned(record) == [k \in Keys |-> IF record[k] < now - Ttl THEN 0 ELSE record[k]]

\* complete: the record first, the file whenever the write queue gets to it.
complete(k) ==
    /\ inFlight' = inFlight \ {k}
    /\ completed' = [completed EXCEPT ![k] = now]
    /\ queued' = queued + 1

\* Mutant: a send that throws leaves its key claimed.
releaseNothing(k) == UNCHANGED inFlight
release(k) == inFlight' = inFlight \ {k}

\* Mutant: a failed read is forgotten, and nobody tells the requests that await it.
ReadFailedForgotten == loaded' = "no" /\ UNCHANGED completed
\* An unreadable file is logged, and the store starts empty.
ReadFailed == loaded' = "yes" /\ UNCHANGED completed

load ==
    /\ up /\ loaded = "reading"
    /\ \/ loaded' = "yes" /\ completed' = Pruned(disk) /\ UNCHANGED faults
       \/ Fault /\ ReadFailed
    /\ UNCHANGED <<now, up, ready, inFlight, queued, writing, snap, disk, sendVars>>

\* Mutant: a write that was not queued.
NextWriteUnqueued == ~writing
\* writeQueue: one write after the other.
NextWrite == queued > 0 /\ ~writing

PersistStart ==
    /\ NextWrite
    /\ queued' = queued - 1
    /\ writing' = TRUE
    /\ snap' = completed
    /\ UNCHANGED <<now, faults, up, ready, loaded, completed, inFlight, disk, sendVars>>

PersistDone ==
    /\ writing
    /\ writing' = FALSE
    /\ disk' = snap
    /\ snap' = NoRecord
    /\ UNCHANGED <<now, faults, up, ready, loaded, completed, inFlight, queued, sendVars>>

PersistFails ==
    /\ Fault
    /\ writing
    /\ writing' = FALSE
    /\ snap' = NoRecord
    /\ UNCHANGED <<now, up, ready, loaded, completed, inFlight, queued, disk, sendVars>>

----------------------------------------------------------------------------
(* runIdempotentSend *)

\* The send fails: a claimed key is released, and the caller gets the error.
Fail(r) ==
    /\ Answer(r, "failed")
    /\ IF Keyed(r) THEN release(KeyOf[r]) ELSE UNCHANGED inFlight
    /\ UNCHANGED <<loaded, completed, queued, writing, snap, disk>>

\* The send is through: the result is recorded and answered.
Succeed(r) ==
    /\ Answer(r, "sent")
    /\ IF Keyed(r) THEN complete(KeyOf[r]) ELSE UNCHANGED <<inFlight, completed, queued>>
    /\ UNCHANGED <<loaded, writing, snap, disk>>

\* sendMessage and sendMessageToChat as far as their first await.
assertSendable(r) == ready /\ Content[r] # <<>>
Resolve(r) == Goto(r, IF r \in ByChat THEN "chatList" ELSE "number")

CallKeyless(r) ==
    /\ up /\ pc[r] = "new" /\ ~Keyed(r)
    /\ IF assertSendable(r) THEN Resolve(r) /\ UNCHANGED reply ELSE Answer(r, "failed")
    /\ UNCHANGED <<now, faults, up, ready, storeVars, lastSentAt, part, wakeAt, delivered, misread>>

CallKeyed(r) ==
    /\ up /\ pc[r] = "new" /\ Keyed(r)
    /\ Goto(r, "claiming")
    /\ loaded' = IF loaded = "no" THEN "reading" ELSE loaded
    /\ UNCHANGED <<now, faults, up, ready, completed, inFlight, queued, writing, snap, disk,
                   lastSentAt, part, wakeAt, reply, delivered, misread>>

\* Mutant: only a completed send keeps a second one out.
claimUnguarded(r) ==
    LET k == KeyOf[r] IN
    /\ completed' = Pruned(completed)
    /\ \/ completed'[k] # 0 /\ Answer(r, "replayed") /\ UNCHANGED inFlight
       \/ /\ completed'[k] = 0 /\ assertSendable(r)
          /\ inFlight' = inFlight \cup {k} /\ Resolve(r) /\ UNCHANGED reply
       \/ completed'[k] = 0 /\ ~assertSendable(r) /\ Answer(r, "failed") /\ UNCHANGED inFlight

\* claim, and the synchronous start of the send when the key is free. A send that is refused
\* there releases the key at once.
claim(r) ==
    LET k == KeyOf[r] IN
    /\ completed' = Pruned(completed)
    /\ \/ completed'[k] # 0 /\ Answer(r, "replayed") /\ UNCHANGED inFlight
       \/ completed'[k] = 0 /\ k \in inFlight /\ Answer(r, "busy") /\ UNCHANGED inFlight
       \/ /\ completed'[k] = 0 /\ k \notin inFlight /\ assertSendable(r)
          /\ inFlight' = inFlight \cup {k} /\ Resolve(r) /\ UNCHANGED reply
       \/ /\ completed'[k] = 0 /\ k \notin inFlight /\ ~assertSendable(r)
          /\ Answer(r, "failed") /\ UNCHANGED inFlight

Claim(r) ==
    /\ up /\ loaded = "yes" /\ pc[r] = "claiming"
    /\ claim(r)
    /\ UNCHANGED <<now, faults, up, ready, loaded, queued, writing, snap, disk, lastSentAt,
                   part, wakeAt, delivered, misread>>

----------------------------------------------------------------------------
(* The send path of WhatsappService *)

\* The chat is known, the list could not be read, or it is a number never talked to.
ChatListed(r) ==
    /\ pc[r] = "chatList"
    /\ \E stage \in {"next", "number"} : Goto(r, stage)
    /\ UNCHANGED <<now, faults, up, ready, storeVars, lastSentAt, part, wakeAt, reply, delivered,
                   misread>>

NumberResolved(r) ==
    /\ pc[r] \in {"number", "numberAgain"}
    /\ Goto(r, "next")
    /\ UNCHANGED <<now, faults, up, ready, storeVars, lastSentAt, part, wakeAt, reply, delivered,
                   misread>>

\* Not registered, not a chat of the account, or an error of its own.
ResolveFails(r) ==
    /\ pc[r] \in Resolving
    /\ Fail(r)
    /\ UNCHANGED <<now, faults, up, ready, lastSentAt, part, wakeAt, delivered, misread>>

\* A frame error of getNumberId is retried once, the second one starts a recovery.
NumberFrameError(r) ==
    /\ Fault
    /\ \/ pc[r] = "number" /\ Goto(r, "numberAgain") /\ UNCHANGED <<ready, reply, storeVars>>
       \/ pc[r] = "numberAgain" /\ ready' = FALSE /\ Fail(r)
    /\ UNCHANGED <<now, up, lastSentAt, part, wakeAt, delivered, misread>>

\* A file that toMessageMedia turns away ends the send, whatever went out before it.
BadAttachment(r) ==
    /\ pc[r] = "next" /\ Kind(r) = "bad"
    /\ Fail(r)
    /\ UNCHANGED <<now, faults, up, ready, lastSentAt, part, wakeAt, delivered, misread>>

SendPart(r) ==
    /\ lastSentAt' = now
    /\ Goto(r, IF Kind(r) = "document" THEN "asDocument" ELSE "inline")

\* throttle: what lastSentAt says now is what the sleep is for.
Throttle(r) ==
    /\ pc[r] = "next" /\ Kind(r) # "bad"
    /\ IF now - lastSentAt < MessageDelay
       THEN /\ wakeAt' = [wakeAt EXCEPT ![r] = lastSentAt + MessageDelay]
            /\ Goto(r, "asleep")
            /\ UNCHANGED lastSentAt
       ELSE SendPart(r) /\ UNCHANGED wakeAt
    /\ UNCHANGED <<now, faults, up, ready, storeVars, part, reply, delivered, misread>>

Wake(r) ==
    /\ pc[r] = "asleep" /\ now >= wakeAt[r]
    /\ SendPart(r)
    /\ wakeAt' = [wakeAt EXCEPT ![r] = 0]
    /\ UNCHANGED <<now, faults, up, ready, storeVars, part, reply, delivered, misread>>

OneMore(n) == IF n = 3 THEN 3 ELSE n + 1
Delivers(r) == delivered' = [delivered EXCEPT ![r][part[r]] = OneMore(@)]

\* Mutant: the last file is taken for sent when the one before it is.
LastPartEarly(r) == part[r] + 1 >= Len(Content[r])
LastPart(r) == part[r] = Len(Content[r])

PartSent(r) ==
    /\ pc[r] \in Sending
    /\ Delivers(r)
    /\ IF LastPart(r)
       THEN Succeed(r) /\ UNCHANGED part
       ELSE /\ part' = [part EXCEPT ![r] = @ + 1]
            /\ Goto(r, "next")
            /\ UNCHANGED <<reply, storeVars>>
    /\ UNCHANGED <<now, faults, up, ready, lastSentAt, wakeAt, misread>>

\* The inline try of a file, which sendMedia repeats as a document, without the throttle, on any
\* error that TRANSIENT_FRAME_ERROR does not match; of anything else such an error is the end.
Repeats(r) == pc[r] = "inline" /\ Kind(r) = "inline"
TakenForRefusal(r) ==
    IF Repeats(r) THEN Goto(r, "asDocument") /\ UNCHANGED <<reply, storeVars>> ELSE Fail(r)

\* WhatsApp turns the part down, and nothing of it is in the chat.
Refused(r) ==
    /\ pc[r] \in Sending
    /\ TakenForRefusal(r)
    /\ UNCHANGED <<now, faults, up, ready, lastSentAt, part, wakeAt, delivered, misread>>

\* The call fails in another way, a time-out of puppeteer's say, and WhatsApp has or will have
\* taken the part: to the code there is no difference.
CutOff(r) ==
    /\ Fault
    /\ pc[r] \in Sending
    /\ Delivers(r)
    /\ TakenForRefusal(r)
    /\ misread' = IF Repeats(r) THEN misread \cup {<<r, part[r]>>} ELSE misread
    /\ UNCHANGED <<now, up, ready, lastSentAt, part, wakeAt>>

\* Mutant: a frame error is taken for a refusal of the file.
FrameErrorRetried(r) ==
    IF Repeats(r)
    THEN Goto(r, "asDocument") /\ UNCHANGED <<ready, reply, storeVars>>
    ELSE Fail(r) /\ ready' = FALSE
FrameErrorEnds(r) == Fail(r) /\ ready' = FALSE

\* The frame goes away under the send, before or after WhatsApp took the part.
SendFrameError(r) ==
    /\ Fault
    /\ pc[r] \in Sending
    /\ Delivers(r) \/ UNCHANGED delivered
    /\ FrameErrorEnds(r)
    /\ UNCHANGED <<now, up, lastSentAt, part, wakeAt, misread>>

----------------------------------------------------------------------------
(* The environment *)

Tick ==
    /\ now < MaxTime \/ \E r \in Requests : pc[r] = "asleep" /\ wakeAt[r] > now
    /\ now' = now + 1
    /\ UNCHANGED <<faults, up, ready, storeVars, sendVars>>

SessionReady ==
    /\ up /\ ~ready
    /\ ready' = TRUE
    /\ UNCHANGED <<now, faults, up, storeVars, sendVars>>

SessionLost ==
    /\ Fault
    /\ ready
    /\ ready' = FALSE
    /\ UNCHANGED <<now, up, storeVars, sendVars>>

\* Every connection is torn; a part handed to WhatsApp may still be delivered. SIGTERM is no
\* better: shutdown flushes the message history, not this store.
Crash ==
    /\ Fault
    /\ up
    /\ up' = FALSE /\ ready' = FALSE
    /\ loaded' = "no" /\ completed' = NoRecord /\ inFlight' = {}
    /\ queued' = 0 /\ writing' = FALSE /\ snap' = NoRecord
    /\ lastSentAt' = -MessageDelay
    /\ LET Open == {r \in Requests : pc[r] \in InSend \cup {"claiming"}}
           On == {r \in Requests : pc[r] \in Sending}
       IN /\ pc' = [r \in Requests |-> IF r \in Open THEN "ended" ELSE pc[r]]
          /\ reply' = [r \in Requests |-> IF r \in Open THEN "torn" ELSE reply[r]]
          /\ \E late \in SUBSET On :
                delivered' = [r \in Requests |->
                    IF r \in late
                    THEN [delivered[r] EXCEPT ![part[r]] = OneMore(@)]
                    ELSE delivered[r]]
    /\ wakeAt' = [r \in Requests |-> 0]
    /\ UNCHANGED <<now, part, disk, misread>>

Restart ==
    /\ ~up
    /\ up' = TRUE
    /\ UNCHANGED <<now, faults, ready, storeVars, sendVars>>

----------------------------------------------------------------------------
RequestStep(r) ==
    \/ Claim(r) \/ ChatListed(r) \/ NumberResolved(r) \/ ResolveFails(r) \/ NumberFrameError(r)
    \/ BadAttachment(r) \/ Throttle(r) \/ Wake(r)
    \/ PartSent(r) \/ Refused(r) \/ CutOff(r) \/ SendFrameError(r)

Next ==
    \/ \E r \in Requests : CallKeyless(r) \/ CallKeyed(r) \/ RequestStep(r)
    \/ load \/ PersistStart \/ PersistDone \/ PersistFails
    \/ Tick \/ SessionReady \/ SessionLost \/ Crash \/ Restart

Spec == Init /\ [][Next]_vars

\* The page answers every call, the file read ends and the clock goes on; callers, the
\* session and the disk's writes are free.
FairSpec ==
    /\ Spec
    /\ \A r \in Requests : WF_vars(RequestStep(r))
    /\ WF_vars(load) /\ WF_vars(Tick)

----------------------------------------------------------------------------
(* Properties *)

\* Every variable has its type: the stages of a request, the record's times, the claims.
TypeOK ==
    /\ now \in Nat /\ faults \in Nat /\ up \in BOOLEAN /\ ready \in BOOLEAN
    /\ loaded \in {"no", "reading", "yes"} /\ inFlight \subseteq Keys
    /\ queued \in Nat /\ writing \in BOOLEAN
    /\ completed \in [Keys -> Nat] /\ snap \in [Keys -> Nat] /\ disk \in [Keys -> Nat]
    /\ lastSentAt \in Int
    /\ pc \in [Requests -> Stages] /\ part \in [Requests -> Nat]
    /\ wakeAt \in [Requests -> Int] /\ reply \in [Requests -> Replies]
    /\ DOMAIN delivered = Requests
    /\ \A r \in Requests : delivered[r] \in [DOMAIN Content[r] -> 0 .. 3]
    /\ misread \subseteq Requests \X Nat

\* A key is claimed exactly as long as one request is sending under it: no error path, crash or
\* replay leaves a key claimed that nobody will release (every retry would get a 409), and no
\* send runs unclaimed.
ClaimsMatchSends ==
    \A k \in Keys : Cardinality(Running(k)) = IF k \in inFlight THEN 1 ELSE 0

\* Whatever the record answers for, in memory or on disk, was delivered whole by one request.
RecordMeansDelivered ==
    \A k \in Keys : completed[k] # 0 \/ snap[k] # 0 \/ disk[k] # 0 =>
        \E r \in Requests : /\ KeyOf[r] = k
                            /\ reply[r] = "sent"
                            /\ \A i \in DOMAIN Content[r] : delivered[r][i] > 0

\* One run of the send leaves at most one copy of each of its parts in the chat, whatever fails
\* and whenever the process ends, with one exception: a photo, video or audio whose inline try
\* WhatsApp took while its error did not say so is in the chat twice, and never more often. A text
\* and a file sent as a document from the start are never doubled.
OneSendOneCopy ==
    \A r \in Requests : \A i \in DOMAIN Content[r] : delivered[r][i] > 1 =>
        /\ delivered[r][i] = 2
        /\ <<r, i>> \in misread /\ KindOf(Content[r][i]) = "inline"

\* The formats by what they are, not by what the code takes them for. IsoPictures are the ones
\* that share the container of the videos.
PictureFormats == {"jpeg", "png", "webp"}
VideoFormats == {"qt", "3gp", "mp42"}
SoundFormats == {"wav", "ogg", "id3", "M4A"}
IsoPictures == {"heic", "avif"}

\* The formats that may be handed over under an inline type.
FormatsOf(mimetype) ==
    CASE mimetype \in {"image/jpeg", "image/png", "image/webp"}        -> PictureFormats
      [] mimetype \in {"video/mp4", "video/3gpp", "video/quicktime"}   -> VideoFormats
      [] OTHER                                                         -> SoundFormats

\* "A video or an HTML error page saved as .jpeg is sent under the type the content implies"
\* (README): a file whose bytes have a signature the code looks for is handed to the page's media
\* decoder only as the medium it is, whatever its name and its caller say. HEIC and AVIF, which go
\* out as a video (HeicGoesInline), are the exception, and a format without a signature goes by
\* its name.
NoMislabelledInline ==
    \A r \in Requests : pc[r] = "inline" /\ Kind(r) # "text" =>
        LET file == Content[r][part[r]]
        IN  file.format \in (Signed \cup IsoMedia) \ IsoPictures =>
                file.format \in FormatsOf(verifiedMimetype(file))

\* Every call is answered, or torn by a crash: no request waits for ever on the load, the
\* throttle or a claim.
Answered == \A r \in Requests : pc[r] # "new" ~> reply[r] # "none"

\* The store implements the contract of the key.
Contract ==
    INSTANCE SendContract WITH
        running <- [k \in Keys |-> Running(k)],
        answered <- {k \in Keys : completed[k] # 0},
        ever <- {KeyOf[r] : r \in {q \in Requests : reply[q] = "sent" /\ Keyed(q)}}
HonoursContract == Contract!Spec

\* "Exactly-once holds for complete sends": within the time to live, no key is sent whole twice.
ExactlyOnce ==
    \A k \in Keys : Cardinality({r \in Requests : KeyOf[r] = k /\ reply[r] = "sent"}) <= 1

\* "Enforces a minimum gap between sends": a part goes out no sooner than the delay after the
\* one before it, whichever request that was of.
MinimumGap ==
    [][\A r \in Requests :
          pc'[r] \in Sending /\ pc[r] # pc'[r] => now - lastSentAt >= MessageDelay]_vars
=============================================================================
