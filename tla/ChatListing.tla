----------------------------- MODULE ChatListing -----------------------------
(***************************************************************************)
(* GET /chats: one listing of the account's chats, over a page that may    *)
(* break off between any two of its calls. A bulk read describes every     *)
(* chat; when it fails, the ids are read and each chat is looked up. What  *)
(* has no human name after that is looked up once more, within a budget.   *)
(* The listings of two callers share nothing, so one is enough.            *)
(*                                                                         *)
(* A name is the shape of its text: absent, number-shaped, or one a human  *)
(* chose. A row has the title, a group's subject, the names of a contact   *)
(* (the verified name is treated as the push name) and the number. What    *)
(* else a row holds, the order of the rows and the counts are left out.    *)
(***************************************************************************)
EXTENDS Integers, FiniteSets

CONSTANTS
    Chats,              \* the chats WhatsApp Web may have loaded
    Private,            \* those with a contact behind them: '@c.us' and '@lid'
    None,               \* no chat
    ChatEnrichLimit,    \* WHATSAPP_CHAT_ENRICH_LIMIT
    \* Bound of the model:
    MaxFaults           \* pages lost, list reads that fail for a reason of their own

ASSUME ListingAssumption ==
    /\ IsFiniteSet(Chats) /\ None \notin Chats /\ Private \subseteq Chats
    /\ ChatEnrichLimit \in Nat /\ MaxFaults \in Nat

Names == {"title", "subject", "contactName", "pushName"}
Fields == Names \cup {"phoneNumber"}
Shapes == {"absent", "number", "human"}
Nothing == [f \in Fields |-> "absent"]

VARIABLES
    faults,
    alive,      \* the page answers: otherwise a call meets a frame error
    \* the listing: the await it is at, its loop and the chat that is about, the chats the loop
    \* has still to go through, the budget, the descriptors of those in `found`
    stage, loop, chat, todo, enrichBudget, descriptor, found,
    \* the answer in the making: the source of each row's name, and unreadableChatIds
    nameSource, unreadable,
    \* what was asked and answered: the ids a list read gave, the look-ups of each loop, and the
    \* names of a chat that some read gave as a human's
    listed, lookups, offered

loopVars == <<loop, chat, todo, enrichBudget>>
descVars == <<descriptor, found, offered>>
rowVars == <<nameSource, unreadable>>
vars == <<faults, alive, stage, loopVars, descVars, rowVars, listed, lookups>>

Stages == {"new", "bulk", "ids", "next", "chat", "contact", "answered", "failed"}
Sources == {"none", "human", "number", "fallback"}
Ended == {"answered", "failed"}

Init ==
    /\ faults = 0 /\ alive = TRUE
    /\ stage = "new" /\ loop = "none" /\ chat = None /\ todo = {}
    /\ enrichBudget = ChatEnrichLimit
    /\ descriptor = [c \in Chats |-> Nothing] /\ found = {}
    /\ nameSource = [c \in Chats |-> "none"] /\ unreadable = {}
    /\ listed = {} /\ lookups = {} /\ offered = [c \in Chats |-> {}]

Fault == faults < MaxFaults /\ faults' = faults + 1

----------------------------------------------------------------------------
(* Names *)

\* What a read may give: only a private chat has a contact, with names and a number, and only a
\* group or a channel has a subject. The chat's read and that of its contact give a part each.
Has(c) == IF c \in Private THEN Fields \ {"subject"} ELSE {"title", "subject"}
Reads(fields) ==
    {p \in Chats \X [Fields -> Shapes] :
        /\ \A f \in Fields \ (fields \cap Has(p[1])) : p[2][f] = "absent"
        /\ p[2]["phoneNumber"] # "human"}
PageReads == Reads(Fields)
ChatReads == Reads({"title", "subject"})
ContactReads == Reads({"contactName", "pushName", "phoneNumber"})

Humans(d) == {f \in Names : d[f] = "human"}

\* Mutant: a title that is only a phone number counts.
isDescribedByNumber(d) == \E f \in Names : d[f] # "absent"
isDescribed(d) == Humans(d) # {}

\* `??=`: what is there stays, a number too.
Merge(d, read) == [f \in Fields |-> IF d[f] = "absent" THEN read[f] ELSE d[f]]

\* toChatSummary: a human's name, else the first number there is, else the id.
\* Mutant: the title comes first whatever it is.
SourceByTitle(d) ==
    IF d["title"] = "number" THEN "number"
    ELSE IF Humans(d) # {} THEN "human" ELSE IF d = Nothing THEN "fallback" ELSE "number"
SourceOf(d) ==
    IF Humans(d) # {} THEN "human" ELSE IF d = Nothing THEN "fallback" ELSE "number"

----------------------------------------------------------------------------
(* The page *)

PageLost ==
    /\ Fault
    /\ alive
    /\ alive' = FALSE
    /\ UNCHANGED <<stage, loopVars, descVars, rowVars, listed, lookups>>

PageBack ==
    /\ ~alive
    /\ alive' = TRUE
    /\ UNCHANGED <<faults, stage, loopVars, descVars, rowVars, listed, lookups>>

----------------------------------------------------------------------------
(* listChatSummaries and readChatDescriptors *)

\* Refused unless the status is ready, which it may be for a while after the page was lost.
Start ==
    /\ stage = "new"
    /\ stage' \in IF alive THEN {"bulk"} ELSE {"bulk", "failed"}
    /\ UNCHANGED <<faults, alive, loopVars, descVars, rowVars, listed, lookups>>

Loop(name, S) == loop' = name /\ todo' = S /\ stage' = "next" /\ UNCHANGED <<chat, enrichBudget>>

\* One page call describes the chats loaded so far; a chat whose models throw has its id only.
listChatDescriptors ==
    /\ stage = "bulk" /\ alive
    /\ \E S \in SUBSET Chats : \E read \in [S -> {p[2] : p \in PageReads}] :
        /\ \A c \in S : <<c, read[c]>> \in PageReads
        /\ listed' = S /\ found' = S
        /\ descriptor' = [c \in Chats |-> IF c \in S THEN read[c] ELSE Nothing]
    /\ offered' = [c \in Chats |-> Humans(descriptor'[c])]
    /\ Loop("rows", listed')
    /\ UNCHANGED <<faults, alive, rowVars, lookups>>

\* Any error of it will do for the fallback, that of a lost page too.
BulkFails ==
    /\ stage = "bulk"
    /\ IF alive THEN Fault ELSE UNCHANGED faults
    /\ stage' = "ids"
    /\ UNCHANGED <<alive, loopVars, descVars, rowVars, listed, lookups>>

listChatIds ==
    /\ stage = "ids" /\ alive
    /\ listed' \in SUBSET Chats
    /\ Loop("ids", listed')
    /\ UNCHANGED <<faults, alive, descVars, rowVars, lookups>>

IdsFail ==
    /\ stage = "ids"
    /\ IF alive THEN Fault ELSE UNCHANGED faults
    /\ stage' = "failed"
    /\ UNCHANGED <<alive, loopVars, descVars, rowVars, listed, lookups>>

Row(c, d) == nameSource' = [nameSource EXCEPT ![c] = SourceOf(d)]

\* Every id of the fallback is looked up, whatever the budget.
FirstLookup(c) ==
    /\ stage = "next" /\ loop = "ids" /\ c \in todo
    /\ chat' = c /\ stage' = "chat" /\ lookups' = lookups \cup {<<loop, c>>}
    /\ UNCHANGED <<faults, alive, loop, todo, enrichBudget, descVars, rowVars, listed>>

IdsDone ==
    /\ stage = "next" /\ loop = "ids" /\ todo = {}
    /\ Loop("rows", found)
    /\ UNCHANGED <<faults, alive, descVars, rowVars, listed, lookups>>

\* Mutant: the last look-up is made on a spent budget.
AffordsOneMore == enrichBudget >= 0
Affords == enrichBudget > 0

SecondLookup(c) ==
    /\ stage = "next" /\ loop = "rows" /\ c \in todo
    /\ ~isDescribed(descriptor[c]) /\ Affords
    /\ enrichBudget' = enrichBudget - 1
    /\ chat' = c /\ stage' = "chat" /\ lookups' = lookups \cup {<<loop, c>>}
    /\ UNCHANGED <<faults, alive, loop, todo, descVars, rowVars, listed>>

RowAsItIs(c) ==
    /\ stage = "next" /\ loop = "rows" /\ c \in todo
    /\ isDescribed(descriptor[c]) \/ ~Affords
    /\ Row(c, descriptor[c])
    /\ todo' = todo \ {c}
    /\ UNCHANGED <<faults, alive, stage, loop, chat, enrichBudget, descVars, unreadable, listed,
                   lookups>>

RowsDone ==
    /\ stage = "next" /\ loop = "rows" /\ todo = {}
    /\ stage' = "answered"
    /\ UNCHANGED <<faults, alive, loopVars, descVars, rowVars, listed, lookups>>

----------------------------------------------------------------------------
(* enrichDescriptor: the chat, then its contact *)

Learns(read) ==
    /\ descriptor' = [descriptor EXCEPT ![chat] = Merge(@, read)]
    /\ offered' = [offered EXCEPT ![chat] = @ \cup Humans(read)]

\* Back in the loop it was called from, with what has been learnt.
Enriched ==
    /\ stage' = "next" /\ chat' = None /\ todo' = todo \ {chat}
    /\ found' = found \cup {chat}
    /\ IF loop = "rows" THEN Row(chat, descriptor'[chat]) ELSE UNCHANGED nameSource
    /\ UNCHANGED <<loop, enrichBudget>>

ThenContact ==
    IF chat \in Private THEN stage' = "contact" /\ UNCHANGED <<loopVars, found, nameSource>>
    ELSE Enriched

getChatById ==
    /\ stage = "chat" /\ alive
    /\ \E p \in ChatReads : p[1] = chat /\ Learns(p[2])
    /\ ThenContact
    /\ UNCHANGED <<faults, alive, unreadable, listed, lookups>>

\* WhatsApp will not let the library model the chat; its contact may still be read.
ChatUnreadable ==
    /\ stage = "chat" /\ alive
    /\ unreadable' = unreadable \cup {chat}
    /\ Learns(Nothing)
    /\ ThenContact
    /\ UNCHANGED <<faults, alive, listed, lookups>>

\* The contact, or an error that is not worth more than a line in the log.
getContactById ==
    /\ stage = "contact" /\ alive
    /\ \E p \in ContactReads : p[1] = chat /\ Learns(p[2])
    /\ Enriched
    /\ UNCHANGED <<faults, alive, unreadable, listed, lookups>>

\* Mutant: an id that could not be described is dropped.
DropsId == UNCHANGED unreadable
KeepsId == unreadable' = unreadable \cup {chat}

\* Mutant: the chat is asked for again until the page is back.
AsksAgain == UNCHANGED todo
GoesOn == todo' = todo \ {chat}

\* In the fallback a frame error costs one chat its row, and the loop goes on over the same page.
FrameErrorOfId ==
    /\ stage \in {"chat", "contact"} /\ ~alive /\ loop = "ids"
    /\ KeepsId
    /\ GoesOn
    /\ stage' = "next" /\ chat' = None
    /\ UNCHANGED <<faults, alive, loop, enrichBudget, descVars, nameSource, listed, lookups>>

FrameErrorOfRow ==
    /\ stage \in {"chat", "contact"} /\ ~alive /\ loop = "rows"
    /\ stage' = "failed"
    /\ UNCHANGED <<faults, alive, loopVars, descVars, rowVars, listed, lookups>>

----------------------------------------------------------------------------
ListingStep ==
    \/ listChatDescriptors \/ BulkFails \/ listChatIds \/ IdsFail
    \/ \E c \in Chats : FirstLookup(c) \/ SecondLookup(c) \/ RowAsItIs(c)
    \/ IdsDone \/ RowsDone
    \/ getChatById \/ ChatUnreadable \/ getContactById \/ FrameErrorOfId \/ FrameErrorOfRow

Next == Start \/ ListingStep \/ PageLost \/ PageBack

Spec == Init /\ [][Next]_vars

\* Page calls return, with a frame error when the page is gone; nobody is assumed to bring it back.
FairSpec == Spec /\ WF_vars(ListingStep)

----------------------------------------------------------------------------
(* Properties *)

\* Every variable has its type; the look-ups of the second pass stay within the limit, and only
\* the fallback makes others.
TypeOK ==
    /\ faults \in 0 .. MaxFaults /\ alive \in BOOLEAN
    /\ stage \in Stages /\ loop \in {"none", "ids", "rows"} /\ chat \in Chats \cup {None}
    /\ todo \subseteq Chats /\ listed \subseteq Chats
    /\ found \subseteq listed /\ unreadable \subseteq listed
    /\ descriptor \in [Chats -> [Fields -> Shapes]] /\ offered \in [Chats -> SUBSET Names]
    /\ nameSource \in [Chats -> Sources]
    /\ lookups \subseteq {"ids", "rows"} \X Chats
    /\ enrichBudget \in Nat
    /\ enrichBudget = ChatEnrichLimit - Cardinality({l \in lookups : l[1] = "rows"})

\* A listing that is answered accounts for every chat it read, by a row or as unreadable, however
\* its reads failed: a chat missing from both would never be put on the forward allowlist.
EveryChatAccounted ==
    stage = "answered" => \A c \in listed : nameSource[c] # "none" \/ c \in unreadable

\* A row names a chat by a number or its id only for cause: it was looked up in the second pass,
\* or the budget was spent on others; and every human name a read gave of it lost to a number
\* that an earlier read gave for the same field.
\* ("`number` means WhatsApp only had a phone number and `fallback` means it had nothing at all")
NamelessForCause ==
    \A c \in Chats : nameSource[c] \in {"number", "fallback"} =>
        /\ <<"rows", c>> \in lookups \/ enrichBudget = 0
        /\ \A f \in offered[c] : descriptor[c][f] = "number"
        /\ nameSource[c] = "fallback" <=> descriptor[c] = Nothing

\* A listing that was started ends, with an answer or an error, even over a page that stays lost.
Ends == stage = "bulk" ~> stage \in Ended
=============================================================================
