------------------------- MODULE ChatListing_proofs -------------------------
(***************************************************************************)
(* Proofs about ChatListing, for any chats, any budget and any number of   *)
(* times that the page is lost and comes back.                             *)
(***************************************************************************)
EXTENDS ChatListing, FiniteSetTheorems, TLAPS

USE DEF vars, loopVars, descVars, rowVars

Descriptors == [Fields -> Shapes]

----------------------------------------------------------------------------
(* Names *)

\* A read is a descriptor of one of the chats.
LEMMA ReadTypes ==
    ASSUME NEW fields, NEW p \in Reads(fields)
    PROVE  p[1] \in Chats /\ p[2] \in Descriptors
  BY DEF Reads, Descriptors

LEMMA NothingTypes == Nothing \in Descriptors /\ Humans(Nothing) = {}
  BY DEF Nothing, Descriptors, Shapes, Fields, Names, Humans

\* What is merged keeps what was there, and has something where the read had a human's name.
LEMMA MergeKeeps ==
    ASSUME NEW d \in Descriptors, NEW read \in Descriptors
    PROVE  /\ Merge(d, read) \in Descriptors
           /\ \A f \in Fields : d[f] # "absent" => Merge(d, read)[f] # "absent"
           /\ \A f \in Humans(read) : Merge(d, read)[f] # "absent"
  BY DEF Descriptors, Merge, Humans, Fields, Names

\* A row without a human's name has none in its descriptor, and says "fallback" of nothing else
\* than an empty one.
LEMMA SourceTells ==
    ASSUME NEW d \in Descriptors
    PROVE  /\ SourceOf(d) \in {"human", "number", "fallback"}
           /\ SourceOf(d) # "human" => Humans(d) = {}
           /\ SourceOf(d) = "fallback" <=> d = Nothing
  BY NothingTypes DEF SourceOf

----------------------------------------------------------------------------
(* The invariant *)

\* The types, without the account of the budget.
ListTypes ==
    /\ faults \in 0 .. MaxFaults /\ alive \in BOOLEAN
    /\ stage \in Stages /\ loop \in {"none", "ids", "rows"} /\ chat \in Chats \cup {None}
    /\ todo \subseteq listed /\ listed \subseteq Chats
    /\ found \subseteq listed /\ unreadable \subseteq listed
    /\ descriptor \in [Chats -> Descriptors] /\ offered \in [Chats -> SUBSET Names]
    /\ nameSource \in [Chats -> Sources]

\* Which loop an await belongs to, and that the chat it is about has not been done.
LoopInv ==
    /\ stage \in {"new", "bulk", "ids"} => loop = "none"
    /\ loop = "none" => listed = {}
    /\ stage \in {"next", "chat", "contact"} => loop # "none"
    /\ stage \in {"chat", "contact"} => chat \in todo
    /\ stage = "answered" => loop = "rows" /\ todo = {}

Spent == {l \in lookups : l[1] = "rows"}

\* The second pass asks about a chat once, and pays for it.
BudgetInv ==
    /\ lookups \subseteq {"ids", "rows"} \X Chats
    /\ enrichBudget \in Nat /\ enrichBudget = ChatEnrichLimit - Cardinality(Spent)
    /\ loop # "rows" => Spent = {}
    /\ loop = "rows" /\ stage \in {"chat", "contact"} => <<"rows", chat>> \in lookups
    /\ loop = "rows" /\ stage \in {"next", "chat", "contact"} =>
          \A c \in todo : <<"rows", c>> \in lookups => stage # "next" /\ c = chat

\* Where a chat that was read is accounted for, at every point of the two loops.
AccountInv ==
    /\ loop = "ids" => listed \subseteq todo \cup found \cup unreadable
    /\ loop = "rows" => \A c \in listed : c \in todo \cup unreadable \/ nameSource[c] # "none"

\* A row is written once, from the descriptor as it is then and will stay; an offered name is
\* left out of a descriptor only for what was there before it.
NamedWell(c) ==
    /\ \A f \in offered[c] : descriptor[c][f] # "absent"
    /\ nameSource[c] # "none" =>
          loop = "rows" /\ c \notin todo /\ nameSource[c] = SourceOf(descriptor[c])
    /\ nameSource[c] \in {"number", "fallback"} =>
          <<"rows", c>> \in lookups \/ enrichBudget = 0
NameInv == \A c \in Chats : NamedWell(c)

\* Nothing that a row depends on has changed for the worse.
NamesKept ==
    /\ UNCHANGED <<descriptor, offered, nameSource>>
    /\ \A c \in Chats : nameSource[c] # "none" => loop' = loop /\ todo' \subseteq todo
    /\ lookups \subseteq lookups' /\ (enrichBudget = 0 => enrichBudget' = 0)

ListInv == ListTypes /\ LoopInv /\ BudgetInv /\ AccountInv /\ NameInv

LEMMA FaultCounts ==
    ASSUME faults \in 0 .. MaxFaults, Fault
    PROVE  faults' \in 0 .. MaxFaults
  BY ListingAssumption DEF Fault

LEMMA ListInit ==
    ASSUME Init
    PROVE  ListInv
<1> USE DEF Init
<1>1. ListTypes
  BY NothingTypes, ListingAssumption DEF ListTypes, Stages, Sources
<1>2. LoopInv
  BY DEF LoopInv
<1>3. Spent = {} /\ Cardinality({}) = 0
  BY FS_EmptySet DEF Spent
<1>4. BudgetInv
  BY <1>3, ListingAssumption DEF BudgetInv
<1>5. AccountInv /\ NameInv
  BY DEF AccountInv, NameInv, NamedWell
<1> QED
  BY <1>1, <1>2, <1>4, <1>5 DEF ListInv

----------------------------------------------------------------------------
(* The steps *)

LEMMA NamesStay ==
    ASSUME NameInv, NamesKept
    PROVE  NameInv'
<1> SUFFICES ASSUME NEW c \in Chats PROVE NamedWell(c)'
  BY DEF NameInv
<1>1. NamedWell(c)
  BY DEF NameInv
<1>2. SourceOf(descriptor[c])' = SourceOf(descriptor[c])
  BY DEF NamesKept, SourceOf, Humans
<1> QED
  BY <1>1, <1>2 DEF NamedWell, NamesKept

\* What enrichDescriptor learns goes into the descriptor of a chat that has no row yet.
LEMMA EnrichStep ==
    ASSUME ListInv, stage \in {"chat", "contact"},
           NEW read \in Descriptors, Learns(read), ThenContact \/ Enriched,
           unreadable' \in {unreadable, unreadable \cup {chat}},
           UNCHANGED <<faults, alive, listed, lookups>>
    PROVE  ListInv'
<1> USE DEF ListInv
<1>1. chat \in todo /\ chat \in Chats /\ loop # "none" /\ chat \in listed
  BY DEF LoopInv, ListTypes
<1>2. /\ descriptor' \in [Chats -> Descriptors] /\ offered' \in [Chats -> SUBSET Names]
      /\ \A c \in Chats \ {chat} : descriptor'[c] = descriptor[c] /\ offered'[c] = offered[c]
      /\ \A f \in offered'[chat] : descriptor'[chat][f] # "absent"
  <2>1. descriptor[chat] \in Descriptors /\ offered[chat] \subseteq Names
    BY <1>1 DEF ListTypes
  <2>2. Humans(read) \subseteq Names /\ Names \subseteq Fields
    BY DEF Humans, Fields
  <2>3. /\ descriptor' = [descriptor EXCEPT ![chat] = Merge(descriptor[chat], read)]
        /\ offered' = [offered EXCEPT ![chat] = offered[chat] \cup Humans(read)]
    BY DEF Learns
  <2>4. \A f \in offered[chat] : descriptor[chat][f] # "absent"
    BY <1>1 DEF NameInv, NamedWell
  <2> QED
    BY <1>1, <2>1, <2>2, <2>3, <2>4, MergeKeeps DEF ListTypes
<1>3. CASE stage' = "contact" /\ UNCHANGED <<loopVars, found, nameSource>>
  <2>1. ListTypes'
    BY <1>1, <1>2, <1>3 DEF ListTypes, Stages
  <2>2. LoopInv' /\ AccountInv'
    BY <1>1, <1>3 DEF LoopInv, AccountInv
  <2>3. BudgetInv'
    BY <1>3 DEF BudgetInv, Spent
  <2>4. NameInv'
    <3> SUFFICES ASSUME NEW c \in Chats PROVE NamedWell(c)'
      BY DEF NameInv
    <3>1. NamedWell(c)
      BY DEF NameInv
    <3>2. c # chat => descriptor'[c] = descriptor[c] /\ offered'[c] = offered[c]
      BY <1>2
    <3>3. nameSource[chat] = "none"
      BY <1>1 DEF NameInv, NamedWell
    <3> QED
      BY <1>2, <1>3, <3>1, <3>2, <3>3 DEF NamedWell, SourceOf, Humans
  <2> QED
    BY <2>1, <2>2, <2>3, <2>4
<1>4. CASE Enriched
  <2>1. /\ nameSource' \in [Chats -> Sources]
        /\ \A c \in Chats \ {chat} : nameSource'[c] = nameSource[c]
        /\ loop = "rows" => nameSource'[chat] = SourceOf(descriptor'[chat]) /\ nameSource'[chat] # "none"
        /\ loop # "rows" => nameSource' = nameSource
    <3>1. descriptor'[chat] \in Descriptors
      BY <1>1, <1>2
    <3>2. SourceOf(descriptor'[chat]) \in Sources \ {"none"}
      BY <3>1, SourceTells DEF Sources
    <3> QED
      BY <1>1, <1>4, <3>2 DEF Enriched, Row, ListTypes
  <2>2. stage' = "next" /\ todo' = todo \ {chat} /\ found' = found \cup {chat} /\ chat' = None
        /\ UNCHANGED <<loop, enrichBudget>>
    BY <1>4 DEF Enriched
  <2>3. ListTypes'
    BY <1>1, <1>2, <2>1, <2>2 DEF ListTypes, Stages
  <2>4. LoopInv'
    BY <1>1, <2>2 DEF LoopInv
  <2>5. AccountInv'
    BY <1>1, <2>1, <2>2 DEF AccountInv, ListTypes
  <2>6. BudgetInv'
    BY <2>2 DEF BudgetInv, Spent
  <2>7. NameInv'
    <3>1. loop = "rows" => <<"rows", chat>> \in lookups
      BY DEF BudgetInv
    <3>2. nameSource'[chat] # "none" =>
             loop = "rows" /\ nameSource'[chat] = SourceOf(descriptor'[chat])
      BY <1>1, <2>1 DEF NameInv, NamedWell
    <3>3. ASSUME NEW c \in Chats \ {chat}
          PROVE  NamedWell(c)'
      <4>1. NamedWell(c)
        BY DEF NameInv
      <4>2. /\ nameSource'[c] = nameSource[c] /\ descriptor'[c] = descriptor[c]
            /\ offered'[c] = offered[c] /\ (c \notin todo => c \notin todo')
        BY <1>2, <2>1, <2>2
      <4> QED
        BY <2>2, <4>1, <4>2 DEF NamedWell, SourceOf, Humans
    <3>4. ASSUME NEW c \in Chats, c = chat
          PROVE  NamedWell(c)'
      <4>1. c \notin todo' /\ loop' = loop /\ lookups' = lookups
        BY <2>2, <3>4
      <4>2. \A f \in offered'[chat] : descriptor'[chat][f] # "absent"
        BY <1>2
      <4> QED
        BY <3>1, <3>2, <3>4, <4>1, <4>2 DEF NamedWell, SourceOf, Humans
    <3> QED
      BY <2>2, <3>3, <3>4 DEF NameInv
  <2> QED
    BY <2>3, <2>4, <2>5, <2>6, <2>7
<1> QED
  BY <1>3, <1>4 DEF ThenContact

LEMMA RowStep ==
    ASSUME ListInv, NEW c \in Chats, RowAsItIs(c)
    PROVE  ListInv'
<1> USE DEF ListInv, RowAsItIs
<1>1. SourceOf(descriptor[c]) \in Sources \ {"none"}
  BY SourceTells DEF ListTypes, Sources
<1>2. /\ nameSource' \in [Chats -> Sources] /\ nameSource'[c] = SourceOf(descriptor[c])
      /\ \A x \in Chats \ {c} : nameSource'[x] = nameSource[x]
  BY <1>1 DEF Row, ListTypes
<1>3. ListTypes' /\ LoopInv'
  BY <1>2 DEF ListTypes, LoopInv
<1>4. BudgetInv'
  BY DEF BudgetInv, Spent
<1>5. AccountInv'
  BY <1>1, <1>2 DEF AccountInv, ListTypes
<1>6. nameSource'[c] \in {"number", "fallback"} => enrichBudget = 0
  <2>1. isDescribed(descriptor[c]) => SourceOf(descriptor[c]) = "human"
    BY DEF isDescribed, SourceOf
  <2> QED
    BY <1>2, <2>1 DEF Affords, BudgetInv
<1>7. NameInv'
  <2> SUFFICES ASSUME NEW x \in Chats PROVE NamedWell(x)'
    BY DEF NameInv
  <2>1. NamedWell(x)
    BY DEF NameInv
  <2>2. x # c => nameSource'[x] = nameSource[x]
    BY <1>2
  <2> QED
    BY <1>2, <1>6, <2>1, <2>2 DEF NamedWell, SourceOf, Humans
<1> QED
  BY <1>3, <1>4, <1>5, <1>7

LEMMA LookupStep ==
    ASSUME ListInv, NEW c \in Chats, FirstLookup(c) \/ SecondLookup(c)
    PROVE  ListInv'
<1> USE DEF ListInv
<1>1. CASE FirstLookup(c)
  <2> USE <1>1 DEF FirstLookup
  <2>1. ListTypes' /\ LoopInv' /\ AccountInv'
    BY DEF ListTypes, Stages, LoopInv, AccountInv
  <2>2. Spent' = Spent /\ lookups \subseteq lookups'
    BY DEF Spent
  <2>3. BudgetInv'
    BY <2>2 DEF BudgetInv
  <2>4. NameInv'
    BY <2>2, NamesStay DEF NamesKept
  <2> QED
    BY <2>1, <2>3, <2>4
<1>2. CASE SecondLookup(c)
  <2> USE <1>2 DEF SecondLookup
  <2>1. ListTypes' /\ LoopInv' /\ AccountInv'
    BY DEF ListTypes, Stages, LoopInv, AccountInv
  <2>2. enrichBudget \in Nat /\ enrichBudget > 0 /\ enrichBudget' = enrichBudget - 1
        /\ enrichBudget' \in Nat
    BY DEF BudgetInv, Affords
  <2>3. <<"rows", c>> \notin lookups /\ lookups' = lookups \cup {<<"rows", c>>}
    BY DEF BudgetInv
  <2>4. Spent' = Spent \cup {<<"rows", c>>} /\ <<"rows", c>> \notin Spent
    BY <2>3 DEF Spent
  <2>5. IsFiniteSet(Spent)
    <3>1. IsFiniteSet({"rows"} \X Chats)
      BY FS_Singleton, FS_Product, ListingAssumption
    <3>2. Spent \subseteq {"rows"} \X Chats
      BY DEF Spent, BudgetInv
    <3> QED
      BY <3>1, <3>2, FS_Subset
  <2>6. Cardinality(Spent') = Cardinality(Spent) + 1 /\ Cardinality(Spent) \in Nat
    BY <2>4, <2>5, FS_AddElement, FS_CardinalityType
  <2>7. enrichBudget' = ChatEnrichLimit - Cardinality(Spent')
    BY <2>2, <2>6, ListingAssumption DEF BudgetInv
  <2>8. BudgetInv'
    BY <2>2, <2>3, <2>7 DEF BudgetInv
  <2>9. NameInv'
    BY <2>2, <2>3, NamesStay DEF NamesKept
  <2> QED
    BY <2>1, <2>8, <2>9
<1> QED
  BY <1>1, <1>2

LEMMA ListStep ==
    ASSUME ListInv, [Next]_vars
    PROVE  ListInv'
<1> USE DEF ListInv
<1>1. CASE PageLost \/ PageBack \/ Start \/ UNCHANGED vars
  <2>1. ListTypes'
    BY <1>1, FaultCounts DEF PageLost, PageBack, Start, ListTypes, Stages
  <2>2. LoopInv' /\ AccountInv'
    BY <1>1 DEF PageLost, PageBack, Start, LoopInv, AccountInv
  <2>3. BudgetInv'
    BY <1>1 DEF PageLost, PageBack, Start, LoopInv, BudgetInv, Spent
  <2>4. NamesKept
    BY <1>1 DEF PageLost, PageBack, Start, NamesKept
  <2> QED
    BY <2>1, <2>2, <2>3, <2>4, NamesStay
<1>2. CASE listChatDescriptors
  <2>1. PICK S \in SUBSET Chats : \E read \in [S -> {p[2] : p \in PageReads}] :
           /\ listed' = S /\ found' = S
           /\ descriptor' = [c \in Chats |-> IF c \in S THEN read[c] ELSE Nothing]
    BY <1>2 DEF listChatDescriptors
  <2>2. PICK read \in [S -> {p[2] : p \in PageReads}] :
           /\ listed' = S /\ found' = S
           /\ descriptor' = [c \in Chats |-> IF c \in S THEN read[c] ELSE Nothing]
    BY <2>1
  <2>3. \A c \in S : read[c] \in Descriptors
    BY ReadTypes DEF PageReads
  <2>4. descriptor' \in [Chats -> Descriptors]
    BY <2>2, <2>3, NothingTypes
  <2>5. /\ stage = "bulk" /\ loop' = "rows" /\ todo' = listed' /\ stage' = "next"
        /\ UNCHANGED <<chat, enrichBudget, faults, alive, nameSource, unreadable, lookups>>
        /\ offered' = [c \in Chats |-> Humans(descriptor'[c])]
    BY <1>2 DEF listChatDescriptors, Loop
  <2>6. \A c \in Chats : nameSource[c] = "none"
    BY <2>5 DEF NameInv, NamedWell, LoopInv
  <2>7. unreadable = {} /\ Spent = {}
    BY <2>5 DEF LoopInv, ListTypes, BudgetInv
  <2>8. \A c \in Chats : offered'[c] \subseteq Names /\ \A f \in offered'[c] : descriptor'[c][f] = "human"
    BY <2>5 DEF Humans
  <2>9. ListTypes'
    <3>1. offered' \in [Chats -> SUBSET Names]
      BY <2>5, <2>8
    <3> QED
      BY <2>2, <2>4, <2>5, <2>7, <3>1 DEF ListTypes, Stages
  <2>10. LoopInv' /\ AccountInv'
    BY <2>2, <2>5 DEF LoopInv, AccountInv
  <2>11. BudgetInv'
    BY <2>5, <2>7 DEF BudgetInv, Spent
  <2>12. NameInv'
    BY <2>5, <2>6, <2>8 DEF NameInv, NamedWell
  <2> QED
    BY <2>9, <2>10, <2>11, <2>12
<1>3. CASE BulkFails \/ listChatIds \/ IdsFail
  <2>1. unreadable = {} /\ found = {} /\ Spent = {} /\ \A c \in Chats : nameSource[c] = "none"
    BY <1>3 DEF BulkFails, listChatIds, IdsFail, LoopInv, ListTypes, BudgetInv, NameInv, NamedWell
  <2>2. ListTypes'
    BY <1>3, <2>1, FaultCounts DEF BulkFails, listChatIds, Loop, IdsFail, LoopInv, ListTypes, Stages
  <2>3. LoopInv' /\ AccountInv'
    BY <1>3, <2>1 DEF BulkFails, listChatIds, Loop, IdsFail, LoopInv, AccountInv
  <2>4. BudgetInv'
    BY <1>3, <2>1 DEF BulkFails, listChatIds, Loop, IdsFail, LoopInv, BudgetInv, Spent
  <2>5. NamesKept
    BY <1>3, <2>1 DEF BulkFails, listChatIds, Loop, IdsFail, NamesKept
  <2> QED
    BY <2>2, <2>3, <2>4, <2>5, NamesStay
<1>4. ASSUME NEW c \in Chats, FirstLookup(c) \/ SecondLookup(c) \/ RowAsItIs(c) PROVE ListInv'
  BY <1>4, LookupStep, RowStep
<1>5. CASE IdsDone
  <2>1. Spent = {} /\ \A c \in Chats : nameSource[c] = "none"
    BY <1>5 DEF IdsDone, BudgetInv, NameInv, NamedWell
  <2>2. ListTypes' /\ LoopInv' /\ AccountInv'
    BY <1>5 DEF IdsDone, Loop, ListTypes, Stages, LoopInv, AccountInv
  <2>3. BudgetInv'
    BY <1>5, <2>1 DEF IdsDone, Loop, BudgetInv, Spent
  <2>4. NamesKept
    BY <1>5, <2>1 DEF IdsDone, Loop, NamesKept
  <2> QED
    BY <2>2, <2>3, <2>4, NamesStay
<1>6. CASE RowsDone \/ FrameErrorOfRow
  <2>1. ListTypes' /\ LoopInv' /\ AccountInv'
    BY <1>6 DEF RowsDone, FrameErrorOfRow, ListTypes, Stages, LoopInv, AccountInv
  <2>2. BudgetInv'
    BY <1>6 DEF RowsDone, FrameErrorOfRow, BudgetInv, Spent
  <2>3. NamesKept
    BY <1>6 DEF RowsDone, FrameErrorOfRow, NamesKept
  <2> QED
    BY <2>1, <2>2, <2>3, NamesStay
<1>7. CASE getChatById
  <2>1. PICK p \in ChatReads : Learns(p[2])
    BY <1>7 DEF getChatById
  <2>2. p[2] \in Descriptors
    BY ReadTypes DEF ChatReads
  <2> QED
    BY <1>7, <2>1, <2>2, EnrichStep DEF getChatById
<1>8. CASE ChatUnreadable
  BY <1>8, NothingTypes, EnrichStep DEF ChatUnreadable
<1>9. CASE getContactById
  <2>1. PICK p \in ContactReads : Learns(p[2])
    BY <1>9 DEF getContactById
  <2>2. p[2] \in Descriptors
    BY ReadTypes DEF ContactReads
  <2> QED
    BY <1>9, <2>1, <2>2, EnrichStep DEF getContactById
<1>10. CASE FrameErrorOfId
  <2>1. ListTypes' /\ LoopInv' /\ AccountInv'
    BY <1>10 DEF FrameErrorOfId, KeepsId, GoesOn, ListTypes, Stages, LoopInv, AccountInv
  <2>2. BudgetInv'
    BY <1>10 DEF FrameErrorOfId, GoesOn, BudgetInv, Spent
  <2>3. NamesKept
    BY <1>10 DEF FrameErrorOfId, GoesOn, NamesKept
  <2> QED
    BY <2>1, <2>2, <2>3, NamesStay
<1> QED
  BY <1>1, <1>2, <1>3, <1>4, <1>5, <1>6, <1>7, <1>8, <1>9, <1>10 DEF Next, ListingStep

LEMMA ListSafe == Spec => []ListInv
<1>1. Init => ListInv
  BY ListInit
<1>2. ListInv /\ [Next]_vars => ListInv'
  BY ListStep
<1> QED
  BY <1>1, <1>2, PTL DEF Spec

----------------------------------------------------------------------------
(* The theorems *)

\* Every reachable state of a listing is well typed, and its second pass never makes more
\* look-ups than the limit allows.
THEOREM TypeCorrect == Spec => []TypeOK
<1>1. ASSUME ListInv PROVE TypeOK
  <2>1. todo \subseteq Chats
    BY <1>1 DEF ListInv, ListTypes
  <2> QED
    BY <1>1, <2>1 DEF ListInv, ListTypes, BudgetInv, Spent, Descriptors, TypeOK
<1> QED
  BY <1>1, ListSafe, PTL

\* A listing that is answered has lost no chat, whichever of its reads met a lost page.
THEOREM NoChatIsLost == Spec => []EveryChatAccounted
<1>1. ASSUME ListInv PROVE EveryChatAccounted
  BY <1>1 DEF ListInv, LoopInv, AccountInv, EveryChatAccounted
<1> QED
  BY <1>1, ListSafe, PTL

\* No chat goes without a human's name that was read of it, but for a number that an earlier
\* read gave, and none goes without its second look-up while the budget lasts.
THEOREM NamesAreUsed == Spec => []NamelessForCause
<1>1. ASSUME ListInv, NEW c \in Chats, nameSource[c] \in {"number", "fallback"}
      PROVE  /\ <<"rows", c>> \in lookups \/ enrichBudget = 0
             /\ \A f \in offered[c] : descriptor[c][f] = "number"
             /\ nameSource[c] = "fallback" <=> descriptor[c] = Nothing
  <2>1. descriptor[c] \in Descriptors /\ offered[c] \subseteq Names
    BY <1>1 DEF ListInv, ListTypes
  <2>2. NamedWell(c) /\ nameSource[c] = SourceOf(descriptor[c])
    BY <1>1 DEF ListInv, NameInv, NamedWell
  <2>3. Humans(descriptor[c]) = {} /\ (nameSource[c] = "fallback" <=> descriptor[c] = Nothing)
    BY <1>1, <2>1, <2>2, SourceTells
  <2>4. ASSUME NEW f \in offered[c] PROVE descriptor[c][f] = "number"
    BY <2>1, <2>2, <2>3 DEF NamedWell, Humans, Descriptors, Fields, Shapes
  <2> QED
    BY <1>1, <2>2, <2>3, <2>4 DEF NamedWell
<1>2. ListInv => NamelessForCause
  BY <1>1 DEF NamelessForCause
<1> QED
  BY <1>2, ListSafe, PTL
=============================================================================
