------------------------- MODULE ToolWritesProofs -------------------------
(***************************************************************************)
(* Proofs about ToolWrites: its types, that a conditional write loses no   *)
(* update, and that a tool never grows a checklist past the limit.         *)
(***************************************************************************)
EXTENDS ToolWrites, FiniteSetTheorems, TLAPS

ToolRecords ==
    [asks : SUBSET Fields, compared : SUBSET (Fields \cup {"fence"}),
     reads : Seq(Reads), ifMatch : BOOLEAN, confirm : {"read", "answer", "either", "none"},
     empty : BOOLEAN]

\* Every tool is described by a record of the fields the actions read.
LEMMA ToolTypes == Tools \subseteq ToolRecords
<1>1. \A x, y \in Reads : <<x>> \in Seq(Reads) /\ <<x, y>> \in Seq(Reads)
  OBVIOUS
<1>2. <<>> \in Seq(Reads)
  OBVIOUS
<1>3. /\ <<"fence">> \in Seq(Reads)
      /\ <<"exists">> \in Seq(Reads)
      /\ <<"fence", "exists">> \in Seq(Reads)
      /\ <<"fence", "details">> \in Seq(Reads)
      /\ <<"metadata", "content">> \in Seq(Reads)
  BY <1>1 DEF Reads
<1>4. ASSUME NEW r \in Seq(Reads)
      PROVE  ReadBack(r) \in ToolRecords /\ Accepting(r) \in ToolRecords
  BY DEF ReadBack, Accepting, ToolRecords, Fields
<1>5. Creating({}) \in ToolRecords /\ Creating({"named"}) \in ToolRecords
  BY <1>2 DEF Creating, ToolRecords, Fields
<1>6. update_excel_range \in ToolRecords
  BY <1>2 DEF update_excel_range, ToolRecords, Fields
<1>7. /\ update_calendar_event \in ToolRecords
      /\ update_todo_task \in ToolRecords
  BY <1>6 DEF update_calendar_event, update_todo_task, ToolRecords, Fields
<1>8. update_planner_task \in ToolRecords
  BY <1>3, <1>7 DEF update_planner_task, ToolRecords, Fields
<1>9. update_planner_task_details \in ToolRecords
  BY <1>3, <1>6 DEF update_planner_task_details, ToolRecords, Fields
<1>10. replace_office_text \in ToolRecords
  BY <1>3 DEF replace_office_text, ToolRecords, Fields
<1> QED
  BY <1>2, <1>3, <1>4, <1>5, <1>6, <1>7, <1>8, <1>9, <1>10
  DEF Tools, set_directory_user_account_enabled, update_directory_group,
      add_user_to_group, append_onenote_page_text, rebind_powerbi_report,
      update_entra_application, update_entra_service_principal,
      update_conditional_access_policy, sync_managed_device, reboot_cloudpc,
      refresh_powerbi_dataset, send_mail_draft, create_mail_draft,
      create_calendar_event, create_contact, create_todo_task,
      send_channel_message, send_chat_message, create_planner_task

\* The Planner task tool reads its plan first and sends If-Match; the details tool is
\* another tool.
LEMMA PlannerTool ==
    /\ update_planner_task.reads = <<"fence">>
    /\ update_planner_task.ifMatch
    /\ update_planner_task # update_planner_task_details
<1>1. update_planner_task.reads = <<"fence">>
  BY DEF update_planner_task, update_todo_task, update_excel_range
<1>2. update_planner_task.ifMatch
  BY DEF update_planner_task, update_todo_task, update_excel_range
<1>3. update_planner_task_details.reads = <<"fence", "details">>
  BY DEF update_planner_task_details, update_excel_range
<1> QED
  BY <1>1, <1>2, <1>3

-----------------------------------------------------------------------------
(***************************************************************************)
(* Types.                                                                  *)
(***************************************************************************)

CallInProgress == pc # "idle" => call \in Calls

Typed == TypeOK /\ CallInProgress

\* What the actions need to know of the request.
LEMMA RequestTypes ==
    ASSUME request \in Requests
    PROVE  /\ tool \in ToolRecords
           /\ Len(tool.reads) \in Nat
           /\ \A i \in 1..Len(tool.reads) : tool.reads[i] \in Reads
           /\ request.asks \in SUBSET Fields
           /\ request.additions \in SUBSET Items
<1>1. tool \in Tools
  BY DEF Requests, tool
<1>2. tool \in ToolRecords
  BY <1>1, ToolTypes
<1>3. tool.reads \in Seq(Reads)
  BY <1>2 DEF ToolRecords
<1> QED
  BY <1>2, <1>3 DEF Requests, tool

LEMMA InitTyped == Init => Typed
<1> SUFFICES ASSUME Init PROVE Typed
  OBVIOUS
<1>1. object \in Objects
  BY DEF Init, Objects
<1>2. changes \in 0..MaxChanges
  BY ToolAssumption DEF Init
<1> QED
  BY <1>1, <1>2 DEF Init, Typed, TypeOK, CallInProgress, Points

\* The object stays an object, whatever is written.
LEMMA WrittenTyped ==
    ASSUME NEW o \in Objects, NEW altered, call \in Calls
    PROVE  Written(o, altered) \in Objects
<1> DEFINE data == [f \in Fields |-> IF f \notin call.body THEN o.data[f]
                                    ELSE IF f \in altered THEN "other" ELSE "asked"]
<1>1. o.rev \in Nat /\ o.fence \in BOOLEAN /\ o.data \in [Fields -> Values]
  BY DEF Objects
<1>2. data \in [Fields -> Values]
  BY <1>1 DEF Values
<1>3. Written(o, altered) = [o EXCEPT !.rev = o.rev + 1, !.data = data]
  BY DEF Written
<1> HIDE DEF data
<1>4. Written(o, altered) = [rev |-> o.rev + 1, data |-> data, fence |-> o.fence]
  BY <1>3 DEF Objects
<1> QED
  BY <1>1, <1>2, <1>4 DEF Objects

LEMMA LookTyped == ASSUME Typed, Look PROVE Typed'
<1>1. request \in Requests
  BY DEF Typed, TypeOK
<1>2. call \in Calls /\ object \in Objects
  BY DEF Typed, TypeOK, CallInProgress, Look
<1>3. PatchBody \in SUBSET Fields
  BY <1>1, RequestTypes DEF PatchBody, NewItems, Fields
<1>4. call' \in Calls
  <2>1. CASE \E e \in {"local", "client", "server", "other"} :
                call' = [call EXCEPT !.error = e]
    BY <2>1, <1>2 DEF Calls, Errors
  <2> DEFINE kind == tool.reads[call.looked + 1]
             body == IF kind = "details" THEN PatchBody ELSE call.body
             seen == [call.seen EXCEPT ![kind] = object.rev]
  <2>2. CASE call' = [call EXCEPT !.looked = @ + 1, !.seen = seen, !.body = body]
    <3>1. call.looked + 1 \in 1..Len(tool.reads)
      BY <1>1, <1>2, RequestTypes DEF Look, Calls
    <3>2. tool.reads[call.looked + 1] \in Reads
      BY <1>1, <3>1, RequestTypes
    <3>3. object.rev \in Nat
      BY <1>2 DEF Objects
    <3>4. seen \in [Reads -> Nat] /\ body \in SUBSET Fields /\ call.looked + 1 \in Nat
      BY <1>2, <1>3, <3>2, <3>3 DEF Calls
    <3> HIDE DEF seen, body
    <3> QED
      BY <2>2, <1>2, <3>4 DEF Calls
  <2>3. CASE call' = [call EXCEPT !.looked = @ + 1, !.seen[kind] = object.rev,
                                  !.body = IF kind = "details" THEN PatchBody ELSE @]
    <3>1. call' = [call EXCEPT !.looked = @ + 1, !.seen = seen, !.body = body]
      BY <2>3, <1>2 DEF Calls
    <3> QED
      BY <3>1, <2>2
  <2> QED
    BY <2>1, <2>3 DEF Look, Raise
<1>5. pc' \in Points
  BY DEF Look, Raise, Goto, Points
<1> QED
  BY <1>4, <1>5 DEF Typed, TypeOK, CallInProgress, Look

LEMMA SendTyped == ASSUME Typed, Send PROVE Typed'
<1>1. call \in Calls /\ object \in Objects
  BY DEF Typed, TypeOK, CallInProgress, Send
<1>2. object' \in Objects
  BY <1>1, WrittenTyped DEF Send
<1>3. Matches(object') \in BOOLEAN
  BY DEF Matches
<1>4. call' \in Calls
  <2>1. CASE call' = [call EXCEPT !.counted = @ \cup {"attempted"}, !.landed = TRUE,
                                  !.over = object, !.image = object',
                                  !.stood = Matches(object')]
    BY <2>1, <1>1, <1>2, <1>3 DEF Calls
  <2>2. CASE call' = [call EXCEPT !.counted = @ \cup {"attempted"}]
    BY <2>2, <1>1 DEF Calls
  <2> QED
    BY <2>1, <2>2 DEF Send
<1> QED
  BY <1>2, <1>4 DEF Typed, TypeOK, CallInProgress, Send, Goto, Points

LEMMA AnswerTyped == ASSUME Typed, Answer PROVE Typed'
<1>1. call \in Calls
  BY DEF Typed, TypeOK, CallInProgress, Answer
<1>2. \A v \in Verdicts(call) :
         v[1] \in Errors /\ v[2] \in SUBSET {"attempted", "confirmed", "ambiguous"}
  BY DEF Verdicts, Errors
<1>3. call' \in Calls
  BY <1>1, <1>2 DEF Answer, Calls
<1> QED
  BY <1>3 DEF Typed, TypeOK, CallInProgress, Answer, Goto, Points

LEMMA OthersTyped == ASSUME Typed, Others PROVE Typed'
<1>1. object \in Objects /\ changes \in 0..MaxChanges
  BY DEF Typed, TypeOK
<1>2. tool.asks \subseteq Fields
  BY RequestTypes DEF Typed, TypeOK, ToolRecords
<1>3. object' \in Objects /\ changes' \in 0..MaxChanges
  <2>1. CASE OthersMove
    <3>1. object.rev + 1 \in Nat /\ object.rev \in Nat /\ (~object.fence) \in BOOLEAN
      BY <1>1 DEF Objects
    <3>2. object' \in Objects
      BY <1>1, <2>1, <3>1 DEF OthersMove, Objects
    <3> QED
      BY <2>1, <3>2, <1>1, ToolAssumption DEF OthersMove
  <2>2. ASSUME NEW f \in Fields, NEW v \in Values, OthersEdit(f, v)
        PROVE  object' \in Objects /\ changes' \in 0..MaxChanges
    <3> DEFINE data == [object.data EXCEPT ![f] = v]
    <3>1. object.rev + 1 \in Nat /\ data \in [Fields -> Values]
      BY <1>1 DEF Objects
    <3>2. object' = [object EXCEPT !.rev = object.rev + 1, !.data = data]
      BY <2>2 DEF OthersEdit
    <3> HIDE DEF data
    <3>3. object' \in Objects
      BY <1>1, <3>1, <3>2 DEF Objects
    <3> QED
      BY <2>2, <3>3, <1>1, ToolAssumption DEF OthersEdit
  <2> QED
    BY <2>1, <2>2, <1>2 DEF Others
<1>4. call' \in Calls \cup {None} /\ (call \in Calls => call' \in Calls)
  BY DEF Others, Typed, TypeOK, Calls
<1> QED
  BY <1>3, <1>4 DEF Typed, TypeOK, CallInProgress, Others

LEMMA CloseTyped == ASSUME Typed, Close PROVE Typed'
<1>1. Ledger!FailureStatus(LedgerCall) \in Ledger!Statuses
  BY DEF Ledger!FailureStatus, Ledger!Statuses
<1>2. row' \in Ledger!Statuses
  BY <1>1 DEF Close, Ledger!Statuses
<1> QED
  BY <1>2 DEF Typed, TypeOK, CallInProgress, Close, Goto, Points

\* The other actions change the place and one or two fields of the call.
LEMMA StartTyped ==
    ASSUME Typed, NEW etag \in 1..object.rev, Start(etag) PROVE Typed'
<1>1. etag \in Nat
  BY DEF Typed, TypeOK, Objects
<1>2. request.asks \in SUBSET Fields
  BY RequestTypes DEF Typed, TypeOK
<1>3. [k \in Reads |-> 0] \in [Reads -> Nat] /\ 0 \in 0..MaxRetries
  BY ToolAssumption
<1> DEFINE none == [k \in Reads |-> 0]
<1>4. call' = [etag |-> etag, body |-> request.asks, looked |-> 0,
               seen |-> none, attempt |-> 0, refreshed |-> FALSE,
               counted |-> {}, error |-> "none", landed |-> FALSE,
               over |-> None, image |-> None, stood |-> FALSE]
  BY DEF Start
<1>5. none \in [Reads -> Nat]
  BY <1>3
<1> HIDE DEF none
<1>6. call' \in Calls
  BY <1>1, <1>2, <1>3, <1>4, <1>5 DEF Calls, Errors
<1> QED
  BY <1>6 DEF Typed, TypeOK, CallInProgress, Start, Goto, Points, Ledger!Statuses

LEMMA SmallStepsTyped ==
    ASSUME Typed, Ready \/ Again \/ Verify PROVE Typed'
<1>1. call \in Calls
  BY DEF Typed, TypeOK, CallInProgress, Ready, Again, Verify
<1>2. CASE Ready \/ Verify
  <2>1. \/ UNCHANGED call
        \/ \E e \in Errors : call' = [call EXCEPT !.error = e]
    BY <1>2 DEF Ready, Verify, Raise, Errors
  <2>2. call' \in Calls
    BY <1>1, <2>1 DEF Calls
  <2> QED
    BY <1>2, <2>2
    DEF Typed, TypeOK, CallInProgress, Ready, Verify, Raise, Goto, Points
<1>3. CASE Again
  <2>1. call.attempt + 1 \in 0..MaxRetries
    BY <1>1, <1>3, ToolAssumption DEF Again, Repeats, Calls
  <2>2. PICK refreshed \in {TRUE, call.refreshed} :
           call' = [call EXCEPT !.attempt = @ + 1, !.refreshed = refreshed]
    BY <1>3 DEF Again
  <2>3. call' \in Calls
    BY <1>1, <2>1, <2>2 DEF Calls
  <2> QED
    BY <1>3, <2>3 DEF Typed, TypeOK, CallInProgress, Again, Goto, Points
<1> QED
  BY <1>2, <1>3

LEMMA NextTyped == Typed /\ [Next]_vars => Typed'
<1> SUFFICES ASSUME Typed, [Next]_vars PROVE Typed'
  OBVIOUS
<1>1. CASE UNCHANGED vars
  BY <1>1 DEF vars, Typed, TypeOK, CallInProgress
<1> QED
  BY <1>1, StartTyped, LookTyped, SmallStepsTyped, SendTyped, AnswerTyped,
     CloseTyped, OthersTyped DEF Next

\* Every reachable state is well typed (the request, the row, the call, the object).
THEOREM TypesAreInvariant == Spec => []TypeOK
<1>1. Typed => TypeOK
  BY DEF Typed
<1> QED
  BY <1>1, InitTyped, NextTyped, PTL DEF Spec

-----------------------------------------------------------------------------
(***************************************************************************)
(* No lost update.  Until the write lands, everything the tool read lies   *)
(* between the revision of the ETag and the current one; If-Match closes   *)
(* that interval, so that the ETag need not be compared with any read.     *)
(***************************************************************************)

Before == pc \in {"checking", "writing", "waiting"} /\ ~call.landed

Interval ==
    Before =>
        /\ call.looked \in 0..Len(tool.reads)
        /\ pc # "checking" => call.looked = Len(tool.reads)
        /\ call.etag <= object.rev
        /\ \A i \in 1..call.looked :
              /\ call.etag <= call.seen[tool.reads[i]]
              /\ call.seen[tool.reads[i]] <= object.rev

\* The plan changes only with the revision of the task.
PlanKnown ==
    Before /\ tool = update_planner_task /\ call.looked > 0 =>
        (object.rev = call.seen["fence"] => object.fence)

NotLanded == pc \in {"checking", "writing"} => ~call.landed

Kept ==
    call \in Calls /\ call.landed /\ tool.ifMatch =>
        /\ call.over.rev = call.etag
        /\ \A i \in 1..Len(tool.reads) : call.seen[tool.reads[i]] = call.etag
        /\ tool = update_planner_task => call.over.fence

UpdateInv == Typed /\ Interval /\ PlanKnown /\ NotLanded /\ Kept

LEMMA InvKeepsUpdates == UpdateInv => NoLostUpdate
  BY DEF UpdateInv, Typed, TypeOK, Kept, NoLostUpdate

LEMMA InitUpdateInv == Init => UpdateInv
  BY InitTyped, NoneAssumption
  DEF Init, UpdateInv, Interval, PlanKnown, NotLanded, Kept, Before, Calls

\* A step that leaves the memory of a call alone.
SameMemory ==
    /\ request' = request
    /\ call \in Calls
    /\ call'.landed = call.landed
    /\ call'.over = call.over
    /\ call'.etag = call.etag
    /\ call'.seen = call.seen

LEMMA SameMemoryKeeps == ASSUME Kept, SameMemory PROVE Kept'
  BY DEF Kept, SameMemory, tool

LEMMA StartKeeps ==
    ASSUME UpdateInv, NEW etag \in 1..object.rev, Start(etag) PROVE UpdateInv'
<1>1. Typed'
  BY StartTyped DEF UpdateInv
<1>2. /\ call'.landed = FALSE /\ call'.looked = 0 /\ call'.etag = etag
      /\ object' = object /\ pc' = "checking" /\ tool' = tool
  BY DEF Start, Goto, tool
<1>3. Len(tool.reads) \in Nat /\ object.rev \in Nat
  BY RequestTypes DEF UpdateInv, Typed, TypeOK, Objects
<1> QED
  BY <1>1, <1>2, <1>3
  DEF UpdateInv, Interval, PlanKnown, NotLanded, Kept, Before

LEMMA LookKeeps == ASSUME UpdateInv, Look PROVE UpdateInv'
<1> DEFINE kind == tool.reads[call.looked + 1]
<1>1. Typed'
  BY LookTyped DEF UpdateInv
<1>2. /\ call \in Calls /\ object \in Objects /\ request \in Requests
      /\ call.looked \in Nat /\ object.rev \in Nat /\ call.etag \in Nat
      /\ call.seen \in [Reads -> Nat]
  BY DEF UpdateInv, Typed, TypeOK, CallInProgress, Look, Calls, Objects
<1>3. ~call.landed /\ pc = "checking" /\ request' = request /\ object' = object
      /\ tool' = tool
  BY DEF UpdateInv, NotLanded, Look, tool
<1>4. CASE Raise({"local", "client", "server", "other"})
  <2>1. pc' = "failed" /\ ~call'.landed
    BY <1>2, <1>3, <1>4 DEF Raise, Goto, Calls
  <2> QED
    BY <1>1, <2>1 DEF UpdateInv, Interval, PlanKnown, NotLanded, Kept, Before
<1>5. CASE /\ Passes(kind)
           /\ call' = [call EXCEPT !.looked = @ + 1, !.seen[kind] = object.rev,
                                   !.body = IF kind = "details" THEN PatchBody ELSE @]
           /\ UNCHANGED pc
  <2>1. call.looked < Len(tool.reads) /\ Len(tool.reads) \in Nat
    BY <1>2, RequestTypes DEF Look
  <2>2. \A i \in 1..Len(tool.reads) : tool.reads[i] \in Reads
    BY <1>2, RequestTypes
  <2>3. /\ call'.looked = call.looked + 1 /\ call'.etag = call.etag
        /\ call'.landed = call.landed
        /\ call'.seen = [call.seen EXCEPT ![kind] = object.rev]
    BY <1>2, <1>5 DEF Calls
  <2>4. Interval'
    <3>1. call.etag <= object.rev
      BY <1>3 DEF UpdateInv, Interval, Before
    <3>2. ASSUME NEW i \in 1..call'.looked
          PROVE  /\ call.etag <= call'.seen[tool.reads[i]]
                 /\ call'.seen[tool.reads[i]] <= object.rev
      <4>1. tool.reads[i] \in Reads
        BY <1>2, <2>1, <2>2, <2>3
      <4>2. CASE tool.reads[i] = kind
        BY <4>1, <4>2, <3>1, <2>3, <1>2
      <4>3. CASE tool.reads[i] # kind
        <5>1. i \in 1..call.looked
          BY <4>3, <1>2, <2>3
        <5>2. call'.seen[tool.reads[i]] = call.seen[tool.reads[i]]
          BY <4>1, <4>3, <2>3, <1>2
        <5> QED
          BY <5>1, <5>2, <1>3 DEF UpdateInv, Interval, Before
      <4> QED
        BY <4>2, <4>3
    <3> QED
      BY <1>2, <1>3, <1>5, <2>1, <2>3, <3>1, <3>2 DEF Interval, Before
  <2>5. PlanKnown'
    <3> SUFFICES ASSUME tool = update_planner_task PROVE object.fence
      BY <1>3 DEF PlanKnown
    <3>1. Len(tool.reads) = 1 /\ tool.reads[1] = "fence"
      BY PlannerTool
    <3>2. kind = "fence"
      BY <3>1, <2>1, <1>2
    <3> QED
      BY <3>2, <1>5 DEF Passes
  <2> QED
    BY <1>1, <1>3, <1>5, <2>3, <2>4, <2>5 DEF UpdateInv, NotLanded, Kept
<1> QED
  BY <1>4, <1>5 DEF Look

LEMMA SendKeeps == ASSUME UpdateInv, Send PROVE UpdateInv'
<1>1. Typed'
  BY SendTyped DEF UpdateInv
<1>2. /\ call \in Calls /\ object \in Objects /\ request \in Requests
      /\ call.looked \in Nat /\ object.rev \in Nat /\ call.etag \in Nat
      /\ call.seen \in [Reads -> Nat]
  BY DEF UpdateInv, Typed, TypeOK, CallInProgress, Send, Calls, Objects
<1>3. ~call.landed /\ pc = "writing" /\ pc' = "waiting" /\ tool' = tool
  BY DEF UpdateInv, NotLanded, Send, Goto, tool
<1>4. /\ call.looked = Len(tool.reads)
      /\ call.etag <= object.rev
      /\ \A i \in 1..Len(tool.reads) :
            /\ call.etag <= call.seen[tool.reads[i]]
            /\ call.seen[tool.reads[i]] <= object.rev
  BY <1>3 DEF UpdateInv, Interval, Before
<1>5. CASE /\ Takes
           /\ call' = [call EXCEPT !.counted = @ \cup {"attempted"}, !.landed = TRUE,
                                   !.over = object, !.image = object',
                                   !.stood = Matches(object')]
  <2>1. /\ call'.landed /\ call'.over = object /\ call'.etag = call.etag
        /\ call'.seen = call.seen
    BY <1>2, <1>5 DEF Calls
  <2>2. Kept'
    <3> SUFFICES ASSUME tool.ifMatch
                 PROVE  /\ object.rev = call.etag
                        /\ \A i \in 1..Len(tool.reads) :
                              call.seen[tool.reads[i]] = call.etag
                        /\ tool = update_planner_task => object.fence
      BY <1>3, <2>1 DEF Kept
    <3>1. object.rev = call.etag
      BY <1>5 DEF Takes
    <3>2. ASSUME NEW i \in 1..Len(tool.reads)
          PROVE  call.seen[tool.reads[i]] = call.etag
      <4>1. call.seen[tool.reads[i]] \in Nat
        BY <1>2, RequestTypes
      <4> QED
        BY <4>1, <3>1, <1>2, <1>4
    <3>3. ASSUME tool = update_planner_task PROVE object.fence
      <4>1. Len(tool.reads) = 1 /\ tool.reads[1] = "fence"
        BY <3>3, PlannerTool
      <4>2. object.rev = call.seen["fence"]
        BY <4>1, <3>1, <3>2
      <4> QED
        BY <4>1, <4>2, <1>3, <1>4, <3>3 DEF UpdateInv, PlanKnown, Before
    <3> QED
      BY <3>1, <3>2, <3>3
  <2> QED
    BY <1>1, <1>3, <2>1, <2>2
    DEF UpdateInv, Interval, PlanKnown, NotLanded, Before
<1>6. CASE /\ call' = [call EXCEPT !.counted = @ \cup {"attempted"}]
           /\ UNCHANGED object
  <2>1. /\ ~call'.landed /\ call'.looked = call.looked /\ call'.etag = call.etag
        /\ call'.seen = call.seen /\ object' = object
    BY <1>2, <1>3, <1>6 DEF Calls
  <2> QED
    BY <1>1, <1>3, <1>4, <2>1
    DEF UpdateInv, Interval, PlanKnown, NotLanded, Before, Kept
<1> QED
  BY <1>5, <1>6 DEF Send

LEMMA AgainKeeps == ASSUME UpdateInv, Again PROVE UpdateInv'
<1>1. Typed'
  BY SmallStepsTyped DEF UpdateInv
<1>2. call \in Calls
  BY DEF UpdateInv, Typed, CallInProgress, Again
<1>3. /\ ~call.landed /\ ~call'.landed /\ call'.looked = call.looked
      /\ call'.etag = call.etag /\ call'.seen = call.seen
      /\ object' = object /\ tool' = tool /\ pc = "waiting" /\ pc' = "writing"
  BY <1>2 DEF Again, Repeats, Goto, Calls, tool
<1> QED
  BY <1>1, <1>3 DEF UpdateInv, Interval, PlanKnown, NotLanded, Before, Kept

LEMMA ReadyKeeps == ASSUME UpdateInv, Ready PROVE UpdateInv'
<1>1. Typed'
  BY SmallStepsTyped DEF UpdateInv
<1>2. call \in Calls /\ ~call.landed /\ pc = "checking"
  BY DEF UpdateInv, Typed, CallInProgress, NotLanded, Ready
<1>3. CASE Goto("writing") /\ UNCHANGED call
  BY <1>1, <1>2, <1>3
  DEF UpdateInv, Interval, PlanKnown, NotLanded, Before, Kept, Ready, Goto, tool
<1>4. CASE Raise({"local", "client", "server", "other"})
  <2>1. pc' = "failed" /\ ~call'.landed
    BY <1>2, <1>4 DEF Raise, Goto, Calls
  <2> QED
    BY <1>1, <2>1 DEF UpdateInv, Interval, PlanKnown, NotLanded, Kept, Before
<1> QED
  BY <1>3, <1>4 DEF Ready

\* After the answer nothing is written any more.
LEMMA AfterwardsKeeps ==
    ASSUME UpdateInv, Answer \/ Verify PROVE UpdateInv'
<1>1. Typed'
  BY AnswerTyped, SmallStepsTyped DEF UpdateInv
<1>2. call \in Calls
  BY DEF UpdateInv, Typed, CallInProgress, Answer, Verify
<1>3. SameMemory
  BY <1>2 DEF SameMemory, Answer, Verify, Raise, Calls
<1>4. pc' \in {"verifying", "failed", "done"}
  BY DEF Answer, Verify, Raise, Goto
<1> QED
  BY <1>1, <1>3, <1>4, SameMemoryKeeps
  DEF UpdateInv, Interval, PlanKnown, NotLanded, Before

LEMMA CloseKeeps == ASSUME UpdateInv, Close PROVE UpdateInv'
<1>1. Typed'
  BY CloseTyped DEF UpdateInv
<1>2. call' = call /\ tool' = tool /\ pc' = "idle"
  BY DEF Close, Goto, tool
<1> QED
  BY <1>1, <1>2 DEF UpdateInv, Interval, PlanKnown, NotLanded, Before, Kept

LEMMA OthersKeep == ASSUME UpdateInv, Others PROVE UpdateInv'
<1>1. Typed'
  BY OthersTyped DEF UpdateInv
<1>2. /\ object \in Objects /\ object.rev \in Nat /\ request \in Requests
      /\ call \in Calls \cup {None}
      /\ pc # "idle" => call \in Calls
  BY DEF UpdateInv, Typed, TypeOK, CallInProgress, Objects
<1>3. tool' = tool /\ pc' = pc
  BY DEF Others, tool
<1>4. /\ object'.rev \in {object.rev, object.rev + 1}
      /\ tool = update_planner_task => object'.rev = object.rev + 1
  <2>1. CASE OthersMove
    BY <2>1, <1>2, PlannerTool DEF OthersMove, Objects
  <2>2. ASSUME NEW f, NEW v, OthersEdit(f, v)
        PROVE  object'.rev = object.rev + 1
    BY <2>2, <1>2 DEF OthersEdit, Objects
  <2> QED
    BY <2>1, <2>2 DEF Others
<1>5. call' = call \/ (call \in Calls /\ call' = [call EXCEPT !.stood = TRUE])
  BY <1>2 DEF Others
<1>6. call \in Calls =>
         /\ call'.landed = call.landed /\ call'.over = call.over
         /\ call'.etag = call.etag /\ call'.seen = call.seen
         /\ call'.looked = call.looked
  BY <1>5 DEF Calls
<1>7. Kept'
  <2>1. CASE call' = call
    BY <2>1, <1>3 DEF UpdateInv, Kept
  <2>2. CASE call \in Calls
    <3>1. SameMemory
      BY <2>2, <1>6 DEF SameMemory, Others
    <3> QED
      BY <3>1, SameMemoryKeeps DEF UpdateInv
  <2> QED
    BY <2>1, <2>2, <1>5
<1>8. CASE ~(pc \in {"checking", "writing", "waiting"} /\ ~call'.landed)
  BY <1>1, <1>2, <1>3, <1>6, <1>7, <1>8
  DEF UpdateInv, Interval, PlanKnown, NotLanded, Before
<1>9. CASE pc \in {"checking", "writing", "waiting"} /\ ~call'.landed
  <2>1. /\ call \in Calls /\ ~call.landed /\ call.looked \in Nat
        /\ call.etag \in Nat /\ call.seen \in [Reads -> Nat]
    BY <1>2, <1>6, <1>9 DEF Calls
  <2>2. Interval
    BY DEF UpdateInv
  <2>3. Interval'
    <3>1. ASSUME NEW i \in 1..call.looked
          PROVE  call.seen[tool.reads[i]] <= object'.rev
      <4>1. call.looked \in 0..Len(tool.reads) /\ Len(tool.reads) \in Nat
        BY <2>1, <2>2, <1>2, <1>9, RequestTypes DEF Interval, Before
      <4>2. call.seen[tool.reads[i]] \in Nat
        BY <4>1, <2>1, <1>2, RequestTypes
      <4>3. call.seen[tool.reads[i]] <= object.rev
        BY <2>1, <2>2, <1>9 DEF Interval, Before
      <4> QED
        BY <4>2, <4>3, <1>2, <1>4
    <3>2. call.etag <= object'.rev
      BY <2>1, <2>2, <1>2, <1>4, <1>9 DEF Interval, Before
    <3> QED
      BY <2>1, <2>2, <3>1, <3>2, <1>3, <1>6, <1>9 DEF Interval, Before
  <2>4. PlanKnown'
    <3> SUFFICES ASSUME tool = update_planner_task, call.looked > 0
                 PROVE  object'.rev # call.seen["fence"]
      BY <2>1, <1>3, <1>6 DEF PlanKnown
    <3>1. tool.reads[1] = "fence" /\ 1 \in 1..call.looked
      BY <2>1, PlannerTool
    <3>2. call.seen["fence"] <= object.rev
      BY <3>1, <2>1, <2>2, <1>9 DEF Interval, Before
    <3>3. call.seen["fence"] \in Nat
      BY <2>1 DEF Reads
    <3> QED
      BY <3>2, <3>3, <1>2, <1>4
  <2> QED
    BY <1>1, <1>3, <1>6, <1>7, <2>1, <2>3, <2>4 DEF UpdateInv, NotLanded
<1> QED
  BY <1>8, <1>9

LEMMA NextKeepsUpdates == UpdateInv /\ [Next]_vars => UpdateInv'
<1> SUFFICES ASSUME UpdateInv, [Next]_vars PROVE UpdateInv'
  OBVIOUS
<1>1. CASE UNCHANGED vars
  BY <1>1, NextTyped
  DEF vars, UpdateInv, Interval, PlanKnown, NotLanded, Kept, Before, tool
<1> QED
  BY <1>1, StartKeeps, LookKeeps, ReadyKeeps, SendKeeps, AgainKeeps,
     AfterwardsKeeps, CloseKeeps, OthersKeep DEF Next

\* A conditional write replaces the revision its caller reviewed and every read of the
\* tool saw (NoLostUpdate), whatever the checklist, the retries and the other users.
THEOREM NoUpdateIsLost == Spec => []NoLostUpdate
<1> QED
  BY InitUpdateInv, NextKeepsUpdates, InvKeepsUpdates, PTL DEF Spec

-----------------------------------------------------------------------------
(***************************************************************************)
(* The checklist limit.  What is there and what the body adds fit together *)
(* as long as the details keep the revision they were counted at, and only *)
(* the details tool sends checklist items.                                 *)
(***************************************************************************)

Details == update_planner_task_details

Room ==
    Before =>
        /\ tool # Details => call.body \cap Items = {}
        /\ tool = Details /\ call.looked = 2 /\ object.rev = call.seen["details"] =>
              Cardinality(Present(object.data) \cup (call.body \cap Items)) <= Limit

LimitInv == UpdateInv /\ Room /\ ChecklistWithinLimit

LEMMA DetailsTool ==
    /\ Details.reads = <<"fence", "details">>
    /\ Details.ifMatch
  BY DEF Details, update_planner_task_details, update_excel_range

\* No other tool asks for checklist items.
LEMMA OnlyDetailsHasItems ==
    ASSUME NEW t \in Tools, t # Details PROVE t.asks \cap Items = {}
<1>1. \A r : ReadBack(r).asks = {"named"} /\ Accepting(r).asks = {"rest"}
  BY DEF ReadBack, Accepting
<1>2. Creating({}).asks = {"rest"} /\ Creating({"named"}).asks = {"named", "rest"}
  BY DEF Creating
<1>3. update_excel_range.asks = {"named"}
  BY DEF update_excel_range
<1>4. /\ update_calendar_event.asks = {"named", "rest"}
      /\ update_todo_task.asks = {"named", "rest"}
  BY DEF update_calendar_event, update_todo_task, update_excel_range
<1>5. update_planner_task.asks = {"named", "rest"}
  BY DEF update_planner_task, update_todo_task, update_excel_range
<1>6. replace_office_text.asks = {"rest"}
  BY DEF replace_office_text
<1>7. t.asks \subseteq {"named", "rest"}
  BY <1>1, <1>2, <1>3, <1>4, <1>5, <1>6
  DEF Tools, Details, set_directory_user_account_enabled, update_directory_group,
      add_user_to_group, append_onenote_page_text, rebind_powerbi_report,
      update_entra_application, update_entra_service_principal,
      update_conditional_access_policy, sync_managed_device, reboot_cloudpc,
      refresh_powerbi_dataset, send_mail_draft, create_mail_draft,
      create_calendar_event, create_contact, create_todo_task,
      send_channel_message, send_chat_message, create_planner_task
<1> QED
  BY <1>7, ToolAssumption

LEMMA ItemsOfRequest ==
    ASSUME request \in Requests, tool # Details PROVE request.asks \cap Items = {}
<1>1. tool \in Tools /\ request.asks \subseteq tool.asks
  BY DEF Requests, tool
<1> QED
  BY <1>1, OnlyDetailsHasItems

\* What fits beside the present items fits with the edits of present items too.
LEMMA BodyFits ==
    ASSUME request \in Requests, DetailsFit
    PROVE  Cardinality(Present(object.data) \cup (PatchBody \cap Items)) <= Limit
<1> DEFINE present == Present(object.data)
<1>1. IsFiniteSet(present) /\ IsFiniteSet(NewItems)
  <2>1. present \in SUBSET Items /\ NewItems \in SUBSET Items
    BY RequestTypes DEF Present, NewItems
  <2> HIDE DEF present
  <2> QED
    BY <2>1, FS_Subset, ToolAssumption
<1>2. present \cup (PatchBody \cap Items) = present \cup (NewItems \cap Items)
  BY DEF PatchBody, DetailsFit, Present, NewItems
<1>3. present \cup (NewItems \cap Items) \subseteq present \cup NewItems
  OBVIOUS
<1>4. /\ IsFiniteSet(present \cup NewItems)
      /\ Cardinality(present \cup NewItems)
            = Cardinality(present) + Cardinality(NewItems)
                - Cardinality(present \cap NewItems)
  BY <1>1, FS_Union
<1>5. IsFiniteSet(present \cap NewItems)
  BY <1>1, FS_Subset
<1>6. /\ Cardinality(present) \in Nat /\ Cardinality(NewItems) \in Nat
      /\ Cardinality(present \cap NewItems) \in Nat
      /\ Cardinality(present \cup NewItems) \in Nat
  BY <1>1, <1>4, <1>5, FS_CardinalityType
<1>7. Cardinality(present) + Cardinality(NewItems) <= Limit
  BY DEF DetailsFit, WithinLimit
<1>8. /\ Cardinality(present \cup (NewItems \cap Items))
            <= Cardinality(present \cup NewItems)
      /\ IsFiniteSet(present \cup (NewItems \cap Items))
  BY <1>3, <1>4, FS_Subset
<1>9. Cardinality(present \cup (NewItems \cap Items)) \in Nat
  BY <1>8, FS_CardinalityType
<1> HIDE DEF present
<1>10. Cardinality(present \cup (NewItems \cap Items)) <= Limit
  BY <1>4, <1>6, <1>7, <1>8, <1>9, ToolAssumption
<1> QED
  BY <1>2, <1>10 DEF present

LEMMA WrittenItems ==
    ASSUME NEW o, NEW altered
    PROVE  Present(Written(o, altered).data)
             \subseteq Present(o.data) \cup (call.body \cap Items)
  BY DEF Written, Present, Fields

LEMMA InitRoom == Init => LimitInv
  BY InitUpdateInv DEF Init, LimitInv, Room, Before, ChecklistWithinLimit

\* Steps that change neither the object nor what the body is or when it was counted.
LEMMA RoomStays ==
    ASSUME LimitInv, Before' => Before, request' = request, object' = object,
           Before' => /\ call'.body = call.body /\ call'.looked = call.looked
                      /\ call'.seen = call.seen
    PROVE  Room' /\ ChecklistWithinLimit'
  BY DEF LimitInv, Room, ChecklistWithinLimit, tool

LEMMA StartRoom ==
    ASSUME LimitInv, NEW etag \in 1..object.rev, Start(etag)
    PROVE  Room' /\ ChecklistWithinLimit'
<1>1. /\ call'.body = request.asks /\ call'.looked = 0 /\ object' = object
      /\ tool' = tool
  BY DEF Start, tool
<1>2. tool # Details => request.asks \cap Items = {}
  BY ItemsOfRequest DEF LimitInv, UpdateInv, Typed, TypeOK
<1> QED
  BY <1>1, <1>2 DEF LimitInv, Room, ChecklistWithinLimit

LEMMA LookRoom == ASSUME LimitInv, Look PROVE Room' /\ ChecklistWithinLimit'
<1> DEFINE kind == tool.reads[call.looked + 1]
<1>1. /\ call \in Calls /\ request \in Requests /\ call.looked \in Nat
      /\ call.seen \in [Reads -> Nat]
  BY DEF LimitInv, UpdateInv, Typed, TypeOK, CallInProgress, Look, Calls
<1>2. object' = object /\ tool' = tool /\ Before /\ call.looked < Len(tool.reads)
  BY DEF LimitInv, UpdateInv, NotLanded, Before, Look, tool
<1>3. ChecklistWithinLimit'
  BY <1>2 DEF LimitInv, ChecklistWithinLimit
<1>4. CASE pc' = "failed"
  BY <1>3, <1>4 DEF Room, Before
<1>5. CASE /\ Passes(kind)
           /\ call' = [call EXCEPT !.looked = @ + 1, !.seen[kind] = object.rev,
                                   !.body = IF kind = "details" THEN PatchBody ELSE @]
  <2>1. /\ call'.looked = call.looked + 1
        /\ call'.body = IF kind = "details" THEN PatchBody ELSE call.body
    BY <1>1, <1>5 DEF Calls
  <2>2. CASE tool # Details
    <3>1. PatchBody \cap Items = {}
      <4>1. request.asks \cap Items = {} /\ request.additions \subseteq request.asks
        BY <2>2, <1>1, ItemsOfRequest DEF Requests
      <4> QED
        BY <4>1 DEF PatchBody, NewItems
    <3>2. call.body \cap Items = {}
      BY <2>2, <1>2 DEF LimitInv, Room
    <3> QED
      BY <1>2, <1>3, <2>1, <2>2, <3>1, <3>2 DEF Room
  <2>3. CASE tool = Details
    <3>1. call'.looked = 2 => kind = "details"
      BY <1>1, <2>1, <2>3, DetailsTool
    <3>2. kind = "details" =>
            Cardinality(Present(object.data) \cup (PatchBody \cap Items)) <= Limit
      BY <1>1, <1>5, BodyFits DEF Passes
    <3> QED
      BY <1>2, <1>3, <2>1, <2>3, <3>1, <3>2 DEF Room
  <2> QED
    BY <2>2, <2>3
<1> QED
  BY <1>4, <1>5 DEF Look, Raise, Goto

LEMMA SendRoom == ASSUME LimitInv, Send PROVE Room' /\ ChecklistWithinLimit'
<1>1. /\ call \in Calls /\ object \in Objects /\ request \in Requests
      /\ pc = "writing" /\ Before /\ Interval /\ tool' = tool
  BY DEF LimitInv, UpdateInv, Typed, TypeOK, CallInProgress, NotLanded, Before, Send, tool
<1>2. CASE /\ call' = [call EXCEPT !.counted = @ \cup {"attempted"}]
           /\ UNCHANGED object
  <2>1. /\ call'.body = call.body /\ call'.looked = call.looked
        /\ call'.seen = call.seen
    BY <1>1, <1>2 DEF Calls
  <2> QED
    BY <1>1, <1>2, <2>1 DEF LimitInv, Room, ChecklistWithinLimit
<1>3. CASE /\ Takes
           /\ \E altered \in SUBSET call.body : object' = Written(object, altered)
           /\ call' = [call EXCEPT !.counted = @ \cup {"attempted"}, !.landed = TRUE,
                                   !.over = object, !.image = object',
                                   !.stood = Matches(object')]
  <2>1. ~Before'
    <3>1. call'.landed
      BY <1>1, <1>3 DEF Calls
    <3> QED
      BY <3>1 DEF Before
  <2> DEFINE room == Present(object.data) \cup (call.body \cap Items)
  <2>2. Present(object'.data) \in SUBSET room
    BY <1>3, WrittenItems
  <2>3. IsFiniteSet(room) /\ Cardinality(room) <= Limit
    <3>1. IsFiniteSet(room)
      <4>1. room \in SUBSET Items
        BY DEF Present
      <4> QED
        BY <4>1, FS_Subset, ToolAssumption
    <3>2. CASE tool # Details
      <4>1. room = Present(object.data)
        BY <3>2, <1>1 DEF LimitInv, Room
      <4> QED
        BY <3>1, <4>1 DEF LimitInv, ChecklistWithinLimit
    <3>3. CASE tool = Details
      <4>1. call.looked = 2 /\ tool.reads[2] = "details"
        BY <3>3, <1>1, DetailsTool DEF Interval
      <4>2. object.rev = call.etag /\ call.etag \in Nat /\ call.seen["details"] \in Nat
        BY <3>3, <1>1, <1>3, DetailsTool DEF Takes, Calls, Reads
      <4>3. /\ call.etag <= call.seen["details"]
            /\ call.seen["details"] <= object.rev
        BY <1>1, <4>1 DEF Interval
      <4>4. object.rev = call.seen["details"]
        BY <4>2, <4>3
      <4> QED
        BY <3>1, <3>3, <1>1, <4>1, <4>4 DEF LimitInv, Room
    <3> QED
      BY <3>2, <3>3
  <2> HIDE DEF room
  <2>4. /\ Cardinality(Present(object'.data)) <= Cardinality(room)
        /\ IsFiniteSet(Present(object'.data))
    BY <2>2, <2>3, FS_Subset
  <2>5. Cardinality(Present(object'.data)) \in Nat /\ Cardinality(room) \in Nat
    BY <2>3, <2>4, FS_CardinalityType
  <2>6. Cardinality(Present(object'.data)) <= Limit
    BY <2>3, <2>4, <2>5, ToolAssumption
  <2> QED
    BY <2>1, <2>6 DEF Room, ChecklistWithinLimit, Present
<1> QED
  BY <1>2, <1>3 DEF Send

LEMMA OthersRoom == ASSUME LimitInv, Others PROVE Room' /\ ChecklistWithinLimit'
<1>1. /\ object \in Objects /\ object.rev \in Nat /\ request \in Requests
      /\ pc # "idle" => call \in Calls
      /\ tool' = tool /\ pc' = pc
  BY DEF LimitInv, UpdateInv, Typed, TypeOK, CallInProgress, Objects, Others, tool
<1>2. Before' =>
         /\ Before /\ call \in Calls /\ call'.body = call.body
         /\ call'.looked = call.looked /\ call'.seen = call.seen
  BY <1>1 DEF Before, Others, Calls
<1>3. CASE OthersMove
  <2>1. object'.data = object.data
    BY <1>1, <1>3 DEF OthersMove, Objects
  <2>2. tool = Details => object'.rev = object.rev
    BY <1>1, <1>3 DEF OthersMove, Objects, Details
  <2> QED
    BY <1>1, <1>2, <2>1, <2>2 DEF LimitInv, Room, ChecklistWithinLimit
<1>4. CASE \E f \in tool.asks, v \in Values : OthersEdit(f, v)
  <2>1. object'.rev = object.rev + 1 /\ ChecklistWithinLimit'
    BY <1>1, <1>4 DEF OthersEdit, Objects, ChecklistWithinLimit, Present
  <2>2. ASSUME Before', tool = Details, call.looked = 2
        PROVE  object'.rev # call.seen["details"]
    <3>1. tool.reads[2] = "details" /\ 2 \in 1..call.looked
      BY <2>2, DetailsTool
    <3>2. call.seen["details"] <= object.rev
      BY <2>2, <3>1, <1>2 DEF LimitInv, UpdateInv, Interval
    <3>3. call.seen["details"] \in Nat
      BY <2>2, <1>2 DEF Calls, Reads
    <3> QED
      BY <2>1, <3>2, <3>3, <1>1
  <2> QED
    BY <1>1, <1>2, <2>1, <2>2 DEF LimitInv, Room
<1> QED
  BY <1>3, <1>4 DEF Others

LEMMA NextKeepsRoom == LimitInv /\ [Next]_vars => LimitInv'
<1> SUFFICES ASSUME LimitInv, [Next]_vars PROVE Room' /\ ChecklistWithinLimit'
  BY NextKeepsUpdates DEF LimitInv
<1>1. CASE UNCHANGED vars
  BY <1>1, RoomStays DEF vars, Before
<1>2. CASE Ready \/ Again \/ Answer \/ Verify \/ Close
  <2>1. pc # "idle" => call \in Calls
    BY DEF LimitInv, UpdateInv, Typed, CallInProgress
  <2>2. request' = request /\ object' = object
    BY <1>2 DEF Ready, Again, Answer, Verify, Close
  <2>3. Before' => /\ Before /\ call'.body = call.body
                   /\ call'.looked = call.looked /\ call'.seen = call.seen
    BY <1>2, <2>1
    DEF Before, Ready, Again, Answer, Verify, Close, Raise, Goto, Repeats, Calls
  <2> QED
    BY <2>2, <2>3, RoomStays
<1> QED
  BY <1>1, <1>2, StartRoom, LookRoom, SendRoom, OthersRoom DEF Next

\* The resulting checklist never exceeds the limit (ChecklistWithinLimit), for every
\* limit, although others fill it between the count and the PATCH.
THEOREM ChecklistIsBounded == Spec => []ChecklistWithinLimit
<1>1. LimitInv => ChecklistWithinLimit
  BY DEF LimitInv
<1> QED
  BY <1>1, InitRoom, NextKeepsRoom, PTL DEF Spec

-----------------------------------------------------------------------------
(***************************************************************************)
(* Success was true.  What the tool compares has stood on the object as    *)
(* soon as the object or the answer shows it, and a tool that compares     *)
(* nothing asks for nothing it could miss.                                 *)
(***************************************************************************)

\* The comparison of a landed write, on the object and on the answer.
Noted ==
    call \in Calls /\ call.landed =>
        /\ Matches(object) => call.stood
        /\ call.image # None /\ Matches(call.image) => call.stood
        /\ tool.confirm = "none" => call.stood

Concluded ==
    /\ pc # "idle" => row = "pending"
    /\ pc \in {"verifying", "done"} => call.landed
    /\ pc = "done" => call.stood
    /\ row = "completed" => call \in Calls /\ call.landed /\ call.stood

SuccessInv == UpdateInv /\ Noted /\ Concluded

\* A tool that reports what was accepted compares nothing.
LEMMA UnconfirmedTools ==
    ASSUME NEW t \in Tools, t.confirm = "none"
    PROVE  t.compared = {}
<1>1. \A r : ReadBack(r).confirm = "read" /\ Accepting(r).compared = {}
  BY DEF ReadBack, Accepting
<1>2. Creating({}).compared = {} /\ Creating({"named"}).confirm # "none"
  BY DEF Creating
<1>3. update_excel_range.confirm = "either"
  BY DEF update_excel_range
<1>4. /\ update_calendar_event.confirm = "either"
      /\ update_todo_task.confirm = "either"
  BY DEF update_calendar_event, update_todo_task, update_excel_range
<1>5. update_planner_task.confirm = "either"
  BY DEF update_planner_task, update_todo_task, update_excel_range
<1>6. update_planner_task_details.confirm = "either"
  BY DEF update_planner_task_details, update_excel_range
<1>7. replace_office_text.confirm = "answer"
  BY DEF replace_office_text
<1> QED
  BY <1>1, <1>2, <1>3, <1>4, <1>5, <1>6, <1>7
  DEF Tools, set_directory_user_account_enabled, update_directory_group,
      add_user_to_group, append_onenote_page_text, rebind_powerbi_report,
      update_entra_application, update_entra_service_principal,
      update_conditional_access_policy, sync_managed_device, reboot_cloudpc,
      refresh_powerbi_dataset, send_mail_draft, create_mail_draft,
      create_calendar_event, create_contact, create_todo_task,
      send_channel_message, send_chat_message, create_planner_task

LEMMA InitSuccess == Init => SuccessInv
  BY InitUpdateInv, NoneAssumption, LedgerNoneAssumption
  DEF Init, SuccessInv, Noted, Concluded, Ledger!Statuses

\* A step that changes neither the object nor what the comparison reads.
SameComparison ==
    /\ request' = request /\ object' = object
    /\ call \in Calls /\ call' \in Calls
    /\ call'.body = call.body /\ call'.landed = call.landed /\ call'.stood = call.stood
    /\ call'.image \in {call.image, None}

LEMMA SameComparisonKeeps == ASSUME Noted, SameComparison PROVE Noted'
<1>1. tool' = tool
  BY DEF SameComparison, tool
<1>2. \A o : Matches(o)' <=> Matches(o)
  BY <1>1 DEF SameComparison, Matches, Holds
<1> QED
  BY <1>1, <1>2 DEF Noted, SameComparison, Matches, Holds

LEMMA SendNotes == ASSUME SuccessInv, Send PROVE Noted' /\ Concluded'
<1>1. /\ call \in Calls /\ ~call.landed /\ row = "pending" /\ pc' = "waiting"
      /\ request' = request /\ row' = row /\ request \in Requests
  BY DEF SuccessInv, UpdateInv, Typed, TypeOK, CallInProgress, NotLanded, Concluded,
         Send, Goto
<1>2. Concluded'
  BY <1>1 DEF Concluded
<1>3. tool' = tool /\ tool \in Tools
  BY <1>1 DEF tool, Requests
<1>4. CASE call' = [call EXCEPT !.counted = @ \cup {"attempted"}]
  <2>1. ~call'.landed
    BY <1>1, <1>4 DEF Calls
  <2> QED
    BY <1>2, <2>1 DEF Noted
<1>5. CASE call' = [call EXCEPT !.counted = @ \cup {"attempted"}, !.landed = TRUE,
                                !.over = object, !.image = object',
                                !.stood = Matches(object')]
  <2>1. /\ call'.image = object' /\ call'.body = call.body
        /\ call'.stood = Matches(object')
    BY <1>1, <1>5 DEF Calls
  <2>2. \A o : Matches(o)
                 <=> \A f \in tool.compared \cap (call'.body \cup {"fence"}) : Holds(f, o)
    BY <2>1 DEF Matches
  <2>3. Matches(object)' => call'.stood
    BY <1>3, <2>1 DEF Matches, Holds
  <2>4. Matches(call.image)' => call'.stood
    BY <1>3, <2>1 DEF Matches, Holds
  <2>5. tool.confirm = "none" => call'.stood
    BY <1>3, <2>1, UnconfirmedTools DEF Matches
  <2> QED
    BY <1>2, <1>3, <2>3, <2>4, <2>5 DEF Noted
<1> QED
  BY <1>4, <1>5 DEF Send

LEMMA VerifyConcludes == ASSUME SuccessInv, Verify PROVE Noted' /\ Concluded'
<1>1. /\ call \in Calls /\ call.landed /\ row = "pending" /\ row' = row
      /\ request' = request /\ object' = object
  BY DEF SuccessInv, UpdateInv, Typed, CallInProgress, Concluded, Verify
<1>2. CASE Confirmed /\ pc' = "done" /\ call' = call
  <2>1. call.stood
    BY <1>1, <1>2 DEF Confirmed, SuccessInv, Noted
  <2> QED
    BY <1>1, <1>2, <2>1, SameComparisonKeeps
    DEF SuccessInv, Concluded, SameComparison
<1>3. CASE pc' = "failed" /\ \E e \in Errors : call' = [call EXCEPT !.error = e]
  <2>1. SameComparison
    BY <1>1, <1>3 DEF SameComparison, Calls
  <2> QED
    BY <1>1, <1>3, <2>1, SameComparisonKeeps DEF SuccessInv, Concluded
<1> QED
  BY <1>2, <1>3 DEF Verify, Raise, Goto, Errors

LEMMA OthersNote == ASSUME SuccessInv, Others PROVE Noted' /\ Concluded'
<1>1. request' = request /\ row' = row /\ pc' = pc /\ tool' = tool
  BY DEF Others, tool
<1>2. CASE call \in Calls
  <2>1. /\ call'.body = call.body /\ call'.landed = call.landed
        /\ call'.image = call.image /\ call' \in Calls
        /\ call.stood => call'.stood
        /\ call.landed /\ Matches(object') => call'.stood
    BY <1>2, NoneAssumption DEF Others, Calls
  <2>2. Matches(object)' <=> Matches(object')
    BY <1>1, <2>1 DEF Matches, Holds
  <2>3. Matches(call.image)' <=> Matches(call.image)
    BY <1>1, <2>1 DEF Matches, Holds
  <2> QED
    BY <1>1, <1>2, <2>1, <2>2, <2>3 DEF SuccessInv, Noted, Concluded
<1>3. CASE call = None
  BY <1>1, <1>3, NoneAssumption
  DEF Others, SuccessInv, UpdateInv, Typed, CallInProgress, Noted, Concluded
<1> QED
  BY <1>2, <1>3 DEF SuccessInv, UpdateInv, Typed, TypeOK

LEMMA NextKeepsSuccess == SuccessInv /\ [Next]_vars => SuccessInv'
<1> SUFFICES ASSUME SuccessInv, [Next]_vars PROVE Noted' /\ Concluded'
  BY NextKeepsUpdates DEF SuccessInv
<1>1. Typed /\ Typed' /\ (pc # "idle" => call \in Calls)
  BY NextTyped DEF SuccessInv, UpdateInv, Typed, CallInProgress
<1>2. CASE UNCHANGED vars
  BY <1>2 DEF vars, SuccessInv, Noted, Concluded, Matches, Holds, tool
<1>3. ASSUME NEW etag \in 1..object.rev, Start(etag) PROVE Noted' /\ Concluded'
  BY <1>3 DEF Start, Goto, Noted, Concluded
<1>4. CASE Look
  <2>1. ~call'.landed /\ row' = "pending" /\ pc' \in {"checking", "failed"}
    BY <1>1, <1>4
    DEF Look, Raise, Goto, SuccessInv, UpdateInv, NotLanded, Concluded, Calls
  <2> QED
    BY <2>1 DEF Noted, Concluded
<1>5. CASE Ready \/ Again
  <2>1. ~call'.landed /\ row' = "pending" /\ pc' \in {"writing", "failed"}
    BY <1>1, <1>5
    DEF Ready, Again, Repeats, Raise, Goto, SuccessInv, UpdateInv, NotLanded,
        Concluded, Calls
  <2> QED
    BY <2>1 DEF Noted, Concluded
<1>6. CASE Answer
  <2>1. PICK v \in Verdicts(call), empty \in {FALSE, tool.empty} :
           /\ pc' = IF v[1] = "none" THEN "verifying" ELSE "failed"
           /\ call' = [call EXCEPT !.error = v[1], !.counted = @ \cup v[2],
                                   !.image = IF empty THEN None ELSE @]
    BY <1>6 DEF Answer, Goto
  <2>2. v[1] = "none" => call.landed
    BY DEF Verdicts
  <2>3. SameComparison
    <3>1. call \in Calls /\ call' \in Calls
      BY <1>1, <1>6, <2>1 DEF Answer, Typed, CallInProgress
    <3> QED
      BY <1>6, <2>1, <3>1 DEF Answer, SameComparison, Calls
  <2>4. Noted'
    BY <2>3, SameComparisonKeeps DEF SuccessInv
  <2>5. row' = "pending" /\ call'.landed = call.landed
    BY <1>6, <2>3 DEF Answer, SuccessInv, Concluded, SameComparison
  <2> QED
    BY <2>1, <2>2, <2>4, <2>5 DEF Concluded
<1>7. CASE Close
  <2>1. SameComparison
    BY <1>1, <1>7 DEF Close, SameComparison
  <2>2. Ledger!FailureStatus(LedgerCall) # "completed"
    BY DEF Ledger!FailureStatus
  <2> QED
    BY <1>7, <2>1, <2>2, SameComparisonKeeps
    DEF Close, Goto, SuccessInv, Concluded, SameComparison
<1> QED
  BY <1>2, <1>3, <1>4, <1>5, <1>6, <1>7, SendNotes, VerifyConcludes, OthersNote DEF Next

\* A write that is reported as completed took effect, and what its tool compares stood on
\* the object at some moment since (SuccessWasTrue), whatever others change meanwhile.
THEOREM SuccessesAreTrue == Spec => []SuccessWasTrue
<1>1. SuccessInv => SuccessWasTrue
  BY DEF SuccessInv, Concluded, SuccessWasTrue
<1> QED
  BY <1>1, InitSuccess, NextKeepsSuccess, PTL DEF Spec

-----------------------------------------------------------------------------
(***************************************************************************)
(* Proof that every write tool implements the operation of WriteLedger:    *)
(* each step between the reservation and the outcome is a step of the one  *)
(* task of the mapping Ledger, or changes nothing the ledger sees.         *)
(***************************************************************************)

InOperation == pc \notin {"idle", "failed", "done"}

\* A call that has not failed has raised nothing.
NoError == InOperation => call.error = "none"

OperationInv == UpdateInv /\ NoError

\* What the ledger sees of a call.
View(c) ==
    [key |-> "key", payload |-> "payload", counted |-> c.counted, error |-> c.error,
     attempt |-> c.attempt, refreshed |-> c.refreshed, landed |-> c.landed]

\* A function of the one task of the mapping.
Task(x) == [t \in {"call"} |-> x]

\* The counters move for the one call in progress.
LEMMA CountOne ==
    ASSUME NEW counters, NEW c, c # None
    PROVE  Ledger!Count("server", counters, Task(c))
             = Task([c EXCEPT !.counted = @ \cup counters])
  BY DEF Ledger!Count, Task

LEMMA InitOperation == Init => OperationInv
  BY InitUpdateInv DEF Init, OperationInv, NoError, InOperation

LEMMA NextKeepsOperation == OperationInv /\ [Next]_vars => OperationInv'
<1> SUFFICES ASSUME OperationInv, [Next]_vars PROVE NoError'
  BY NextKeepsUpdates DEF OperationInv
<1>1. pc # "idle" => call \in Calls
  BY DEF OperationInv, UpdateInv, Typed, CallInProgress
<1>2. CASE UNCHANGED vars
  BY <1>2 DEF vars, OperationInv, NoError, InOperation
<1>3. CASE \E etag \in 1..object.rev : Start(etag)
  BY <1>3 DEF Start, NoError
<1>4. CASE Look \/ Ready \/ Send \/ Again \/ Answer \/ Verify \/ Close
  BY <1>1, <1>4
  DEF Look, Ready, Send, Again, Answer, Verify, Close, Raise, Goto, Verdicts,
      OperationInv, NoError, InOperation, Calls
<1>5. CASE Others
  BY <1>1, <1>5 DEF Others, OperationInv, NoError, InOperation, Calls
<1> QED
  BY <1>2, <1>3, <1>4, <1>5 DEF Next

-----------------------------------------------------------------------------
(***************************************************************************)
(* The steps of an operation, as the ledger sees them.                     *)
(***************************************************************************)

\* Before and after a step of an operation.
InCall ==
    /\ OperationInv /\ OperationInv'
    /\ InOperation /\ pc' # "idle"
    /\ row' = row

LEMMA SeenCall ==
    ASSUME InCall
    PROVE  /\ call \in Calls /\ call' \in Calls
           /\ LedgerCall = View(call) /\ LedgerCall' = View(call')
           /\ LedgerRow' = LedgerRow
           /\ View(call) # None /\ call # None /\ call' # None
           /\ call.error = "none"
<1>1. call \in Calls /\ call' \in Calls /\ call.error = "none"
  BY DEF InCall, OperationInv, UpdateInv, Typed, CallInProgress, NoError, InOperation
<1>2. call # None /\ call' # None
  BY <1>1, NoneAssumption
<1>3. LedgerCall = View(call) /\ LedgerCall' = View(call')
  BY <1>2 DEF LedgerCall, View
<1>4. LedgerRow' = LedgerRow
  BY DEF InCall, LedgerRow
<1>5. View(call) \in Ledger!Calls
  BY <1>1 DEF View, Calls, Errors, Ledger!Calls, Ledger!Counters, Ledger!Errors
<1> QED
  BY <1>1, <1>2, <1>3, <1>4, <1>5, LedgerNoneAssumption

\* Nothing the ledger sees.
LEMMA UnseenStep ==
    ASSUME InCall, pc' = pc, View(call') = View(call), call'.landed = call.landed
    PROVE  UNCHANGED Ledger!vars
<1>1. LedgerCall' = LedgerCall /\ LedgerRow' = LedgerRow
  BY SeenCall
<1>2. (IF call # None /\ call.landed THEN 1 ELSE 0)'
        = IF call # None /\ call.landed THEN 1 ELSE 0
  BY SeenCall
<1> QED
  BY <1>1, <1>2 DEF Ledger!vars

LEMMA MovesTo ==
    ASSUME NEW point, pc' = point
    PROVE  Ledger!Goto("call", point)
  BY DEF Ledger!Goto

LEMMA UpdatesTo ==
    ASSUME InCall, NEW c, View(call') = c
    PROVE  Ledger!Update("call", c)
<1>1. LedgerCall' = c
  BY SeenCall
<1> QED
  BY <1>1 DEF Ledger!Update

\* The operation raises an error, from one place or another.
LEMMA RaisedStep ==
    ASSUME InCall, NEW e, pc' = "failed", call' = [call EXCEPT !.error = e]
    PROVE  Ledger!Raise("call", e)
<1>1. View(call') = [View(call) EXCEPT !.error = e]
  BY SeenCall DEF View, Calls
<1>2. Ledger!Update("call", [View(call) EXCEPT !.error = e])
  BY <1>1, UpdatesTo
<1>3. Ledger!Goto("call", "failed")
  BY MovesTo
<1>4. [t \in {"call"} |-> LedgerCall]["call"] = View(call)
  BY SeenCall
<1> QED
  BY <1>2, <1>3, <1>4 DEF Ledger!Raise

\* What a step leaves to the ledger when the write neither lands nor is undone.
LEMMA LedgerRest ==
    ASSUME InCall, call'.landed = call.landed
    PROVE  /\ [k \in {"key"} |-> LedgerRow]' = [k \in {"key"} |-> LedgerRow]
           /\ [k \in {"key"} |-> IF call # None /\ call.landed THEN 1 ELSE 0]'
                = [k \in {"key"} |-> IF call # None /\ call.landed THEN 1 ELSE 0]
  BY SeenCall

\* The tasks after the counters of the process moved.
LEMMA CountedStep ==
    ASSUME InCall, NEW counters,
           View(call') = [View(call) EXCEPT !.counted = @ \cup counters]
    PROVE  [t \in {"call"} |-> LedgerCall]'
             = Ledger!Count("server", counters, [t \in {"call"} |-> LedgerCall])
<1>1. LedgerCall # None
  BY SeenCall
<1> QED
  BY <1>1, SeenCall DEF Ledger!Count

LEMMA CheckStep ==
    ASSUME InCall, Look \/ Ready
    PROVE  Ledger!Step("call") \/ UNCHANGED Ledger!vars
<1>1. pc = "checking" /\ Ledger!At("call", "checking")
  BY DEF Look, Ready, Ledger!At
<1>2. ASSUME Raise({"local", "client", "server", "other"})
      PROVE  Ledger!Check("call")
  <2>1. PICK e \in {"local", "client", "server", "other"} :
           call' = [call EXCEPT !.error = e]
    BY <1>2 DEF Raise
  <2>2. pc' = "failed"
    BY <1>2 DEF Raise, Goto
  <2>3. Ledger!Raise("call", e) /\ call'.landed = call.landed
    BY <2>1, <2>2, RaisedStep, SeenCall DEF Calls
  <2> QED
    BY <1>1, <2>3, LedgerRest DEF Ledger!Check
<1>3. ASSUME Ready, pc' = "writing", call' = call
      PROVE  Ledger!Check("call")
  <2>1. Ledger!Goto("call", "writing")
    BY <1>3, MovesTo
  <2>2. [t \in {"call"} |-> LedgerCall]' = [t \in {"call"} |-> LedgerCall]
    BY <1>3, SeenCall
  <2> QED
    BY <1>1, <1>3, <2>1, <2>2, LedgerRest DEF Ledger!Check
<1>4. ASSUME Look, pc' = pc,
             call' = [call EXCEPT !.looked = @ + 1,
                                  !.seen[tool.reads[call.looked + 1]] = object.rev,
                                  !.body = IF tool.reads[call.looked + 1] = "details"
                                           THEN PatchBody ELSE @]
      PROVE  UNCHANGED Ledger!vars
  <2>1. View(call') = View(call) /\ call'.landed = call.landed
    BY <1>4, SeenCall DEF View, Calls
  <2> QED
    BY <1>4, <2>1, UnseenStep
<1>5. CASE Look
  BY <1>2, <1>4, <1>5 DEF Look, Ledger!Step
<1>6. CASE Ready
  BY <1>2, <1>3, <1>6 DEF Ready, Goto, Ledger!Step
<1> QED
  BY <1>5, <1>6

LEMMA SendStep ==
    ASSUME InCall, Send
    PROVE  Ledger!Send("call")
<1>1. pc = "writing" /\ Ledger!At("call", "writing") /\ ~call.landed
  BY DEF Send, Ledger!At, InCall, OperationInv, UpdateInv, NotLanded
<1>2. Ledger!Goto("call", "waiting")
  BY MovesTo DEF Send, Goto
<1> DEFINE applied == [k \in {"key"} |-> IF call # None /\ call.landed THEN 1 ELSE 0]
           calls == [t \in {"call"} |-> LedgerCall]
           sent(landed) == [calls EXCEPT !["call"].landed = landed]
<1>3. ASSUME NEW landed \in BOOLEAN, call'.landed = landed,
             call'.counted = call.counted \cup {"attempted"},
             call'.error = call.error, call'.attempt = call.attempt,
             call'.refreshed = call.refreshed
      PROVE  /\ calls' = Ledger!Count("server", {"attempted"}, sent(landed))
             /\ applied' = [applied EXCEPT !["key"] = @ + IF landed THEN 1 ELSE 0]
  <2> DEFINE v == [key |-> "key", payload |-> "payload", counted |-> call.counted,
                   error |-> call.error, attempt |-> call.attempt,
                   refreshed |-> call.refreshed, landed |-> landed]
  <2>1. sent(landed) = Task(v)
    BY SeenCall DEF View, Task
  <2>2. v # None
    <3>1. v \in Ledger!Calls
      BY SeenCall
      DEF Calls, Errors, Ledger!Calls, Ledger!Counters, Ledger!Errors
    <3> QED
      BY <3>1, LedgerNoneAssumption
  <2>3. View(call') = [v EXCEPT !.counted = @ \cup {"attempted"}]
    BY <1>3 DEF View
  <2> HIDE DEF v, sent
  <2>4. Ledger!Count("server", {"attempted"}, sent(landed)) = Task(View(call'))
    BY <2>1, <2>2, <2>3, CountOne
  <2>5. applied = [k \in {"key"} |-> 0]
    BY <1>1
  <2>6. applied' = [k \in {"key"} |-> IF landed THEN 1 ELSE 0]
    BY <1>3, SeenCall
  <2> QED
    BY <2>4, <2>5, <2>6, SeenCall DEF Task
<1>4. PICK landed \in BOOLEAN :
         /\ call'.landed = landed
         /\ call'.counted = call.counted \cup {"attempted"}
         /\ call'.error = call.error /\ call'.attempt = call.attempt
         /\ call'.refreshed = call.refreshed
  BY <1>1, SeenCall DEF Send, Calls
<1>5. [k \in {"key"} |-> LedgerRow]' = [k \in {"key"} |-> LedgerRow]
  BY SeenCall
<1>6. calls["call"].key = "key"
  BY SeenCall DEF View
<1>7. /\ calls' = Ledger!Count("server", {"attempted"}, sent(landed))
      /\ applied' = [applied EXCEPT ![calls["call"].key] = @ + IF landed THEN 1 ELSE 0]
  BY <1>3, <1>4, <1>6
<1> QED
  BY <1>1, <1>2, <1>5, <1>7 DEF Ledger!Send

LEMMA AgainStep ==
    ASSUME InCall, Again
    PROVE  Ledger!Throttled("call") \/ Ledger!Unauthorized("call")
<1>1. /\ pc = "waiting" /\ Ledger!At("call", "waiting") /\ ~call.landed
      /\ call.attempt < MaxRetries
  BY DEF Again, Repeats, Ledger!At
<1>2. PICK refreshed \in {TRUE, call.refreshed} :
         call' = [call EXCEPT !.attempt = @ + 1, !.refreshed = refreshed]
  BY DEF Again
<1> DEFINE c == [t \in {"call"} |-> LedgerCall]["call"]
<1>3. c = View(call)
  BY SeenCall
<1>4. Ledger!Goto("call", "writing")
  BY MovesTo DEF Again, Goto
<1>5. call'.landed = call.landed
  BY <1>2, SeenCall DEF Calls
<1>6. CASE refreshed = call.refreshed
  <2>1. View(call') = [View(call) EXCEPT !.attempt = @ + 1]
    BY <1>2, <1>6, SeenCall DEF View, Calls
  <2>2. Ledger!Update("call", [View(call) EXCEPT !.attempt = @ + 1])
    BY <2>1, UpdatesTo
  <2>3. Ledger!Resend("call", c)
    BY <1>1, <1>3, <1>4, <2>2 DEF Ledger!Resend, View
  <2> QED
    BY <1>1, <1>3, <1>5, <2>3, LedgerRest DEF Ledger!Throttled, View
<1>7. CASE refreshed = TRUE /\ call.refreshed = FALSE
  <2> DEFINE d == [View(call) EXCEPT !.refreshed = refreshed]
  <2>1. [c EXCEPT !.refreshed = TRUE] = d
    BY <1>3, <1>7
  <2>2. /\ d.attempt = call.attempt
        /\ View(call') = [d EXCEPT !.attempt = call.attempt + 1]
    <3>1. /\ call'.attempt = call.attempt + 1 /\ call'.refreshed = refreshed
          /\ call'.counted = call.counted /\ call'.error = call.error
          /\ call'.landed = call.landed
      BY <1>2, <1>7, SeenCall DEF Calls
    <3>2. d = [key |-> "key", payload |-> "payload", counted |-> call.counted,
               error |-> call.error, attempt |-> call.attempt,
               refreshed |-> refreshed, landed |-> call.landed]
      BY DEF View
    <3> HIDE DEF d
    <3>3. PICK attempt : attempt = call.attempt + 1
      OBVIOUS
    <3>4. View(call') = [d EXCEPT !.attempt = attempt]
      BY <3>1, <3>2, <3>3 DEF View
    <3> QED
      BY <3>2, <3>3, <3>4
  <2> HIDE DEF c, d
  <2>3. Ledger!Update("call", [d EXCEPT !.attempt = @ + 1])
    BY <2>2, UpdatesTo
  <2>4. Ledger!Resend("call", d)
    BY <1>1, <1>4, <2>2, <2>3 DEF Ledger!Resend
  <2>5. ~c.landed /\ ~c.refreshed
    BY <1>1, <1>3, <1>7 DEF View
  <2>6. Ledger!Resend("call", [c EXCEPT !.refreshed = TRUE])
    BY <2>1, <2>4
  <2> QED
    BY <1>1, <1>5, <2>5, <2>6, LedgerRest DEF Ledger!Unauthorized, c
<1> QED
  BY <1>6, <1>7, SeenCall DEF Calls

\* A failure that moves counters: its error is recorded before they move.
LEMMA FailedCount ==
    ASSUME InCall, NEW counters, NEW e, e \in Errors,
           call' = [call EXCEPT !.error = e, !.counted = @ \cup counters, !.image = call'.image]
    PROVE  [t \in {"call"} |-> LedgerCall]'
             = Ledger!Count("server", counters, Ledger!Failing("call", e))
<1> DEFINE v == [key |-> "key", payload |-> "payload", counted |-> call.counted,
                 error |-> e, attempt |-> call.attempt,
                 refreshed |-> call.refreshed, landed |-> call.landed]
<1>1. Ledger!Failing("call", e) = Task(v)
  BY SeenCall DEF Ledger!Failing, View, Task
<1>2. v # None
  <2>1. v \in Ledger!Calls
    BY SeenCall DEF Calls, Errors, Ledger!Calls, Ledger!Counters, Ledger!Errors
  <2> QED
    BY <2>1, LedgerNoneAssumption
<1>3. View(call') = [v EXCEPT !.counted = @ \cup counters]
  <2>1. /\ call'.error = e /\ call'.counted = call.counted \cup counters
        /\ call'.attempt = call.attempt /\ call'.refreshed = call.refreshed
        /\ call'.landed = call.landed
    BY SeenCall DEF Calls
  <2> QED
    BY <2>1 DEF View
<1> HIDE DEF v
<1>4. Ledger!Count("server", counters, Ledger!Failing("call", e)) = Task(View(call'))
  BY <1>1, <1>2, <1>3, CountOne
<1> QED
  BY <1>4, SeenCall DEF Task

LEMMA AnswerStep ==
    ASSUME InCall, Answer
    PROVE  Ledger!Step("call")
<1>1. PICK v \in Verdicts(call), empty \in {FALSE, tool.empty} :
         /\ pc' = IF v[1] = "none" THEN "verifying" ELSE "failed"
         /\ call' = [call EXCEPT !.error = v[1], !.counted = @ \cup v[2],
                                 !.image = IF empty THEN None ELSE @]
  BY DEF Answer, Goto
<1>2. pc = "waiting" /\ Ledger!At("call", "waiting")
  BY DEF Answer, Ledger!At
<1> DEFINE calls == [t \in {"call"} |-> LedgerCall]
<1>3. calls["call"] = View(call)
  BY SeenCall
<1>4. /\ call'.error = v[1] /\ call'.counted = call.counted \cup v[2]
      /\ call'.attempt = call.attempt /\ call'.refreshed = call.refreshed
      /\ call'.landed = call.landed
  BY <1>1, SeenCall DEF Calls
<1>5. v[1] \in Errors
  BY DEF Verdicts, Errors
<1>6. ASSUME NEW e \in Errors, v[1] = e
      PROVE  calls' = Ledger!Count("server", v[2], Ledger!Failing("call", e))
  <2>1. call' = [call EXCEPT !.error = e, !.counted = @ \cup v[2], !.image = call'.image]
    BY <1>1, <1>6, SeenCall DEF Calls
  <2> QED
    BY <2>1, FailedCount
<1>7. ASSUME v[1] # "none", v[2] = {}
      PROVE  Ledger!Raise("call", v[1])
  <2>1. View(call') = [View(call) EXCEPT !.error = v[1]]
    BY <1>4, <1>7 DEF View
  <2>2. Ledger!Update("call", [calls["call"] EXCEPT !.error = v[1]])
    BY <2>1, <1>3, UpdatesTo
  <2>3. Ledger!Goto("call", "failed")
    BY <1>1, <1>7, MovesTo
  <2> QED
    BY <2>2, <2>3 DEF Ledger!Raise
<1>8. CASE v = <<"ambiguous", {"ambiguous"}>>
  <2>1. Ledger!Goto("call", "failed")
    BY <1>1, <1>8, MovesTo
  <2>2. calls' = Ledger!Count("server", {"ambiguous"}, Ledger!Failing("call", "ambiguous"))
    BY <1>6, <1>8 DEF Errors
  <2>3. Ledger!Lost("call")
    BY <1>2, <1>4, <2>1, <2>2, LedgerRest DEF Ledger!Lost
  <2> QED
    BY <2>3 DEF Ledger!Step
<1>9. CASE v = <<"server", {}>>
  <2>1. Ledger!ServerError("call")
    BY <1>2, <1>4, <1>7, <1>9, LedgerRest DEF Ledger!ServerError
  <2> QED
    BY <2>1 DEF Ledger!Step
<1>10. CASE call.landed /\ v = <<"none", {"confirmed"}>>
  <2>1. View(call') = [View(call) EXCEPT !.counted = @ \cup {"confirmed"}]
    <3>1. /\ call'.error = call.error
          /\ call'.counted = call.counted \cup {"confirmed"}
          /\ call'.attempt = call.attempt /\ call'.refreshed = call.refreshed
          /\ call'.landed = call.landed
      BY <1>4, <1>10, SeenCall
    <3> QED
      BY <3>1 DEF View
  <2>2. Ledger!Goto("call", "verifying")
    BY <1>1, <1>10, MovesTo
  <2>3. calls' = Ledger!Count("server", {"confirmed"}, calls)
    BY <2>1, CountedStep
  <2>4. Ledger!Accepted("call")
    BY <1>2, <1>3, <1>4, <1>10, <2>2, <2>3, LedgerRest DEF Ledger!Accepted, View
  <2> QED
    BY <2>4 DEF Ledger!Step
<1>11. CASE call.landed /\ v = <<"ambiguous", {"confirmed", "ambiguous"}>>
  <2>1. Ledger!Goto("call", "failed")
    BY <1>1, <1>11, MovesTo
  <2>2. calls' = Ledger!Count("server", {"confirmed", "ambiguous"},
                              Ledger!Failing("call", "ambiguous"))
    BY <1>6, <1>11 DEF Errors
  <2>3. Ledger!Accepted("call")
    BY <1>2, <1>3, <1>4, <1>11, <2>1, <2>2, LedgerRest DEF Ledger!Accepted, View
  <2> QED
    BY <2>3 DEF Ledger!Step
<1>12. CASE ~call.landed /\ v = <<"client", {}>>
  <2>1. Ledger!Refused("call")
    BY <1>2, <1>3, <1>4, <1>7, <1>12, LedgerRest DEF Ledger!Refused, View
  <2> QED
    BY <2>1 DEF Ledger!Step
<1>13. CASE ~call.landed /\ ~call.refreshed /\ v = <<"local", {}>>
  <2>1. Ledger!Unauthorized("call")
    BY <1>2, <1>3, <1>4, <1>7, <1>13, LedgerRest DEF Ledger!Unauthorized, View
  <2> QED
    BY <2>1 DEF Ledger!Step
<1> QED
  BY <1>8, <1>9, <1>10, <1>11, <1>12, <1>13 DEF Verdicts

LEMMA VerifyStep ==
    ASSUME InCall, Verify
    PROVE  Ledger!Verify("call")
<1>1. pc = "verifying" /\ Ledger!At("call", "verifying")
  BY DEF Verify, Ledger!At
<1>2. CASE pc' = "done" /\ call' = call
  <2>1. Ledger!Goto("call", "done")
    BY <1>2, MovesTo
  <2>2. [t \in {"call"} |-> LedgerCall]' = [t \in {"call"} |-> LedgerCall]
    BY <1>2, SeenCall
  <2> QED
    BY <1>1, <1>2, <2>1, <2>2, LedgerRest DEF Ledger!Verify
<1>3. ASSUME NEW e \in {"unverified", "local", "client", "server", "other"},
             pc' = "failed", call' = [call EXCEPT !.error = e]
      PROVE  Ledger!Verify("call")
  <2>1. Ledger!Raise("call", e) /\ call'.landed = call.landed
    BY <1>3, RaisedStep, SeenCall DEF Calls
  <2> QED
    BY <1>1, <2>1, LedgerRest DEF Ledger!Verify
<1> QED
  BY <1>2, <1>3 DEF Verify, Raise, Goto

LEMMA OthersStep ==
    ASSUME InCall, Others
    PROVE  UNCHANGED Ledger!vars
<1>1. pc' = pc
  BY DEF Others
<1>2. View(call') = View(call) /\ call'.landed = call.landed
  BY SeenCall DEF Others, View, Calls
<1> QED
  BY <1>1, <1>2, UnseenStep

-----------------------------------------------------------------------------
\* A step of an operation is a step of the one task of the ledger, or unseen.
LEMMA OperationStep ==
    ASSUME OperationInv, OperationInv', Next, InOperation
    PROVE  Ledger!Step("call") \/ UNCHANGED Ledger!vars
<1>1. Look \/ Ready \/ Send \/ Again \/ Answer \/ Verify \/ Others
  BY DEF Next, Start, Close, InOperation
<1>2. InCall
  BY <1>1
  DEF InCall, InOperation, Look, Ready, Send, Again, Answer, Verify, Others, Raise, Goto
<1>3. CASE Send
  BY <1>2, <1>3, SendStep DEF Ledger!Step
<1>4. CASE Again
  BY <1>2, <1>4, AgainStep DEF Ledger!Step
<1>5. CASE Verify
  BY <1>2, <1>5, VerifyStep DEF Ledger!Step
<1> QED
  BY <1>1, <1>2, <1>3, <1>4, <1>5, CheckStep, AnswerStep, OthersStep

\* Every write tool does between its reservation and its outcome only what the operation
\* of WriteLedger may do (OperationOfLedger), whatever it reads, sends and compares and
\* whatever others change.
THEOREM ToolsRefineTheLedger == Spec => OperationOfLedger
<1>1. /\ OperationInv /\ OperationInv' /\ [Next]_vars
      => [InOperation => Ledger!Step("call") \/ UNCHANGED Ledger!vars]_vars
  BY OperationStep
<1> QED
  BY <1>1, InitOperation, NextKeepsOperation, PTL
  DEF Spec, OperationOfLedger, InOperation

=============================================================================
