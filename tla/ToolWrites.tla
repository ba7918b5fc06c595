---------------------------- MODULE ToolWrites ----------------------------
(***************************************************************************)
(* The write tools of server.py: what each of them reads before its write, *)
(* which header guards the write, and what it compares before it reports   *)
(* success, while other users change the same object in Microsoft 365.     *)
(*                                                                         *)
(* One request runs under one idempotency key and is submitted again only  *)
(* when the ledger row is free or rejected (WriteLedger).  The object has  *)
(* the fields a request may ask for, the checklist items of a Planner task *)
(* among them, and a revision that its ETag names.  Every awaited request  *)
(* is a step, and others move between any two.                             *)
(***************************************************************************)
EXTENDS Naturals, FiniteSets, Sequences

CONSTANTS
    Items,       \* possible checklist items, named by their UUIDs
    Limit,       \* how many a checklist may have: 20
    MaxRetries,  \* graph_max_retries
    MaxChanges,  \* bound on the changes of other users
    None

ASSUME ToolAssumption ==
    /\ IsFiniteSet(Items)
    /\ Limit \in Nat
    /\ MaxRetries \in Nat
    /\ MaxChanges \in Nat
    /\ {"named", "rest", "fence"} \cap Items = {}

\* "named": the values a tool compares afterwards; "rest": those it sends and does not.
Fields == {"named", "rest"} \cup Items

\* Relative to the request: what it asks for, something else, or nothing.
Values == {"asked", "other", "absent"}

Points == {"idle", "checking", "writing", "waiting", "verifying", "failed", "done"}

-----------------------------------------------------------------------------
(***************************************************************************)
(* The tools: the fields they send and compare, the reads before the write *)
(* in order, If-Match or not, and where the compared values come from.     *)
(***************************************************************************)

Reads == {"fence", "exists", "details", "metadata", "content"}

\* A PATCH or POST, and a GET whose fields are compared.
ReadBack(reads) ==
    [asks |-> {"named"}, compared |-> {"named"}, reads |-> reads, ifMatch |-> FALSE,
     confirm |-> "read", empty |-> TRUE]

set_directory_user_account_enabled == ReadBack(<<>>)
update_directory_group             == ReadBack(<<"fence">>)
add_user_to_group                  == ReadBack(<<"fence", "exists">>)
append_onenote_page_text           == ReadBack(<<>>)
rebind_powerbi_report              == ReadBack(<<>>)
update_entra_application           == ReadBack(<<>>)
update_entra_service_principal     == ReadBack(<<>>)
update_conditional_access_policy   == ReadBack(<<>>)

\* A POST that is reported as accepted: nothing is compared.
Accepting(reads) ==
    [asks |-> {"rest"}, compared |-> {}, reads |-> reads, ifMatch |-> FALSE,
     confirm |-> "none", empty |-> TRUE]

sync_managed_device     == Accepting(<<>>)
reboot_cloudpc          == Accepting(<<"exists">>)
refresh_powerbi_dataset == Accepting(<<>>)
send_mail_draft         == Accepting(<<"fence">>)

\* A POST whose answer is the new object.
Creating(compared) ==
    [asks |-> compared \cup {"rest"}, compared |-> compared, reads |-> <<>>,
     ifMatch |-> FALSE, confirm |-> "answer", empty |-> TRUE]

create_mail_draft     == Creating({})
create_calendar_event == Creating({"named"})
create_contact        == Creating({"named"})
create_todo_task      == Creating({"named"})
send_channel_message  == Creating({})
send_chat_message     == Creating({})
create_planner_task   == Creating({"named"})

\* A PATCH whose answer is compared, or a GET when the answer is empty.
update_excel_range ==
    [asks |-> {"named"}, compared |-> {"named"}, reads |-> <<>>, ifMatch |-> FALSE,
     confirm |-> "either", empty |-> TRUE]

update_calendar_event ==
    [update_excel_range EXCEPT !.asks = {"named", "rest"}, !.ifMatch = TRUE]

update_todo_task ==
    [update_excel_range EXCEPT !.asks = {"named", "rest"}, !.ifMatch = TRUE]

\* The plan is read before the PATCH and compared in its answer.
update_planner_task ==
    [update_todo_task EXCEPT !.reads = <<"fence">>, !.compared = {"named", "fence"}]

\* The plan is that of the task; the ETag is that of its details.
update_planner_task_details ==
    [update_excel_range EXCEPT
        !.asks = {"named"} \cup Items, !.compared = {"named"} \cup Items,
        !.reads = <<"fence", "details">>, !.ifMatch = TRUE]

\* The new content is made from the one downloaded.  No field of the file is compared,
\* but an answer that does not name the item and its new ETag is as good as none.
replace_office_text ==
    [asks |-> {"rest"}, compared |-> {}, reads |-> <<"metadata", "content">>,
     ifMatch |-> TRUE, confirm |-> "answer", empty |-> TRUE]

Tools ==
    {set_directory_user_account_enabled, update_directory_group, add_user_to_group,
     append_onenote_page_text, rebind_powerbi_report, update_entra_application,
     update_entra_service_principal, update_conditional_access_policy,
     sync_managed_device, reboot_cloudpc, refresh_powerbi_dataset, send_mail_draft,
     create_mail_draft, create_calendar_event, create_contact, create_todo_task,
     send_channel_message, send_chat_message, create_planner_task,
     update_excel_range, update_calendar_event, update_todo_task,
     update_planner_task, update_planner_task_details, replace_office_text}

\* additions: checklist items the request adds, under ids made from its key and their
\* index; the other items it asks for are edits.  Updates may leave fields out.
Requests ==
    {r \in [tool : Tools, asks : SUBSET Fields, additions : SUBSET Items] :
        /\ r.asks # {}
        /\ r.asks \subseteq r.tool.asks
        /\ r.tool.confirm # "either" => r.asks = r.tool.asks
        /\ r.additions \subseteq r.asks}

Objects == [rev : Nat, data : [Fields -> Values], fence : BOOLEAN]

Errors == {"none", "local", "unverified", "client", "server", "ambiguous", "other"}

\* A call: its ETag, the body it sends, the reads it made and the revisions they found,
\* the request loop, the counters it moved, and what it raised.  Of its write: whether it
\* landed, the object it replaced, the answer, and whether what the tool compares has
\* stood on the object since.
Calls ==
    [etag : Nat, body : SUBSET Fields, looked : Nat, seen : [Reads -> Nat],
     attempt : 0..MaxRetries, refreshed : BOOLEAN,
     counted : SUBSET {"attempted", "confirmed", "ambiguous"}, error : Errors,
     landed : BOOLEAN, over : Objects \cup {None}, image : Objects \cup {None},
     stood : BOOLEAN]

ASSUME NoneAssumption == None \notin Calls

VARIABLES
    request,  \* what the caller asks for
    row,      \* status of the ledger row of its key
    pc, call, \* the call in progress, or the last one
    object,   \* what the write changes
    changes   \* changes of other users so far

vars == <<request, row, pc, call, object, changes>>

Present(data) == {i \in Items : data[i] # "absent"}

\* An item of the request may be there already: an execution under another ledger.
Init ==
    /\ request \in Requests
    /\ row = None
    /\ pc = "idle"
    /\ call = None
    /\ object \in {o \in [rev : {1}, data : [Fields -> Values], fence : BOOLEAN] :
                      /\ o.data["named"] = "other" /\ o.data["rest"] = "other"
                      /\ Cardinality(Present(o.data)) <= Limit
                      /\ Present(o.data) \subseteq request.tool.asks}
    /\ changes = 0

-----------------------------------------------------------------------------
(***************************************************************************)
(* A call: the reads before the write.                                     *)
(***************************************************************************)

tool == request.tool

Goto(point) == pc' = point

\* The operation raises; IdempotencyStore.execute classifies the error.
Raise(errors) ==
    /\ Goto("failed")
    /\ \E e \in errors : call' = [call EXCEPT !.error = e]

\* A new call under the key, with an ETag its caller has seen at some time.
Start(etag) ==
    /\ pc = "idle"
    /\ row \in {None, "rejected"}
    /\ row' = "pending"
    /\ Goto("checking")
    /\ call' = [etag |-> etag, body |-> request.asks, looked |-> 0,
                seen |-> [k \in Reads |-> 0], attempt |-> 0, refreshed |-> FALSE,
                counted |-> {}, error |-> "none", landed |-> FALSE,
                over |-> None, image |-> None, stood |-> FALSE]
    /\ UNCHANGED <<request, object, changes>>

\* Additions that are not there yet; the rest of the request is sent as it is.
NewItems == {i \in request.additions : object.data[i] = "absent"}

PatchBody == (request.asks \ request.additions) \cup NewItems

\* Mutant of WithinLimit: only the additions are counted.
WithinLimitAlone == Cardinality(NewItems) <= Limit

WithinLimit == Cardinality(Present(object.data)) + Cardinality(NewItems) <= Limit

\* The details the caller reviewed, no addition under an id that holds something else,
\* no edit of an item that is not there, and something to write.
DetailsFit ==
    /\ object.rev = call.etag
    /\ \A i \in request.additions : object.data[i] # "other"
    /\ WithinLimit
    /\ \A i \in (request.asks \cap Items) \ request.additions :
          object.data[i] # "absent"
    /\ PatchBody # {}

\* What a read must show for the operation to go on.  The ETag of the metadata is
\* compared only after the content was downloaded.
Passes(kind) ==
    /\ kind = "fence" => object.fence
    /\ kind = "details" => DetailsFit
    /\ kind = "content" => call.seen["metadata"] = call.etag

\* One GET before the write; it may fail, or be refused by a check.
Look ==
    /\ pc = "checking"
    /\ call.looked < Len(tool.reads)
    /\ LET kind == tool.reads[call.looked + 1] IN
       \/ /\ Passes(kind)
          /\ call' = [call EXCEPT !.looked = @ + 1, !.seen[kind] = object.rev,
                                  !.body = IF kind = "details" THEN PatchBody ELSE @]
          /\ UNCHANGED pc
       \/ Raise({"local", "client", "server", "other"})
    /\ UNCHANGED <<request, row, object, changes>>

\* The write is next, unless the operation refuses it or finds no token.
Ready ==
    /\ pc = "checking"
    /\ call.looked = Len(tool.reads)
    /\ \/ Goto("writing") /\ UNCHANGED call
       \/ Raise({"local", "client", "server", "other"})
    /\ UNCHANGED <<request, row, object, changes>>

-----------------------------------------------------------------------------
(***************************************************************************)
(* The write and its answers.                                              *)
(***************************************************************************)

Holds(field, o) == IF field = "fence" THEN o.fence ELSE o.data[field] = "asked"

\* The comparisons before success, on an object o.
Matches(o) == \A f \in tool.compared \cap (call.body \cup {"fence"}) : Holds(f, o)

\* Mutant of Takes: the header is not sent.
TakesAnyRevision == TRUE

\* Microsoft 365 takes a conditional write only of the revision If-Match names.
Takes == tool.ifMatch => object.rev = call.etag

\* It may store another value than it was sent (a title is trimmed, a name normalised).
Written(o, altered) ==
    [o EXCEPT !.rev = @ + 1,
              !.data = [f \in Fields |-> IF f \notin call.body THEN o.data[f]
                                         ELSE IF f \in altered THEN "other" ELSE "asked"]]

Send ==
    /\ pc = "writing"
    /\ Goto("waiting")
    /\ \/ /\ Takes
          /\ \E altered \in SUBSET call.body : object' = Written(object, altered)
          /\ call' = [call EXCEPT !.counted = @ \cup {"attempted"}, !.landed = TRUE,
                                  !.over = object, !.image = object',
                                  !.stood = Matches(object')]
       \/ /\ call' = [call EXCEPT !.counted = @ \cup {"attempted"}]
          /\ UNCHANGED object
    /\ UNCHANGED <<request, row, changes>>

\* How a request loop may end, with the counters that move: a 2xx with a readable body
\* or not; no answer, a gateway error or a redirect; any other 5xx or a spent budget;
\* a 4xx; a token that cannot be refreshed.
Verdicts(c) ==
    {<<"ambiguous", {"ambiguous"}>>, <<"server", {}>>} \cup
    IF c.landed
    THEN {<<"none", {"confirmed"}>>, <<"ambiguous", {"confirmed", "ambiguous"}>>}
    ELSE {<<"client", {}>>} \cup IF c.refreshed THEN {} ELSE {<<"local", {}>>}

\* Mutant of Repeats: a write is repeated like a read, also after a gateway error.
RepeatsLikeRead(c) == c.attempt < MaxRetries

\* A write is repeated after 429 and after a first 401, which Graph did not take.
Repeats(c) == c.attempt < MaxRetries /\ ~c.landed

Again ==
    /\ pc = "waiting"
    /\ Repeats(call)
    /\ Goto("writing")
    /\ \E refreshed \in {TRUE, call.refreshed} :
          call' = [call EXCEPT !.attempt = @ + 1, !.refreshed = refreshed]
    /\ UNCHANGED <<request, row, object, changes>>

Answer ==
    /\ pc = "waiting"
    /\ \E v \in Verdicts(call), empty \in {FALSE, tool.empty} :
          /\ Goto(IF v[1] = "none" THEN "verifying" ELSE "failed")
          /\ call' = [call EXCEPT !.error = v[1], !.counted = @ \cup v[2],
                                  !.image = IF empty THEN None ELSE @]
    /\ UNCHANGED <<request, row, object, changes>>

-----------------------------------------------------------------------------
(***************************************************************************)
(* The verification, the closing update, and the others.                   *)
(***************************************************************************)

ReadsBack == tool.confirm = "read" \/ (tool.confirm = "either" /\ call.image = None)

\* Mutant of Confirmed: the answer is taken at its word.
ConfirmedUnread == TRUE

Confirmed ==
    \/ tool.confirm = "none"
    \/ ReadsBack /\ Matches(object)
    \/ ~ReadsBack /\ call.image # None /\ Matches(call.image)

Verify ==
    /\ pc = "verifying"
    /\ \/ Confirmed /\ Goto("done") /\ UNCHANGED call
       \/ ~Confirmed /\ Raise({"unverified"})
       \/ ReadsBack /\ Raise({"local", "client", "server", "other"})
    /\ UNCHANGED <<request, row, object, changes>>

\* What the ledger sees of the call.
LedgerCall ==
    IF call = None THEN None
    ELSE [key |-> "key", payload |-> "payload", counted |-> call.counted,
          error |-> call.error, attempt |-> call.attempt,
          refreshed |-> call.refreshed, landed |-> call.landed]

LedgerRow ==
    IF row = None THEN None
    ELSE [payload |-> "payload", status |-> row, aged |-> FALSE]

Ledger == INSTANCE WriteLedger WITH
    Tasks <- {"call"}, ProcessOf <- [t \in {"call"} |-> "server"],
    Keys <- {"key"}, Payloads <- {"payload"}, MaxLosses <- 0,
    rows <- [k \in {"key"} |-> LedgerRow], pc <- [t \in {"call"} |-> pc],
    call <- [t \in {"call"} |-> LedgerCall], reply <- [t \in {"call"} |-> None],
    applied <- [k \in {"key"} |-> IF call # None /\ call.landed THEN 1 ELSE 0],
    losses <- 0

ASSUME LedgerNoneAssumption == None \notin Ledger!Calls \cup Ledger!Statuses

Close ==
    /\ pc \in {"done", "failed"}
    /\ Goto("idle")
    /\ row' = IF pc = "done" THEN "completed" ELSE Ledger!FailureStatus(LedgerCall)
    /\ UNCHANGED <<request, call, object, changes>>

\* Others edit what the request is about, with at most Limit items; every edit is a new
\* revision.
OthersEdit(field, value) ==
    LET data == [object.data EXCEPT ![field] = value] IN
    /\ changes < MaxChanges
    /\ object.data[field] # value
    /\ field \in {"named", "rest"} => value # "absent"
    /\ Cardinality(Present(data)) <= Limit
    /\ changes' = changes + 1
    /\ object' = [object EXCEPT !.rev = @ + 1, !.data = data]

\* Or they send the draft, or move the task to another plan: a new revision of the task
\* and not of its details.
OthersMove ==
    /\ changes < MaxChanges
    /\ \/ tool = send_mail_draft /\ object.fence
       \/ tool \in {update_planner_task, update_planner_task_details}
    /\ changes' = changes + 1
    /\ object' = [object EXCEPT
                    !.fence = ~@,
                    !.rev = IF tool = update_planner_task_details THEN @ ELSE @ + 1]

Others ==
    /\ OthersMove \/ \E f \in tool.asks, v \in Values : OthersEdit(f, v)
    /\ call' = IF call # None /\ call.landed /\ Matches(object')
               THEN [call EXCEPT !.stood = TRUE] ELSE call
    /\ UNCHANGED <<request, row, pc>>

Next ==
    \/ \E etag \in 1..object.rev : Start(etag)
    \/ Look \/ Ready \/ Send \/ Again \/ Answer \/ Verify \/ Close
    \/ Others

Spec == Init /\ [][Next]_vars

-----------------------------------------------------------------------------
(***************************************************************************)
(* Properties.                                                             *)
(***************************************************************************)

\* The request, the ledger row, the call and the object have their types.
TypeOK ==
    /\ request \in Requests
    /\ row \in Ledger!Statuses \cup {None}
    /\ pc \in Points
    /\ call \in Calls \cup {None}
    /\ object \in Objects
    /\ changes \in 0..MaxChanges

\* README.md: resource-specific ETag concurrency on updates.  A conditional write replaces
\* the revision its caller reviewed; everything the tool read before it (the content it
\* edits, the checklist it counts, the plan it checks) was read at that very revision; and
\* a Planner task is still in the declared plan: although the tools compare at most one of
\* their reads with the ETag.
NoLostUpdate ==
    call # None /\ call.landed /\ tool.ifMatch =>
        /\ call.over.rev = call.etag
        /\ \A i \in 1..Len(tool.reads) : call.seen[tool.reads[i]] = call.etag
        /\ tool = update_planner_task => call.over.fence

\* README.md: the resulting checklist is capped at 20, whatever others add between the
\* count and the write.
ChecklistWithinLimit == Cardinality(Present(object.data)) <= Limit

\* A completed write took effect, and what the tool compares stood on the object at some
\* moment since, although others may have changed it before the read back.
SuccessWasTrue ==
    row = "completed" => call.landed /\ call.stood

\* Between its reservation and its outcome every write tool, over Graph, the upload and
\* Power BI, does only what the operation of WriteLedger may do, so that what is shown
\* there of retries, counters and receipts holds of each of them.
OperationOfLedger ==
    [][pc \notin {"idle", "failed", "done"} =>
          Ledger!Step("call") \/ UNCHANGED Ledger!vars]_vars

=============================================================================
