--------------------------- MODULE MetadataStore ---------------------------
(***************************************************************************)
(* The store behind every table of the frontend:                           *)
(* frontend/src/sea-metadata/store (index.js, data-processor.js,           *)
(* server-operator.js, operations/).                                       *)
(*                                                                         *)
(* The user edits, deletes, inserts, regroups, undoes and redoes; the      *)
(* store applies most operations to the table at once and sends them to    *)
(* the server one by one; answers come back later and may refuse, fail or  *)
(* rewrite what was applied.  Meanwhile the table can be reloaded, the     *)
(* "close linked issues" dialog can write past the queue, and the user can *)
(* leave the view.  A row has one cell, which is also the column that the  *)
(* view groups by; a row that does not exist has the value Absent.         *)
(***************************************************************************)
EXTENDS Naturals, Sequences, FiniteSets, SequencesExt

CONSTANTS
  Rows,        \* rows of the table
  Initial,     \* rows that exist when the view is opened
  Values,      \* values of a cell
  Default,     \* the value every row has when the view is opened
  Absent,      \* the value of a row that does not exist
  None,        \* no reload, no dialog
  EchoAnswers, \* whether an answer to the change of one cell holds the row
  MaxUndo,     \* operations that can be undone (10 in the code)
  MaxOps,      \* bound: operations that are sent to the server
  MaxReloads   \* bound: reloads

ASSUME RowsAssumption == Initial \subseteq Rows /\ IsFiniteSet(Rows)
ASSUME ValuesAssumption == Default \in Values /\ Absent \notin Values
ASSUME EchoAssumption == EchoAnswers \subseteq BOOLEAN /\ EchoAnswers # {}
ASSUME BoundAssumption == MaxUndo \in Nat \ {0} /\ MaxOps \in Nat /\ MaxReloads \in Nat

VARIABLES
  data,       \* the table shown: rows, whether it is grouped, the group of each row
  history,    \* the stacks of operations to undo and to redo
  pending,    \* operations waiting to be sent
  inflight,   \* operations sent and not answered
  sending,    \* isSendingOperation
  server,     \* the rows as the server stores them
  reload,     \* the reload in flight
  dialog,     \* the "close linked issues" dialog
  confirmed,  \* changes confirmed in the dialog, in flight
  mounted,    \* the view is open
  nops,       \* operations enqueued so far
  nreloads,   \* reloads requested so far
  log,        \* operations the server executed, by their place in the user's order
  doubt,      \* rows that an error, a race or a reload may have left different from the server
  touched,    \* rows changed by something that undo does not know of
  astray,     \* rows changed without the groups being computed again
  crossed     \* an answer was entered into the stacks by another operation's handler

localVars == <<data, history>>
queueVars == <<pending, inflight, sending, nops>>
vars == <<data, history, pending, inflight, sending, server, reload, dialog, confirmed,
          mounted, nops, nreloads, log, doubt, touched, astray, crossed>>

Cell == Values \cup {Absent}
Types == {"modify", "delete", "deleteRows", "insert", "groupbys"}

\* NEED_APPLY_AFTER_SERVER_OPERATION: applied when the server has answered.
AfterServer == {"insert", "deleteRows"}

\* UNDO_OPERATION_TYPE
Undoable == {"modify"}

\* An operation: the rows it is about are the domain of new and old.
Updates == UNION {[S -> Cell] : S \in SUBSET Rows}
Operation == {op \in [id : 1..MaxOps, type : Types, new : Updates, old : Updates] :
                 DOMAIN op.old = DOMAIN op.new}

RowsOf(op) == DOMAIN op.new

\* What becomes of the stacks when an operation is applied: "do" for an operation of
\* the user, "undo" and "redo" for the operations those make.
Handler == [kind : {"do"}] \cup [kind : {"undo", "redo"}, op : Operation]

Entry == [op : Operation, n : 1..MaxOps]
Sent == [op : Operation, n : 1..MaxOps, by : Handler, phase : {"sent", "stored"},
         failed : SUBSET Rows]   \* failed_rows: rows to delete that were not there

Outstanding == {pending[i] : i \in 1..Len(pending)} \cup inflight
IsOutstanding(r) == \E e \in Outstanding : r \in RowsOf(e.op)
OnServer(rs) == \A r \in rs : server[r] # Absent

-----------------------------------------------------------------------------
(* Data: operations/apply.js and data-processor.js *)

Regrouped(d) == [d EXCEPT !.groups = IF d.grouped THEN d.rows ELSE [r \in Rows |-> Absent]]

ModifyRows(d, new) ==
  [d EXCEPT !.rows = [r \in Rows |-> IF r \in DOMAIN new /\ d.rows[r] # Absent
                                     THEN new[r] ELSE d.rows[r]]]

\* Faulty variant for the checks: the groups keep the deleted rows.
DeleteRowsKeepingGroups(d, gone) ==
  [d EXCEPT !.rows = [r \in Rows |-> IF r \in gone THEN Absent ELSE d.rows[r]]]

DeleteRows(d, gone) ==
  [d EXCEPT !.rows = [r \in Rows |-> IF r \in gone THEN Absent ELSE d.rows[r]],
            !.groups = [r \in Rows |-> IF r \in gone THEN Absent ELSE d.groups[r]]]

\* An operation applied to the table, and the groups brought up to date.
Applied(d, op) ==
  CASE op.type = "modify" -> Regrouped(ModifyRows(d, op.new))
    [] op.type \in {"delete", "deleteRows"} -> DeleteRows(d, RowsOf(op))
    [] op.type = "insert" ->
         Regrouped([d EXCEPT !.rows = [r \in Rows |-> IF r \in RowsOf(op) THEN op.new[r]
                                                      ELSE d.rows[r]]])
    [] op.type = "groupbys" -> Regrouped([d EXCEPT !.grouped = ~d.grouped])

\* A change that is not sent: MODIFY_LOCAL_ROW(S) has no case in syncOperationOnData.
AppliedLocally(d, new) == ModifyRows(d, new)

-----------------------------------------------------------------------------
(* The stacks: handleUndoRedos *)

NewestUndo(s) == IF Len(s) > MaxUndo THEN SubSeq(s, Len(s) - MaxUndo + 1, Len(s)) ELSE s

\* Faulty variant for the checks: a new operation does not clear what can be redone.
HandleDoKeepingRedos(h, type, op) ==
  [h EXCEPT !.undo = IF type \in Undoable THEN Append(NewestUndo(h.undo), op)
                     ELSE NewestUndo(h.undo)]

HandleDo(h, type, op) ==
  [undo |-> IF type \in Undoable THEN Append(NewestUndo(h.undo), op) ELSE NewestUndo(h.undo),
   redos |-> <<>>]

HandleUndoRedos(h, by, op) ==
  CASE by.kind = "do" -> HandleDo(h, op.type, op)
    [] by.kind = "undo" -> [h EXCEPT !.redos = Append(@, by.op)]
    [] by.kind = "redo" -> [h EXCEPT !.undo = Append(@, by.op)]

\* The stacks after a change that is only applied locally.
HandleLocal(h) == [undo |-> NewestUndo(h.undo), redos |-> <<>>]

\* The entries of a stack at the positions K, in their order.
Keeping(s, K) ==
  [j \in 1..Cardinality(K) |-> s[CHOOSE k \in K : Cardinality({i \in K : i <= k}) = j]]

WithoutUndo(h, op) ==
  [h EXCEPT !.undo = Keeping(@, {i \in DOMAIN h.undo : h.undo[i].id # op.id})]

-----------------------------------------------------------------------------
(* Sending: addPendingOperations, startSendOperation, sendNextOperation *)

SendNext(queue, others, by) ==
  /\ sending' = (queue # <<>>)
  /\ pending' = IF queue = <<>> THEN queue ELSE Tail(queue)
  /\ inflight' = IF queue = <<>> THEN others
                 ELSE others \cup {[op |-> Head(queue).op, n |-> Head(queue).n,
                                    by |-> by, phase |-> "sent", failed |-> {}]}

\* Faulty variant for the checks: an operation is sent although another one is.
StartSendAtOnce(queue, by) == SendNext(queue, inflight, by)

StartSend(queue, by) ==
  \/ /\ sending
     /\ pending' = queue
     /\ UNCHANGED <<inflight, sending>>
  \/ /\ ~sending
     /\ SendNext(queue, inflight, by)

AddPending(op, by) ==
  /\ nops' = nops + 1
  /\ StartSend(Append(pending, [op |-> op, n |-> nops + 1]), by)

\* The reload holds the view object it was given; the next operation changes that
\* object in place and replaces it by a copy.
ViewOfReload(d) ==
  IF reload = None \/ ~reload.shared THEN reload
  ELSE [reload EXCEPT !.shared = FALSE, !.grouped = d.grouped]

\* A reload or a dialog that a write to these rows overlaps.
Overlap(re, rs) == IF re = None THEN None ELSE [re EXCEPT !.busy = @ \cup rs]

\* A confirmed change that a write to these rows overlaps.
Crossing(w, rs) == [w EXCEPT !.busy = @ \cup (rs \cap DOMAIN w.new)]

Changed(d) == {r \in Rows : d.rows[r] # data.rows[r]}

\* The table changes by an operation, or by a change that is only applied locally.
ChangeBy(op) ==
  LET d == Applied(data, op)
  IN  /\ data' = d
      /\ touched' = IF op.type \in Undoable THEN touched ELSE touched \cup Changed(d)
      /\ astray' = IF op.type \in {"delete", "deleteRows"} THEN astray \ RowsOf(op) ELSE {}
      /\ reload' = Overlap(ViewOfReload(d), RowsOf(op))

ChangeLocally(new, lost) ==
  LET d == AppliedLocally(data, new)
  IN  /\ data' = d
      /\ touched' = touched \cup lost
      /\ astray' = astray \cup Changed(d)
      /\ reload' = ViewOfReload(d)

ApplyOperation(op, by, h) ==
  /\ \/ /\ op.type \in AfterServer
        /\ history' = h
        /\ reload' = Overlap(reload, RowsOf(op))
        /\ UNCHANGED <<data, touched, astray>>
     \/ /\ op.type \notin AfterServer
        /\ history' = HandleUndoRedos(h, by, op)
        /\ ChangeBy(op)
  /\ AddPending(op, by)
  /\ confirmed' = {Crossing(w, RowsOf(op)) : w \in confirmed}
  /\ UNCHANGED <<server, dialog, mounted, nreloads, log, doubt, crossed>>

-----------------------------------------------------------------------------
(* The user.  The dialog is modal: nothing is edited while it is open. *)

CanEdit == mounted /\ dialog = None /\ nops < MaxOps

NewOperation(type, new, old) == [id |-> nops + 1, type |-> type, new |-> new, old |-> old]

Do(type, new, old) ==
  LET op == NewOperation(type, new, old)
  IN  ApplyOperation(op, [kind |-> "do"], history)

\* The user changes one cell, or pastes into several.
Modify(rs, v) ==
  /\ CanEdit
  /\ \A r \in rs : data.rows[r] # Absent
  /\ \E r \in rs : data.rows[r] # v
  /\ Do("modify", [r \in rs |-> v], [r \in rs |-> data.rows[r]])

Delete(rs, type) ==
  /\ CanEdit
  /\ type = "delete" => Cardinality(rs) = 1
  /\ \A r \in rs : data.rows[r] # Absent
  /\ Do(type, [r \in rs |-> Absent], [r \in rs |-> data.rows[r]])

Insert(r, v) ==
  /\ CanEdit
  /\ r \notin Initial
  /\ data.rows[r] = Absent /\ server[r] = Absent
  /\ ~IsOutstanding(r) /\ r \notin touched
  /\ Do("insert", [s \in {r} |-> v], [s \in {r} |-> Absent])

ModifyGroupbys == CanEdit /\ Do("groupbys", << >>, << >>)

\* Faulty variant for the checks: the inverted operation has no old values.
InvertedBlind(op) == NewOperation("modify", op.old, << >>)

Inverted(op) == NewOperation("modify", op.old, op.new)

UndoOperation ==
  /\ CanEdit
  /\ history.undo # <<>>
  /\ LET op == Last(history.undo)
     IN  ApplyOperation(Inverted(op), [kind |-> "undo", op |-> op],
                        [history EXCEPT !.undo = Front(@)])

RedoOperation ==
  /\ CanEdit
  /\ history.redos # <<>>
  /\ LET op == Last(history.redos)
     IN  ApplyOperation(op, [kind |-> "redo", op |-> op], [history EXCEPT !.redos = Front(@)])

-----------------------------------------------------------------------------
(* The server, and its answers: sendOperationCallback *)

\* Rows that are gone cannot be changed.
Accepts(op) == op.type = "modify" => OnServer(RowsOf(op))

\* Deleting rows that are gone is accepted; where several are deleted the answer lists them.
Executed(e) ==
  [e EXCEPT !.phase = "stored",
            !.failed = {r \in RowsOf(e.op) : e.op.type = "deleteRows" /\ server[r] = Absent}]

Execute(e) ==
  /\ e.phase = "sent"
  /\ Accepts(e.op)
  /\ server' = [r \in Rows |-> IF r \in RowsOf(e.op) THEN e.op.new[r] ELSE server[r]]
  /\ inflight' = (inflight \ {e}) \cup {Executed(e)}
  /\ log' = Append(log, e.n)
  /\ UNCHANGED <<data, history, pending, sending, reload, dialog, confirmed, mounted, nops,
                 nreloads, doubt, touched, astray, crossed>>

Others(e) == inflight \ {e}
Later(e, r) == \E f \in Outstanding \ {e} : r \in RowsOf(f.op)

\* The rows of an operation that the server did store: success_rows of a deletion.
Stripped(op, failed) ==
  LET rs == RowsOf(op) \ failed
  IN  [op EXCEPT !.new = [r \in rs |-> op.new[r]], !.old = [r \in rs |-> op.old[r]]]

Succeeded(e) == IF e.op.type = "deleteRows" THEN Stripped(e.op, e.failed) ELSE e.op

\* An operation that waited for the server is applied now, for the handler of the
\* operation that started the sending.
AnswerDeferred(e) ==
  /\ e.op.type \in AfterServer
  /\ history' = HandleUndoRedos(history, e.by, e.op)
  /\ ChangeBy(Succeeded(e))
  /\ crossed' = (crossed \/ e.by.kind # "do")
  /\ UNCHANGED doubt

\* The answer holds the row as it was stored, which is written to the table: the
\* success_callback of modifyRow.
AnswerEcho(e) ==
  /\ e.op.type = "modify" /\ Cardinality(RowsOf(e.op)) = 1
  /\ TRUE \in EchoAnswers
  /\ ChangeLocally(e.op.new, Changed(AppliedLocally(data, e.op.new)))
  /\ history' = HandleLocal(history)
  /\ doubt' = doubt \cup {r \in RowsOf(e.op) : Later(e, r)}
  /\ UNCHANGED crossed

AnswerPlain(e) ==
  /\ e.op.type \notin AfterServer
  /\ e.op.type = "modify" /\ Cardinality(RowsOf(e.op)) = 1 => FALSE \in EchoAnswers
  /\ UNCHANGED <<data, history, reload, doubt, touched, astray, crossed>>

AnswerOk(e) ==
  /\ mounted
  /\ e.phase = "stored"
  /\ AnswerDeferred(e) \/ AnswerEcho(e) \/ AnswerPlain(e)
  /\ SendNext(pending, Others(e), e.by)
  /\ UNCHANGED <<server, dialog, confirmed, mounted, nops, nreloads, log>>

\* Faulty variant for the checks: an error stops the sending.
AnswerErrorStops(e) ==
  /\ mounted
  /\ inflight' = Others(e)
  /\ doubt' = doubt \cup RowsOf(e.op)
  /\ UNCHANGED <<data, history, pending, sending, server, reload, dialog, confirmed, mounted,
                 nops, nreloads, log, touched, astray, crossed>>

\* The server answers with an error, or its answer is lost: nothing is rolled back.
AnswerError(e) ==
  /\ mounted
  /\ SendNext(pending, Others(e), e.by)
  /\ doubt' = IF (e.op.type \in AfterServer) = (e.phase = "stored")
              THEN doubt \cup RowsOf(e.op) ELSE doubt
  /\ UNCHANGED <<data, history, server, reload, dialog, confirmed, mounted, nops, nreloads,
                 log, touched, astray, crossed>>

\* The newest operation on a row that can be undone, or redone.
On(stack, r) == {k \in DOMAIN stack : r \in RowsOf(stack[k])}
NewestOf(stack, r) == {stack[k] : k \in {i \in On(stack, r) : \A j \in On(stack, r) : j <= i}}

\* The dialog takes the change that was refused; one that is open already only shows it.
OpenDialog(e) ==
  \/ UNCHANGED dialog
  \/ /\ Cardinality(RowsOf(e.op)) = 1
     /\ dialog' = IF dialog = None
                  THEN [new |-> e.op.new, n |-> e.n, opened |-> e.n, submitting |-> FALSE]
                  ELSE [dialog EXCEPT !.new = e.op.new, !.n = e.n]

\* Faulty variant for the checks: the refused values stay in the table.
AnswerRefusedWithoutRestore(e) ==
  /\ mounted
  /\ e.phase = "sent"
  /\ e.op.type = "modify"
  /\ history' = WithoutUndo(HandleLocal(history), e.op)
  /\ SendNext(pending, Others(e), e.by)
  /\ OpenDialog(e)
  /\ UNCHANGED <<data, server, reload, confirmed, mounted, nops, nreloads, log, doubt, touched,
                 astray, crossed>>

\* 409: the old values are restored, and the operation cannot be undone any more.
AnswerRefused(e) ==
  /\ mounted
  /\ e.phase = "sent"
  /\ e.op.type = "modify"
  /\ ChangeLocally(e.op.old,
                   {r \in RowsOf(e.op) : \A o \in NewestOf(history.undo, r) : o.id # e.op.id})
  /\ history' = WithoutUndo(HandleLocal(history), e.op)
  /\ SendNext(pending, Others(e), e.by)
  /\ OpenDialog(e)
  /\ doubt' = doubt \cup {r \in RowsOf(e.op) : Later(e, r) \/ r \in touched \/ crossed}
  /\ UNCHANGED <<server, confirmed, mounted, nops, nreloads, log, crossed>>

\* The view was left: the answer finds no table and nothing else to send.
AnswerIgnored(e) ==
  /\ ~mounted
  /\ SendNext(pending, Others(e), e.by)
  /\ UNCHANGED <<data, history, server, reload, dialog, confirmed, mounted, nops, nreloads,
                 log, doubt, touched, astray, crossed>>

-----------------------------------------------------------------------------
(* Reloading: reload, loadMetadata *)

Confirming(r) == \E w \in confirmed : r \in DOMAIN w.new
BusyRows == {r \in Rows : IsOutstanding(r) \/ Confirming(r)}

AskReload ==
  /\ mounted /\ reload = None /\ nreloads < MaxReloads
  /\ reload' = [phase |-> "asked", shared |-> TRUE, grouped |-> data.grouped,
                rows |-> data.rows, busy |-> BusyRows]
  /\ nreloads' = nreloads + 1
  /\ UNCHANGED <<data, history, pending, inflight, sending, server, dialog, confirmed, mounted,
                 nops, log, doubt, touched, astray, crossed>>

ServeReload ==
  /\ reload # None /\ reload.phase = "asked"
  /\ reload' = [reload EXCEPT !.phase = "read", !.rows = server]
  /\ UNCHANGED <<data, history, pending, inflight, sending, server, dialog, confirmed, mounted,
                 nops, nreloads, log, doubt, touched, astray, crossed>>

ApplyReload ==
  /\ mounted
  /\ reload # None /\ reload.phase = "read"
  /\ LET d == Regrouped([data EXCEPT !.rows = reload.rows, !.grouped = reload.grouped])
     IN  data' = d /\ touched' = touched \cup Changed(d)
  /\ astray' = {}
  /\ doubt' = reload.busy
  /\ reload' = None
  /\ UNCHANGED <<history, pending, inflight, sending, server, dialog, confirmed, mounted, nops,
                 nreloads, log, crossed>>

-----------------------------------------------------------------------------
(* The dialog: tickets.js and close-linked-issues.js *)

\* The user closes the dialog, also while its change is in flight.
Dismiss ==
  /\ mounted /\ dialog # None
  /\ dialog' = None
  /\ UNCHANGED <<data, history, pending, inflight, sending, server, reload, confirmed, mounted,
                 nops, nreloads, log, doubt, touched, astray, crossed>>

\* The user confirms: the change is sent past the queue.
Confirm ==
  /\ mounted /\ dialog # None /\ ~dialog.submitting
  /\ dialog' = [dialog EXCEPT !.submitting = TRUE]
  /\ LET rs == DOMAIN dialog.new
     IN  /\ confirmed' = {Crossing(w, rs) : w \in confirmed}
                         \cup {[new |-> dialog.new, n |-> dialog.n, opened |-> dialog.opened,
                                phase |-> "sent", busy |-> rs \cap BusyRows]}
         /\ reload' = Overlap(reload, rs)
  /\ UNCHANGED <<data, history, pending, inflight, sending, server, mounted, nops, nreloads,
                 log, doubt, touched, astray, crossed>>

ExecuteConfirmed(w) ==
  /\ w.phase = "sent"
  /\ OnServer(DOMAIN w.new)
  /\ server' = [r \in Rows |-> IF r \in DOMAIN w.new THEN w.new[r] ELSE server[r]]
  /\ confirmed' = (confirmed \ {w}) \cup {[w EXCEPT !.phase = "stored"]}
  /\ UNCHANGED <<data, history, pending, inflight, sending, reload, dialog, mounted, nops,
                 nreloads, log, doubt, touched, astray, crossed>>

\* LOCAL_ROW_CHANGED brings the confirmed value back to the table, and the dialog closes,
\* whatever it shows by now.
AnswerConfirmed(w) ==
  /\ mounted /\ w.phase = "stored"
  /\ ChangeLocally(w.new, Changed(AppliedLocally(data, w.new)))
  /\ history' = HandleLocal(history)
  /\ doubt' = doubt \cup w.busy
  /\ confirmed' = confirmed \ {w}
  /\ dialog' = None
  /\ UNCHANGED <<pending, inflight, sending, server, mounted, nops, nreloads, log, crossed>>

\* The change is refused, or its answer is lost: the dialog lets the user confirm again.
FailConfirmed(w) ==
  /\ mounted
  /\ doubt' = IF w.phase = "stored" THEN doubt \cup DOMAIN w.new ELSE doubt
  /\ confirmed' = confirmed \ {w}
  /\ dialog' = IF dialog # None /\ dialog.opened = w.opened
               THEN [dialog EXCEPT !.submitting = FALSE] ELSE dialog
  /\ UNCHANGED <<data, history, pending, inflight, sending, server, reload, mounted, nops,
                 nreloads, log, touched, astray, crossed>>

-----------------------------------------------------------------------------
(* The life of the view: constructor, load, destroy *)

Opened(shown) ==
  [rows |-> shown, grouped |-> FALSE, groups |-> [r \in Rows |-> Absent]]

Init ==
  /\ server = [r \in Rows |-> IF r \in Initial THEN Default ELSE Absent]
  /\ data = Opened(server)
  /\ history = [undo |-> <<>>, redos |-> <<>>]
  /\ pending = <<>> /\ inflight = {} /\ sending = FALSE
  /\ reload = None /\ dialog = None /\ confirmed = {}
  /\ mounted = TRUE
  /\ nops = 0 /\ nreloads = 0
  /\ log = <<>>
  /\ doubt = {} /\ touched = {} /\ astray = {} /\ crossed = FALSE

\* The user leaves the view: what was not sent is dropped.
Destroy ==
  /\ mounted
  /\ mounted' = FALSE
  /\ data' = Opened([r \in Rows |-> Absent])
  /\ history' = [undo |-> <<>>, redos |-> <<>>]
  /\ pending' = <<>> /\ sending' = FALSE
  /\ UNCHANGED <<inflight, server, reload, dialog, confirmed, nops, nreloads, log, doubt,
                 touched, astray, crossed>>

User ==
  \/ \E rs \in (SUBSET Rows) \ {{}}, v \in Values : Modify(rs, v)
  \/ \E rs \in (SUBSET Rows) \ {{}}, type \in {"delete", "deleteRows"} : Delete(rs, type)
  \/ \E r \in Rows, v \in Values : Insert(r, v)
  \/ ModifyGroupbys
  \/ UndoOperation
  \/ RedoOperation
  \/ AskReload
  \/ Confirm \/ Dismiss
  \/ Destroy

Answer(e) == AnswerOk(e) \/ AnswerError(e) \/ AnswerRefused(e) \/ AnswerIgnored(e)

ServeQueue == \E e \in inflight : Execute(e) \/ Answer(e)

Next ==
  \/ User \/ ServeQueue
  \/ ServeReload \/ ApplyReload
  \/ \E w \in confirmed : ExecuteConfirmed(w) \/ AnswerConfirmed(w) \/ FailConfirmed(w)

\* Every operation that is sent is answered or fails in the end; the user need not do anything.
Spec == Init /\ [][Next]_vars /\ WF_vars(ServeQueue)

-----------------------------------------------------------------------------
(* Properties *)

Reload == [phase : {"asked", "read"}, shared : BOOLEAN, grouped : BOOLEAN,
           rows : [Rows -> Cell], busy : SUBSET Rows]
Dialog == [new : Updates, n : 1..MaxOps, opened : 1..MaxOps, submitting : BOOLEAN]
Change == [new : Updates, n : 1..MaxOps, opened : 1..MaxOps, phase : {"sent", "stored"},
           busy : SUBSET Rows]

\* Every variable of the store has its type.
TypeOK ==
  /\ data \in [rows : [Rows -> Cell], grouped : BOOLEAN, groups : [Rows -> Cell]]
  /\ \A o \in ToSet(history.undo) \cup ToSet(history.redos) : o \in Operation
  /\ ToSet(pending) \subseteq Entry /\ inflight \subseteq Sent /\ sending \in BOOLEAN
  /\ server \in [Rows -> Cell]
  /\ reload \in Reload \cup {None} /\ dialog \in Dialog \cup {None}
  /\ confirmed \subseteq Change
  /\ mounted \in BOOLEAN /\ crossed \in BOOLEAN
  /\ nops \in 0..MaxOps /\ nreloads \in 0..MaxReloads /\ log \in Seq(1..MaxOps)
  /\ {doubt, touched, astray} \subseteq SUBSET Rows

\* What the user should see of a row: the value of the newest change on its way to the
\* server, else the value that the server stores.
NewestOn(r) == {e \in Outstanding : r \in RowsOf(e.op) /\
                  \A f \in Outstanding : r \in RowsOf(f.op) => f.n <= e.n}

\* The table agrees with the server (store/index.js:189-282).  While changes of a row are
\* on their way it shows the newest of them, and when none is it shows what the server
\* stores, whatever was undone, redone, refused, reloaded or confirmed in between.  The
\* exceptions are the races of the code: an error is not rolled back, a refusal or an
\* answer overwrites a newer change, a reload or the dialog overlaps a change, and what is
\* refused was undone or redone from stacks that another operation's handler has filled.
Agreement ==
  mounted =>
    \A r \in Rows \ doubt :
      /\ \A e \in NewestOn(r) : e.op.type \notin AfterServer /\ data.rows[r] # Absent
                                 => data.rows[r] = e.op.new[r]
      /\ ~IsOutstanding(r) /\ ~Confirming(r) => data.rows[r] = server[r]

\* The server executes the operations of the queue in the order in which the user made
\* them and none of them twice, although answers, refusals and undo start the sending
\* again at any time (store/index.js:216-238).
SentInOrder == \A i \in 1..(Len(log) - 1) : log[i] < log[i + 1]

\* In a grouped table every row stands in the group of its value and no deleted row
\* stands in a group, except for rows that a refusal, an answer or the dialog changed
\* since the groups were computed: MODIFY_LOCAL_ROW has no case in syncOperationOnData
\* (store/data-processor.js:276-458), so such a row stays where it was.
GroupsFollowValues ==
  /\ data.grouped => \A r \in Rows \ astray : data.groups[r] = data.rows[r]
  /\ \A r \in Rows : data.rows[r] = Absent => data.groups[r] = Absent

\* Undo and redo start from the value that is shown (store/index.js:295-326): the newest
\* entry of a row made the value that undo takes back, and the newest entry of the redo
\* stack starts from it.  The exceptions are rows changed behind the stacks, and answers
\* to insertions and deletions that the handler of an earlier undo has entered.  At most
\* one operation more than the limit can be undone.
UndoFits ==
  ~crossed =>
    /\ Len(history.undo) <= MaxUndo + 1
    /\ \A r \in Rows \ touched :
      /\ \A o \in NewestOf(history.undo, r) : o.new[r] = data.rows[r]
      /\ \A o \in NewestOf(history.redos, r) : o.old[r] = data.rows[r]

\* In the end nothing waits to be sent or answered: no error and no refusal stops the
\* sending (store/index.js:230-282).
Drains == <>[](pending = <<>> /\ inflight = {})
=============================================================================
