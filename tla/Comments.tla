------------------------------ MODULE Comments ------------------------------
(***************************************************************************)
(* The comments of a team's tasks: AddComment, EditComment and             *)
(* DeleteComment (internal/service/task.go), run beside each other and     *)
(* beside the requests that change the team and delete tasks.              *)
(*                                                                         *)
(* They use no transaction: every statement commits by itself, decides on  *)
(* what earlier statements read, and may fail.  The team and its tasks     *)
(* change as module Work promises, which Workspace is shown to keep; the   *)
(* comments of a task go with it.  Times have the precision of the         *)
(* columns, one second.                                                    *)
(***************************************************************************)
EXTENDS Work, Naturals

CONSTANTS
    Notes,      \* the comment ids that may ever be generated
    Writers,    \* comment requests that can be in flight together
    Words,      \* contents of comments, trimmed
    MaxClock,   \* bound on the clock
    NoUser, NoTask, NoNote

ASSUME CommentAssumption ==
    /\ NoUser \notin Users
    /\ NoTask \notin Tasks
    /\ NoNote \notin Notes
    /\ Words # {}
    /\ MaxClock \in Nat

VARIABLES
    comment,    \* comment[k]: the row in task_comments
    clock,      \* the time in seconds
    wpc,        \* wpc[w]: the statement request w executes next
    wreq,       \* wreq[w]: what request w asks for
    wrole,      \* wrole[w]: the caller's role as visibleTask read it
    wseen,      \* wseen[w]: the comment as GetComment read it
    wtime,      \* wtime[w]: the time w has taken for its row
    reply       \* the answer, if the last step of a comment request was one

writerVars  == <<wpc, wreq, wrole, wseen, wtime, reply>>
commentVars == <<workVars, comment, clock, writerVars>>

CommentRows == [state   : {"absent", "live", "deleted"},
                task_id : Tasks \cup {NoTask},
                user_id : Users \cup {NoUser},
                content : Words,
                created_at : Nat, updated_at : Nat]

NoComment == [state |-> "absent", task_id |-> NoTask, user_id |-> NoUser,
              content |-> CHOOSE x \in Words : TRUE,
              created_at |-> 0, updated_at |-> 0]

Lost == [NoComment EXCEPT !.state = "deleted"]

CommentOps == {"AddComment", "EditComment", "DeleteComment"}

CommentRequests == [op   : CommentOps \cup {"none"},
                    user : Users \cup {NoUser},
                    task : Tasks \cup {NoTask},
                    note : Notes \cup {NoNote},
                    content : Words]

NoCommentRequest == [op |-> "none", user |-> NoUser, task |-> NoTask,
                     note |-> NoNote, content |-> NoComment.content]

CommentInit ==
    /\ WorkInit
    /\ comment = [k \in Notes |-> NoComment]
    /\ clock = 0
    /\ wpc = [w \in Writers |-> "idle"]
    /\ wreq = [w \in Writers |-> NoCommentRequest]
    /\ wrole = [w \in Writers |-> NoRole]
    /\ wseen = [w \in Writers |-> NoComment]
    /\ wtime = [w \in Writers |-> 0]
    /\ reply = "none"

Exists(k) == comment[k].state = "live"

-----------------------------------------------------------------------------
(* Steps of a comment request.                                             *)

\* A request to the endpoints under /tasks/:id/comments.  The id of a new
\* comment is fresh; the others name one that was seen.
RequestComment(w) ==
    /\ wpc[w] = "idle"
    /\ \E op \in CommentOps, u \in Users, t \in Tasks, k \in Notes, c \in Words :
          /\ IF op = "AddComment"
             THEN /\ comment[k].state = "absent"
                  /\ \A v \in Writers : wreq[v].note # k
             ELSE comment[k].state # "absent"
          /\ op = "DeleteComment" => c = NoComment.content
          /\ wreq' = [wreq EXCEPT ![w] = [op |-> op, user |-> u, task |-> t,
                                          note |-> k, content |-> c]]
    /\ wpc' = [wpc EXCEPT ![w] = "get_task"]
    /\ reply' = "none"
    /\ UNCHANGED <<comment, clock, wrole, wseen, wtime>>

Continue(w, next) ==
    /\ wpc' = [wpc EXCEPT ![w] = next]
    /\ reply' = "none"
    /\ UNCHANGED wreq

\* What the request has read is not used again.
Forget(w) ==
    /\ wrole' = [wrole EXCEPT ![w] = NoRole]
    /\ wseen' = [wseen EXCEPT ![w] = NoComment]
    /\ wtime' = [wtime EXCEPT ![w] = 0]

\* The handler answers with the result or the error of the service.
AnswerComment(w, a) ==
    /\ wpc' = [wpc EXCEPT ![w] = "idle"]
    /\ wreq' = [wreq EXCEPT ![w] = NoCommentRequest]
    /\ Forget(w)
    /\ reply' = a

\* visibleTask, first statement: the task.
VisibleTask(w) ==
    /\ wpc[w] = "get_task"
    /\ \/ ~Live(wreq[w].task) /\ AnswerComment(w, "not_found")
       \/ /\ Live(wreq[w].task)
          /\ Continue(w, "get_role")
          /\ UNCHANGED <<wrole, wseen, wtime>>
    /\ UNCHANGED <<comment, clock>>

\* visibleTask, second statement: the caller's role, which only
\* DeleteComment looks at.  AddComment then takes the time of its row.
VisibleRole(w) ==
    /\ wpc[w] = "get_role"
    /\ LET r == role[wreq[w].user]
       IN \/ r = NoRole /\ AnswerComment(w, "not_found")
          \/ /\ r # NoRole
             /\ wrole' = [wrole EXCEPT ![w] = IF wreq[w].op = "DeleteComment" THEN r ELSE @]
             /\ wtime' = [wtime EXCEPT ![w] = IF wreq[w].op = "AddComment" THEN clock ELSE @]
             /\ Continue(w, IF wreq[w].op = "AddComment" THEN "insert" ELSE "get_comment")
             /\ UNCHANGED wseen
    /\ UNCHANGED <<comment, clock>>

\* A bug: there is no foreign key to the task.
ForeignKeyNone(t) == TRUE

\* What the foreign key of task_comments to tasks accepts.
ForeignKey(t) == Live(t)

\* The INSERT, whose foreign key waits for a request that deletes the task.
AddComment(w) ==
    /\ wpc[w] = "insert"
    /\ \/ /\ ~ForeignKey(wreq[w].task)
          /\ AnswerComment(w, "not_found")
          /\ UNCHANGED comment
       \/ /\ ForeignKey(wreq[w].task)
          /\ comment' = [comment EXCEPT ![wreq[w].note] =
                [state |-> "live", task_id |-> wreq[w].task, user_id |-> wreq[w].user,
                 content |-> wreq[w].content,
                 created_at |-> wtime[w], updated_at |-> wtime[w]]]
          /\ Continue(w, "read_back")
          /\ Forget(w)
    /\ UNCHANGED clock

\* A bug: whoever sees a comment may rewrite it.
CanEditCommentAnybody(user, row) == TRUE

\* Only the author may rewrite their words, whatever their role.
CanEditComment(user, row) == row.user_id = user

CanDeleteComment(r, user, row) == row.user_id = user \/ IsManager(r)

\* A bug: an edit that changes nothing is sent to the database too.
UnchangedNever(row, c) == FALSE

\* EditComment returns the comment as it is when nothing changes.
Unchanged(row, c) == row.content = c

\* GetComment, by its id and the task's, and the decision.
GetComment(w) ==
    /\ wpc[w] = "get_comment"
    /\ LET row     == comment[wreq[w].note]
           edits   == wreq[w].op = "EditComment"
           allowed == IF edits THEN CanEditComment(wreq[w].user, row)
                      ELSE CanDeleteComment(wrole[w], wreq[w].user, row)
       IN \/ /\ ~(row.state = "live" /\ row.task_id = wreq[w].task)
             /\ AnswerComment(w, "not_found")
          \/ /\ row.state = "live" /\ row.task_id = wreq[w].task
             /\ \/ ~allowed /\ AnswerComment(w, "forbidden")
                \/ /\ allowed /\ edits /\ Unchanged(row, wreq[w].content)
                   /\ AnswerComment(w, "ok")
                \/ /\ allowed /\ ~(edits /\ Unchanged(row, wreq[w].content))
                   /\ wseen' = [wseen EXCEPT ![w] = row]
                   /\ wtime' = [wtime EXCEPT ![w] = IF edits THEN clock ELSE @]
                   /\ Continue(w, IF edits THEN "update" ELSE "delete")
                   /\ UNCHANGED wrole
    /\ UNCHANGED <<comment, clock>>

\* MySQL counts the rows that a statement changes, not the rows it finds, and
\* requireAffected takes none for a comment that is gone.
RequireAffected(k, row) == Exists(k) /\ row # comment[k]

\* UPDATE ... WHERE id = ?.
UpdateComment(w) ==
    /\ wpc[w] = "update"
    /\ LET k   == wreq[w].note
           row == [comment[k] EXCEPT !.content = wreq[w].content, !.updated_at = wtime[w]]
       IN \/ /\ ~RequireAffected(k, row)
             /\ AnswerComment(w, "not_found")
             /\ UNCHANGED comment
          \/ /\ RequireAffected(k, row)
             /\ comment' = [comment EXCEPT ![k] = row]
             /\ Continue(w, "read_back")
             /\ Forget(w)
    /\ UNCHANGED clock

DeleteComment(w) ==
    /\ wpc[w] = "delete"
    /\ LET k == wreq[w].note
       IN \/ ~RequireAffected(k, Lost) /\ AnswerComment(w, "not_found") /\ UNCHANGED comment
          \/ /\ RequireAffected(k, Lost)
             /\ comment' = [comment EXCEPT ![k] = Lost]
             /\ AnswerComment(w, "ok")
    /\ UNCHANGED clock

\* AddComment and EditComment answer with the comment as it is now.
ReadBack(w) ==
    /\ wpc[w] = "read_back"
    /\ AnswerComment(w, IF Exists(wreq[w].note) THEN "ok" ELSE "not_found")
    /\ UNCHANGED <<comment, clock>>

\* A statement fails; what the earlier ones wrote stays.
FailComment(w) ==
    /\ wpc[w] # "idle"
    /\ AnswerComment(w, "error")
    /\ UNCHANGED <<comment, clock>>

Tick ==
    /\ clock < MaxClock
    /\ clock' = clock + 1
    /\ UNCHANGED <<comment, writerVars>>

CommentStep(w) ==
    \/ RequestComment(w) \/ VisibleTask(w) \/ VisibleRole(w) \/ AddComment(w)
    \/ GetComment(w) \/ UpdateComment(w) \/ DeleteComment(w) \/ ReadBack(w)
    \/ FailComment(w)

-----------------------------------------------------------------------------
(* The team and its tasks.                                                 *)

\* ON DELETE CASCADE: the comments go with their task.
Cascade ==
    comment' = [k \in Notes |-> IF Exists(k) /\ task'[comment[k].task_id] # "live"
                                THEN Lost ELSE comment[k]]

WorkStep == WorkNext /\ Cascade

CommentNext ==
    \/ WorkStep /\ UNCHANGED <<clock, writerVars>>
    \/ (Tick \/ \E w \in Writers : CommentStep(w)) /\ UNCHANGED workVars

CommentSpec == CommentInit /\ [][CommentNext]_commentVars
-----------------------------------------------------------------------------
\* Types of the comments and of their requests.
CommentTypeOK ==
    /\ team \in {"absent", "live", "deleted"}
    /\ role \in [Users -> Roles \cup {NoRole}]
    /\ task \in [Tasks -> {"absent", "live", "deleted"}]
    /\ comment \in [Notes -> CommentRows]
    /\ clock \in Nat
    /\ wpc \in [Writers -> {"idle", "get_task", "get_role", "insert", "get_comment",
                            "update", "delete", "read_back"}]
    /\ wreq \in [Writers -> CommentRequests]
    /\ wrole \in [Writers -> Roles \cup {NoRole}]
    /\ wseen \in [Writers -> CommentRows]
    /\ wtime \in [Writers -> Nat]
    /\ reply \in {"none", "ok", "not_found", "forbidden", "error"}

\* No comment outlives its task, although a comment is added several
\* statements after its task was seen and tasks are deleted meanwhile.
NoOrphans == \A k \in Notes : Exists(k) => Live(comment[k].task_id)

\* "Only the author may rewrite their words" (rbac.go): whoever moderates or
\* edits at the same time, the words of a comment change only in a request
\* of its author; and a comment that is gone never comes back.
WordsAreTheAuthors ==
    [][\A k \in Notes :
          /\ comment[k].state = "deleted" => comment'[k] = comment[k]
          /\ Exists(k) /\ comment'[k].state = "live" /\ comment'[k].content # comment[k].content =>
               \E w \in Writers : /\ wpc[w] = "update" /\ wpc'[w] # "update"
                                  /\ wreq[w].note = k
                                  /\ wreq[w].user = comment[k].user_id]_commentVars

\* A request that had found, or stored, its comment and then answers "not
\* found" is right: the comment is gone; or, the one thing that MySQL's
\* count of changed rows confuses with it, somebody else has edited the
\* comment since the request read it.
NotFoundMeansGone ==
    [][\A w \in Writers :
          /\ wpc[w] \in {"update", "delete", "read_back"}
          /\ wpc'[w] = "idle" /\ reply' = "not_found"
          =>
             \/ ~Exists(wreq[w].note)
             \/ wpc[w] = "update" /\ comment[wreq[w].note] # wseen[w]]_commentVars
=============================================================================
