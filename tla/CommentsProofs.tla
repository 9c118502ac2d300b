--------------------------- MODULE CommentsProofs ---------------------------
(***************************************************************************)
(* Proofs about Comments, for every number of users, tasks, comments and   *)
(* requests.  The invariant says what a request in flight still knows of   *)
(* its comment although it holds no lock: the id of a new one is its own,  *)
(* and the author of an old one never changes.                             *)
(***************************************************************************)
EXTENDS Comments, TLAPS

\* A row belongs to a task that exists.
RowsInv == \A k \in Notes : Exists(k) => comment[k].task_id \in Tasks /\ Live(comment[k].task_id)

Adding(w) == wreq[w].op = "AddComment" /\ wpc[w] # "read_back"

\* What holds of request w at each of its statements.
WriterInv(w) ==
    /\ wpc[w] = "idle" <=> wreq[w] = NoCommentRequest
    /\ wpc[w] # "idle" => /\ wreq[w].op \in CommentOps /\ wreq[w].user \in Users
                          /\ wreq[w].task \in Tasks /\ wreq[w].note \in Notes
    /\ wpc[w] = "insert" => wreq[w].op = "AddComment"
    /\ wpc[w] = "get_comment" => wreq[w].op \in {"EditComment", "DeleteComment"}
    /\ wpc[w] = "delete" => wreq[w].op = "DeleteComment"
    /\ wpc[w] = "update" =>
         /\ wreq[w].op = "EditComment"
         /\ wseen[w].user_id = wreq[w].user /\ wseen[w].content # wreq[w].content
         /\ Exists(wreq[w].note) => comment[wreq[w].note].user_id = wseen[w].user_id
    /\ wpc[w] # "idle" /\ ~Adding(w) => comment[wreq[w].note].state # "absent"
    /\ Adding(w) => /\ comment[wreq[w].note].state = "absent"
                    /\ \A v \in Writers : wreq[v].note = wreq[w].note => v = w

CommentInv == CommentTypeOK /\ RowsInv /\ \A w \in Writers : WriterInv(w)

LEMMA NoCommentTyped ==
    /\ NoComment \in CommentRows /\ Lost \in CommentRows
    /\ NoCommentRequest \in CommentRequests
    /\ NoComment.state = "absent" /\ Lost.state = "deleted"
    /\ NoCommentRequest.op = "none" /\ NoCommentRequest.note = NoNote
<1>1. NoComment.content \in Words
  BY CommentAssumption DEF NoComment
<1> QED BY <1>1 DEF NoComment, Lost, CommentRows, NoCommentRequest, CommentRequests

LEMMA CommentInitInv == CommentInit => CommentInv
<1> SUFFICES ASSUME CommentInit PROVE CommentInv
  OBVIOUS
<1> USE NoCommentTyped, CommentAssumption
<1>1. CommentTypeOK
  BY DEF CommentInit, WorkInit, Init, CommentTypeOK, Roles, NoRole
<1>2. RowsInv
  BY DEF CommentInit, RowsInv, Exists
<1>3. \A w \in Writers : WriterInv(w)
  BY DEF CommentInit, WriterInv, Adding, Exists
<1> QED BY <1>1, <1>2, <1>3 DEF CommentInv

-----------------------------------------------------------------------------
(* The steps of a comment request.                                         *)

LEMMA RequestCommentInv ==
    ASSUME CommentInv, NEW w \in Writers, RequestComment(w), UNCHANGED workVars
    PROVE  CommentInv'
<1> USE NoCommentTyped, CommentAssumption
<1>0. CommentTypeOK /\ RowsInv /\ \A v \in Writers : WriterInv(v)
  BY DEF CommentInv
<1>1. CommentTypeOK'
  BY <1>0 DEF CommentTypeOK, CommentRows, CommentRequests, WriterInv, CommentOps, workVars,
      RequestComment
<1>2. RowsInv'
  BY <1>0 DEF CommentTypeOK, RowsInv, Exists, Live, CommentRows, WriterInv, workVars,
      RequestComment
<1>3. \A v \in Writers : WriterInv(v)'
  BY <1>0, <1>1 DEF CommentTypeOK, CommentRows, CommentRequests, CommentOps, WriterInv, Adding,
      Exists, Live, workVars, RequestComment
<1> QED BY <1>1, <1>2, <1>3 DEF CommentInv

\* What other requests do to a comment that request v names.
Gentle(k) ==
    \/ comment'[k] = comment[k]
    \/ /\ comment[k].state # "absent" /\ comment'[k].state # "absent"
       /\ Exists(k)' => Exists(k) /\ comment'[k].user_id = comment[k].user_id

\* The step of one request leaves the invariant of the others.
LEMMA OthersInv ==
    ASSUME CommentInv, NEW w \in Writers,
           \A v \in Writers \ {w} : /\ wpc'[v] = wpc[v] /\ wreq'[v] = wreq[v]
                                    /\ wseen'[v] = wseen[v],
           \A k \in Notes : Gentle(k) \/ (Adding(w) /\ k = wreq[w].note),
           wreq'[w].note \in {wreq[w].note, NoNote}
    PROVE  \A v \in Writers \ {w} : WriterInv(v)'
<1> SUFFICES ASSUME NEW v \in Writers, v # w PROVE WriterInv(v)'
  OBVIOUS
<1>0. WriterInv(v) /\ WriterInv(w)
  BY DEF CommentInv
<1>1. CASE wpc[v] = "idle"
  BY <1>0, <1>1, NoCommentTyped DEF WriterInv, Adding
<1>2. CASE wpc[v] # "idle"
  <2>1. wreq[v].note \in Notes /\ wreq[v].note # NoNote
    BY <1>0, <1>2, CommentAssumption DEF WriterInv
  <2>2. Gentle(wreq[v].note)
    BY <1>0, <2>1 DEF WriterInv
  <2>3. Adding(v) => comment'[wreq[v].note] = comment[wreq[v].note]
    BY <1>0, <2>2 DEF WriterInv, Gentle
  <2>4. Adding(v)' => Adding(v) /\ \A u \in Writers : wreq'[u].note = wreq'[v].note => u = v
    BY <1>0, <2>1 DEF WriterInv, Adding
  <2> QED BY <1>0, <1>2, <2>1, <2>2, <2>3, <2>4 DEF WriterInv, Gentle, Adding, Exists
<1> QED BY <1>1, <1>2

\* A request that answers, having changed its comment gently or not at all.
LEMMA AnswerInv ==
    ASSUME CommentInv, NEW w \in Writers, UNCHANGED <<workVars, clock>>,
           NEW a \in {"ok", "not_found", "forbidden", "error"}, AnswerComment(w, a),
           comment' \in [Notes -> CommentRows], \A k \in Notes : Gentle(k), RowsInv'
    PROVE  CommentInv'
<1> USE NoCommentTyped
<1>0. CommentTypeOK
  BY DEF CommentInv
<1>1. CommentTypeOK'
  BY <1>0 DEF CommentTypeOK, AnswerComment, Forget, workVars
<1>2. wpc'[w] = "idle" /\ wreq'[w] = NoCommentRequest
  BY <1>0 DEF CommentTypeOK, AnswerComment
<1>3. WriterInv(w)'
  BY <1>2 DEF WriterInv, Adding
<1>4. \A v \in Writers \ {w} : wpc'[v] = wpc[v] /\ wreq'[v] = wreq[v] /\ wseen'[v] = wseen[v]
  BY <1>0 DEF CommentTypeOK, AnswerComment, Forget
<1>5. \A v \in Writers \ {w} : WriterInv(v)'
  BY <1>2, <1>4, OthersInv
<1> QED BY <1>1, <1>3, <1>5 DEF CommentInv

\* A request that only answers.
LEMMA RefuseInv ==
    ASSUME CommentInv, NEW w \in Writers, UNCHANGED <<workVars, clock, comment>>,
           NEW a \in {"ok", "not_found", "forbidden", "error"}, AnswerComment(w, a)
    PROVE  CommentInv'
<1>1. comment' \in [Notes -> CommentRows] /\ RowsInv'
  BY DEF CommentInv, CommentTypeOK, RowsInv, Exists, Live, workVars
<1>2. \A k \in Notes : Gentle(k)
  BY DEF Gentle
<1> QED BY <1>1, <1>2, AnswerInv

LEMMA ReadBackInv ==
    ASSUME CommentInv, NEW w \in Writers, ReadBack(w), UNCHANGED workVars
    PROVE  CommentInv'
  BY RefuseInv DEF ReadBack

LEMMA FailCommentInv ==
    ASSUME CommentInv, NEW w \in Writers, FailComment(w), UNCHANGED workVars
    PROVE  CommentInv'
  BY RefuseInv DEF FailComment

\* A request that goes on.
LEMMA ContinueInv ==
    ASSUME CommentInv, NEW w \in Writers, UNCHANGED <<workVars, clock>>,
           NEW next \in {"get_role", "insert", "get_comment", "update", "delete", "read_back"},
           Continue(w, next),
           wrole' \in [Writers -> Roles \cup {NoRole}], wtime' \in [Writers -> Nat],
           wseen' \in [Writers -> CommentRows],
           \A v \in Writers \ {w} : wseen'[v] = wseen[v],
           comment' \in [Notes -> CommentRows], RowsInv',
           \A k \in Notes : Gentle(k) \/ (Adding(w) /\ k = wreq[w].note),
           WriterInv(w)'
    PROVE  CommentInv'
<1>0. CommentTypeOK
  BY DEF CommentInv
<1>1. CommentTypeOK'
  BY <1>0 DEF CommentTypeOK, Continue, workVars
<1>2. \A v \in Writers \ {w} : wpc'[v] = wpc[v] /\ wreq'[v] = wreq[v]
  BY <1>0 DEF CommentTypeOK, Continue
<1>3. \A v \in Writers \ {w} : WriterInv(v)'
  BY <1>2, OthersInv DEF Continue
<1> QED BY <1>1, <1>3 DEF CommentInv

LEMMA VisibleTaskInv ==
    ASSUME CommentInv, NEW w \in Writers, VisibleTask(w), UNCHANGED workVars
    PROVE  CommentInv'
<1>1. CASE AnswerComment(w, "not_found")
  BY <1>1, RefuseInv DEF VisibleTask
<1>2. CASE Continue(w, "get_role") /\ UNCHANGED <<wrole, wseen, wtime>>
  <2>0. CommentTypeOK /\ WriterInv(w) /\ RowsInv
    BY DEF CommentInv
  <2>1. WriterInv(w)'
    BY <1>2, <2>0 DEF CommentTypeOK, VisibleTask, WriterInv, Adding, Continue
  <2>2. RowsInv' /\ \A k \in Notes : Gentle(k)
    BY <2>0 DEF VisibleTask, RowsInv, Exists, Live, Gentle, workVars
  <2> QED BY <1>2, <2>0, <2>1, <2>2, ContinueInv DEF CommentTypeOK, VisibleTask
<1> QED BY <1>1, <1>2 DEF VisibleTask

LEMMA VisibleRoleInv ==
    ASSUME CommentInv, NEW w \in Writers, VisibleRole(w), UNCHANGED workVars
    PROVE  CommentInv'
<1> DEFINE next == IF wreq[w].op = "AddComment" THEN "insert" ELSE "get_comment"
<1>1. CASE AnswerComment(w, "not_found")
  BY <1>1, RefuseInv DEF VisibleRole
<1>2. CASE /\ Continue(w, next) /\ UNCHANGED wseen
           /\ wrole' = [wrole EXCEPT ![w] = IF wreq[w].op = "DeleteComment"
                                            THEN role[wreq[w].user] ELSE @]
           /\ wtime' = [wtime EXCEPT ![w] = IF wreq[w].op = "AddComment" THEN clock ELSE @]
  <2>0. CommentTypeOK /\ WriterInv(w) /\ RowsInv
    BY DEF CommentInv
  <2>1. WriterInv(w)'
    BY <1>2, <2>0 DEF CommentTypeOK, CommentOps, VisibleRole, WriterInv, Adding, Continue
  <2>2. RowsInv' /\ \A k \in Notes : Gentle(k)
    BY <2>0 DEF VisibleRole, RowsInv, Exists, Live, Gentle, workVars
  <2>3. wrole' \in [Writers -> Roles \cup {NoRole}] /\ wtime' \in [Writers -> Nat]
    BY <1>2, <2>0 DEF CommentTypeOK, WriterInv, VisibleRole
  <2> QED BY <1>2, <2>0, <2>1, <2>2, <2>3, ContinueInv DEF CommentTypeOK, VisibleRole
<1> QED BY <1>1, <1>2 DEF VisibleRole

LEMMA AddCommentInv ==
    ASSUME CommentInv, NEW w \in Writers, AddComment(w), UNCHANGED workVars
    PROVE  CommentInv'
<1> DEFINE k   == wreq[w].note
           row == [state |-> "live", task_id |-> wreq[w].task, user_id |-> wreq[w].user,
                   content |-> wreq[w].content,
                   created_at |-> wtime[w], updated_at |-> wtime[w]]
<1>1. CASE AnswerComment(w, "not_found") /\ UNCHANGED comment
  BY <1>1, RefuseInv DEF AddComment
<1>2. CASE /\ ForeignKey(wreq[w].task) /\ comment' = [comment EXCEPT ![k] = row]
           /\ Continue(w, "read_back") /\ Forget(w)
  <2>0. CommentTypeOK /\ WriterInv(w) /\ RowsInv
    BY DEF CommentInv
  <2>1. /\ wpc[w] = "insert" /\ wreq[w].op = "AddComment" /\ Adding(w)
        /\ k \in Notes /\ wreq[w].task \in Tasks /\ wreq[w].user \in Users
    BY <2>0 DEF AddComment, WriterInv, Adding
  <2>2. row \in CommentRows
    BY <2>0, <2>1 DEF CommentTypeOK, CommentRows, CommentRequests
  <2> HIDE DEF row
  <2>3. comment' \in [Notes -> CommentRows] /\ comment'[k] = row
        /\ \A j \in Notes \ {k} : comment'[j] = comment[j]
    BY <1>2, <2>0, <2>1, <2>2 DEF CommentTypeOK
  <2>4. row.state = "live" /\ row.task_id = wreq[w].task
    BY DEF row
  <2>5. RowsInv'
    BY <1>2, <2>0, <2>1, <2>3, <2>4 DEF RowsInv, Exists, Live, ForeignKey, workVars
  <2>6. WriterInv(w)'
    BY <1>2, <2>0, <2>1, <2>3, <2>4 DEF CommentTypeOK, WriterInv, Adding, Continue
  <2>7. \A j \in Notes : Gentle(j) \/ (Adding(w) /\ j = wreq[w].note)
    BY <2>1, <2>3 DEF Gentle
  <2>8. /\ wrole' \in [Writers -> Roles \cup {NoRole}] /\ wtime' \in [Writers -> Nat]
        /\ wseen' \in [Writers -> CommentRows]
        /\ \A v \in Writers \ {w} : wseen'[v] = wseen[v]
    BY <1>2, <2>0, NoCommentTyped DEF CommentTypeOK, Forget
  <2> QED BY <1>2, <2>3, <2>5, <2>6, <2>7, <2>8, ContinueInv DEF AddComment
<1> QED BY <1>1, <1>2 DEF AddComment

LEMMA GetCommentInv ==
    ASSUME CommentInv, NEW w \in Writers, GetComment(w), UNCHANGED workVars
    PROVE  CommentInv'
<1> DEFINE row   == comment[wreq[w].note]
           edits == wreq[w].op = "EditComment"
           next  == IF edits THEN "update" ELSE "delete"
<1>1. ASSUME NEW a \in {"ok", "not_found", "forbidden", "error"}, AnswerComment(w, a)
      PROVE  CommentInv'
  BY <1>1, RefuseInv DEF GetComment
<1>2. CASE /\ row.state = "live"
           /\ edits => CanEditComment(wreq[w].user, row) /\ ~Unchanged(row, wreq[w].content)
           /\ wseen' = [wseen EXCEPT ![w] = row]
           /\ wtime' = [wtime EXCEPT ![w] = IF edits THEN clock ELSE @]
           /\ Continue(w, next) /\ UNCHANGED wrole
  <2>0. CommentTypeOK /\ WriterInv(w) /\ RowsInv
    BY DEF CommentInv
  <2>1. wpc[w] = "get_comment" /\ wreq[w].note \in Notes
        /\ wreq[w].op \in {"EditComment", "DeleteComment"}
    BY <2>0 DEF GetComment, WriterInv
  <2>2. wseen'[w] = row
    BY <1>2, <2>0 DEF CommentTypeOK
  <2>3. wreq'[w] = wreq[w] /\ wpc'[w] = next /\ comment' = comment
    BY <1>2, <2>0 DEF CommentTypeOK, Continue, GetComment
  <2>4. WriterInv(w)'
    BY <1>2, <2>0, <2>1, <2>2, <2>3 DEF WriterInv, Adding, Exists, CanEditComment, Unchanged
  <2>5. RowsInv' /\ \A k \in Notes : Gentle(k)
    BY <2>0 DEF GetComment, RowsInv, Exists, Live, Gentle, workVars
  <2>6. wseen' \in [Writers -> CommentRows] /\ wtime' \in [Writers -> Nat]
        /\ \A v \in Writers \ {w} : wseen'[v] = wseen[v]
    BY <1>2, <2>0, <2>1 DEF CommentTypeOK
  <2> QED BY <1>2, <2>0, <2>4, <2>5, <2>6, ContinueInv DEF CommentTypeOK, GetComment
<1> QED BY <1>1, <1>2 DEF GetComment

LEMMA UpdateCommentInv ==
    ASSUME CommentInv, NEW w \in Writers, UpdateComment(w), UNCHANGED workVars
    PROVE  CommentInv'
<1> DEFINE k   == wreq[w].note
           row == [comment[k] EXCEPT !.content = wreq[w].content, !.updated_at = wtime[w]]
<1>1. CASE AnswerComment(w, "not_found") /\ UNCHANGED comment
  BY <1>1, RefuseInv DEF UpdateComment
<1>2. CASE /\ Exists(k) /\ comment' = [comment EXCEPT ![k] = row]
           /\ Continue(w, "read_back") /\ Forget(w)
  <2>0. CommentTypeOK /\ WriterInv(w) /\ RowsInv
    BY DEF CommentInv
  <2>1. wpc[w] = "update" /\ wreq[w].op = "EditComment" /\ k \in Notes
    BY <2>0 DEF UpdateComment, WriterInv
  <2>2. row \in CommentRows /\ row.state = "live" /\ row.task_id = comment[k].task_id
        /\ row.user_id = comment[k].user_id
    <3>1. comment[k] \in CommentRows /\ wtime[w] \in Nat /\ wreq[w].content \in Words
      BY <2>0, <2>1 DEF CommentTypeOK, CommentRequests
    <3>2. comment[k].state = "live"
      BY <1>2 DEF Exists
    <3> QED BY <3>1, <3>2 DEF CommentRows
  <2> HIDE DEF row
  <2>3. comment' \in [Notes -> CommentRows] /\ comment'[k] = row
        /\ \A j \in Notes \ {k} : comment'[j] = comment[j]
    BY <1>2, <2>0, <2>1, <2>2 DEF CommentTypeOK
  <2>5. RowsInv'
    BY <1>2, <2>0, <2>1, <2>2, <2>3 DEF RowsInv, Exists, Live, workVars
  <2>6. WriterInv(w)'
    <3>1. wpc'[w] = "read_back" /\ wreq'[w] = wreq[w]
      BY <1>2, <2>0 DEF CommentTypeOK, Continue
    <3>2. ~Adding(w)' /\ wreq[w] # NoCommentRequest
      BY <2>1, <3>1, NoCommentTyped DEF Adding
    <3> QED BY <2>0, <2>1, <2>2, <2>3, <3>1, <3>2 DEF WriterInv, Adding
  <2>7. \A j \in Notes : Gentle(j)
    BY <1>2, <2>1, <2>2, <2>3 DEF Gentle, Exists
  <2>8. /\ wrole' \in [Writers -> Roles \cup {NoRole}] /\ wtime' \in [Writers -> Nat]
        /\ wseen' \in [Writers -> CommentRows]
        /\ \A v \in Writers \ {w} : wseen'[v] = wseen[v]
    BY <1>2, <2>0, NoCommentTyped DEF CommentTypeOK, Forget
  <2> QED BY <1>2, <2>3, <2>5, <2>6, <2>7, <2>8, ContinueInv DEF RequireAffected, UpdateComment
<1> QED BY <1>1, <1>2 DEF RequireAffected, UpdateComment

LEMMA DeleteCommentInv ==
    ASSUME CommentInv, NEW w \in Writers, DeleteComment(w), UNCHANGED workVars
    PROVE  CommentInv'
<1> DEFINE k == wreq[w].note
<1>1. CASE AnswerComment(w, "not_found") /\ UNCHANGED comment
  BY <1>1, RefuseInv DEF DeleteComment
<1>2. CASE Exists(k) /\ comment' = [comment EXCEPT ![k] = Lost] /\ AnswerComment(w, "ok")
  <2>0. CommentTypeOK /\ WriterInv(w) /\ RowsInv
    BY DEF CommentInv
  <2>1. k \in Notes
    BY <2>0 DEF DeleteComment, WriterInv
  <2>2. comment' \in [Notes -> CommentRows] /\ comment'[k] = Lost
        /\ \A j \in Notes \ {k} : comment'[j] = comment[j]
    BY <1>2, <2>0, <2>1, NoCommentTyped DEF CommentTypeOK
  <2>3. RowsInv'
    BY <2>0, <2>1, <2>2, NoCommentTyped DEF RowsInv, Exists, Live, workVars
  <2>4. \A j \in Notes : Gentle(j)
    BY <1>2, <2>1, <2>2, NoCommentTyped DEF Gentle, Exists
  <2> QED BY <1>2, <2>2, <2>3, <2>4, AnswerInv DEF RequireAffected, DeleteComment
<1> QED BY <1>1, <1>2 DEF RequireAffected, DeleteComment

LEMMA TickInv ==
    ASSUME CommentInv, Tick, UNCHANGED workVars
    PROVE  CommentInv'
  BY DEF CommentInv, CommentTypeOK, RowsInv, WriterInv, Adding, Exists, Live, Tick, workVars, writerVars

-----------------------------------------------------------------------------
(* The steps of the team and of its tasks.                                 *)

\* A cascade removes comments and changes none.
LEMMA CascadeInv ==
    ASSUME CommentInv, CommentTypeOK', Cascade, UNCHANGED <<clock, writerVars>>
    PROVE  CommentInv'
<1> USE NoCommentTyped
<1>1. RowsInv'
  BY DEF CommentInv, RowsInv, CommentTypeOK, Cascade, Exists, Live
<1>2. \A w \in Writers : WriterInv(w)'
  BY DEF CommentInv, CommentTypeOK, Cascade, WriterInv, Adding, Exists, writerVars
<1> QED BY <1>1, <1>2 DEF CommentInv

LEMMA CascadeTyped ==
    ASSUME CommentTypeOK, Cascade
    PROVE  comment' \in [Notes -> CommentRows]
  BY NoCommentTyped DEF CommentTypeOK, Cascade

LEMMA TeamTyped ==
    ASSUME CommentTypeOK, Next
    PROVE  team' \in {"absent", "live", "deleted"} /\ role' \in [Users -> Roles \cup {NoRole}]
  BY DEF CommentTypeOK, Next, Found, Join, Regrade, HandOver, Depart, Dissolve,
      Roles, NoRole, GrantableRoles

LEMMA WorkStepInv ==
    ASSUME CommentInv, WorkStep, UNCHANGED <<clock, writerVars>>
    PROVE  CommentInv'
<1>1. CommentTypeOK /\ comment' \in [Notes -> CommentRows]
  BY CascadeTyped DEF CommentInv, WorkStep
<1>2. CommentTypeOK'
  <2>1. CASE ChangeTeam
    BY <1>1, <2>1, TeamTyped DEF ChangeTeam, CommentTypeOK, writerVars
  <2>2. CASE \E t \in Tasks : CreateTask(t) \/ DeleteTask(t)
    BY <1>1, <2>2 DEF CreateTask, DeleteTask, CommentTypeOK, writerVars
  <2> QED BY <2>1, <2>2 DEF WorkStep, WorkNext
<1> QED BY <1>2, CascadeInv DEF WorkStep

-----------------------------------------------------------------------------
LEMMA CommentNextInv == CommentInv /\ [CommentNext]_commentVars => CommentInv'
<1> SUFFICES ASSUME CommentInv, [CommentNext]_commentVars PROVE CommentInv'
  OBVIOUS
<1>1. CASE WorkStep /\ UNCHANGED <<clock, writerVars>>
  BY <1>1, WorkStepInv
<1>2. CASE Tick /\ UNCHANGED workVars
  BY <1>2, TickInv
<1>3. ASSUME NEW w \in Writers, CommentStep(w), UNCHANGED workVars
      PROVE  CommentInv'
  BY <1>3, RequestCommentInv, VisibleTaskInv, VisibleRoleInv, AddCommentInv, GetCommentInv,
     UpdateCommentInv, DeleteCommentInv, ReadBackInv, FailCommentInv DEF CommentStep
<1>4. CASE UNCHANGED commentVars
  BY <1>4 DEF CommentInv, CommentTypeOK, RowsInv, WriterInv, Adding, Exists, Live,
      commentVars, workVars, writerVars
<1> QED BY <1>1, <1>2, <1>3, <1>4 DEF CommentNext

\* What every request knows of its comment holds at every statement.
THEOREM CommentInvariant == CommentSpec => []CommentInv
  BY CommentInitInv, CommentNextInv, PTL DEF CommentSpec

\* However many requests add comments while their tasks and their team are
\* deleted, no comment is left without a task.
THEOREM CommentsHaveTasks == CommentSpec => []NoOrphans
<1>1. CommentInv => NoOrphans
  BY DEF CommentInv, RowsInv, NoOrphans
<1> QED BY <1>1, CommentInvariant, PTL

\* The words of a comment change only in a request of its author, although
\* the author is checked statements before the UPDATE, and a deleted comment
\* stays deleted.
THEOREM AuthorsOnly == CommentSpec => WordsAreTheAuthors
<1>1. CommentInv /\ [CommentNext]_commentVars =>
        [\A k \in Notes :
          /\ comment[k].state = "deleted" => comment'[k] = comment[k]
          /\ Exists(k) /\ comment'[k].state = "live" /\ comment'[k].content # comment[k].content =>
               \E w \in Writers : /\ wpc[w] = "update" /\ wpc'[w] # "update"
                                  /\ wreq[w].note = k
                                  /\ wreq[w].user = comment[k].user_id]_commentVars
  <2> SUFFICES ASSUME CommentInv, CommentNext, NEW k \in Notes
               PROVE  /\ comment[k].state = "deleted" => comment'[k] = comment[k]
                      /\ Exists(k) /\ comment'[k].state = "live"
                           /\ comment'[k].content # comment[k].content =>
                           \E w \in Writers : /\ wpc[w] = "update" /\ wpc'[w] # "update"
                                              /\ wreq[w].note = k
                                              /\ wreq[w].user = comment[k].user_id
    OBVIOUS
  <2> USE NoCommentTyped
  <2>0. CommentTypeOK /\ \A v \in Writers : WriterInv(v)
    BY DEF CommentInv
  <2>1. CASE WorkStep
    BY <2>0, <2>1 DEF CommentTypeOK, WorkStep, Cascade, Exists
  <2>2. CASE Tick
    BY <2>2 DEF Tick
  <2>3. ASSUME NEW w \in Writers, CommentStep(w), comment' # comment
        PROVE  AddComment(w) \/ UpdateComment(w) \/ DeleteComment(w)
    BY <2>3 DEF CommentStep, RequestComment, VisibleTask, VisibleRole, GetComment, ReadBack, FailComment
  <2>4. ASSUME NEW w \in Writers, AddComment(w)
        PROVE  comment[k].state # "absent" => comment'[k] = comment[k]
    BY <2>0, <2>4 DEF CommentTypeOK, AddComment, WriterInv, Adding
  <2>5. ASSUME NEW w \in Writers, DeleteComment(w)
        PROVE  comment'[k] = comment[k] \/ (Exists(k) /\ comment'[k].state = "deleted")
    BY <2>0, <2>5 DEF CommentTypeOK, RequireAffected, DeleteComment, Exists
  <2>6. ASSUME NEW w \in Writers, UpdateComment(w)
        PROVE  comment'[k] = comment[k] \/
                 (/\ Exists(k) /\ wpc[w] = "update" /\ wpc'[w] # "update"
                  /\ wreq[w].note = k /\ wreq[w].user = comment[k].user_id)
    BY <2>0, <2>6 DEF CommentTypeOK, RequireAffected, UpdateComment, WriterInv, Exists, AnswerComment, Continue
  <2> QED BY <2>1, <2>2, <2>3, <2>4, <2>5, <2>6 DEF CommentNext, Exists
<1> QED BY <1>1, CommentInvariant, PTL DEF CommentSpec, WordsAreTheAuthors

\* An answer "not found" after the comment was found means that it is gone
\* or was edited by somebody else meanwhile.
THEOREM NotFoundIsTrue == CommentSpec => NotFoundMeansGone
<1>1. CommentInv /\ [CommentNext]_commentVars =>
        [\A w \in Writers :
          /\ wpc[w] \in {"update", "delete", "read_back"}
          /\ wpc'[w] = "idle" /\ reply' = "not_found"
          =>
             \/ ~Exists(wreq[w].note)
             \/ wpc[w] = "update" /\ comment[wreq[w].note] # wseen[w]]_commentVars
  <2> SUFFICES ASSUME CommentInv, CommentNext, NEW w \in Writers,
                      wpc[w] \in {"update", "delete", "read_back"},
                      wpc'[w] = "idle", reply' = "not_found"
               PROVE  \/ ~Exists(wreq[w].note)
                      \/ wpc[w] = "update" /\ comment[wreq[w].note] # wseen[w]
    OBVIOUS
  <2>0. CommentTypeOK /\ WriterInv(w)
    BY DEF CommentInv
  <2>1. wpc' # wpc
    OBVIOUS
  <2>2. PICK v \in Writers : CommentStep(v)
    BY <2>1 DEF CommentNext, Tick, writerVars
  <2>3. v = w
    BY <2>0, <2>2 DEF CommentTypeOK, CommentStep, RequestComment, VisibleTask, VisibleRole,
        AddComment, GetComment, UpdateComment, DeleteComment, ReadBack, FailComment,
        AnswerComment, Continue
  <2>4. UpdateComment(w) \/ DeleteComment(w) \/ ReadBack(w)
    BY <2>2, <2>3 DEF CommentStep, RequestComment, VisibleTask, VisibleRole, AddComment,
        GetComment, FailComment, AnswerComment
  <2>5. CASE UpdateComment(w)
    <3> DEFINE k   == wreq[w].note
               row == [comment[k] EXCEPT !.content = wreq[w].content, !.updated_at = wtime[w]]
    <3>1. wpc[w] = "update" /\ k \in Notes /\ wseen[w].content # wreq[w].content
      BY <2>0, <2>5 DEF RequireAffected, UpdateComment, WriterInv
    <3>2. ~Exists(k) \/ row = comment[k]
      BY <2>5 DEF RequireAffected, UpdateComment, Continue
    <3>3. row.content = wreq[w].content
      BY <2>0, <3>1 DEF CommentTypeOK, CommentRows
    <3> QED BY <3>1, <3>2, <3>3
  <2>6. CASE DeleteComment(w)
    BY <2>6 DEF RequireAffected, DeleteComment, AnswerComment, Exists, Lost, NoComment
  <2>7. CASE ReadBack(w)
    BY <2>7 DEF ReadBack, AnswerComment
  <2> QED BY <2>4, <2>5, <2>6, <2>7
<1> QED BY <1>1, CommentInvariant, PTL DEF CommentSpec, NotFoundMeansGone
=============================================================================
