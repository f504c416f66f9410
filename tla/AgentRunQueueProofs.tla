------------------------ MODULE AgentRunQueueProofs ------------------------
(* Safety of the agent-run queue for any keys, tickets and sessions.       *)
EXTENDS AgentRunQueue, TLAPS

\* A step that leaves session t where it was.
SameSession(t) ==
    /\ mode'[t] = mode[t] /\ pc'[t] = pc[t] /\ cur'[t] = cur[t]
    /\ local'[t] = local[t] /\ holds'[t] = holds[t] /\ out'[t] = out[t]
    /\ drops'[t] = drops[t]

\* What QueueInv says of one session.
SessionInv(t) ==
    SessionShape(t) /\ (mode[t] # "drop" => \A k \in holds[t] : HeldRow(t, k))

\* What QueueInv says of the committed rows.
CommittedInv == AtMostOnce /\ RowsTellTheTruth /\ \A k \in Keys : SettledRow(k)

\* QueueInv taken apart, and put together again after a step.
LEMMA QueueInvParts ==
    QueueInv <=> TypeOK /\ LocksExclusive /\ CommittedInv /\ \A t \in Sessions : SessionInv(t)
BY DEF QueueInv, CommittedInv, SessionInv

LEMMA QueueInvNext ==
    ASSUME TypeOK', LocksExclusive', CommittedInv', \A t \in Sessions : SessionInv(t)'
    PROVE  QueueInv'
BY DEF QueueInv, CommittedInv, SessionInv

\* A step that commits nothing keeps what is said of the committed rows.
LEMMA CommittedFrame ==
    ASSUME CommittedInv, UNCHANGED db
    PROVE  CommittedInv'
BY DEF db, CommittedInv, AtMostOnce, RowsTellTheTruth, SettledRow, Had

\* A step that commits nothing and leaves t alone keeps what is said of t.
LEMMA SessionFrame ==
    ASSUME NEW t \in Sessions, SessionInv(t), UNCHANGED db, SameSession(t)
    PROVE  SessionInv(t)'
BY DEF db, SessionInv, SameSession, SessionShape, HeldRow, RowsOf

\* It also keeps what t shares.
LEMMA SharesFrame ==
    ASSUME NEW t \in Sessions, NEW tk \in Tickets, UNCHANGED db, SameSession(t)
    PROVE  Shares(t, tk)' = Shares(t, tk)
BY DEF db, SameSession, Shares

\* The locks stay exclusive when a session takes none and shares nothing new.
LEMMA LocksFrame ==
    ASSUME NEW s \in Sessions, TypeOK, LocksExclusive, UNCHANGED db,
           \A t \in Sessions \ {s} : SameSession(t),
           holds'[s] = holds[s], drops'[s] = drops[s],
           \A tk \in Tickets : Shares(s, tk)' => Shares(s, tk)
    PROVE  LocksExclusive'
<1>1. \A t \in Sessions : holds'[t] = holds[t] /\ drops'[t] = drops[t] /\ drops[t] \in SUBSET Tickets
  BY DEF SameSession, TypeOK
<1>2. \A t \in Sessions, tk \in Tickets : Shares(t, tk)' => Shares(t, tk)
  BY SharesFrame
<1>3. QED
  BY <1>1, <1>2 DEF LocksExclusive

\* A step of s that commits nothing, put together.
LEMMA LocalStep ==
    ASSUME NEW s \in Sessions, QueueInv, UNCHANGED db,
           \A t \in Sessions \ {s} : SameSession(t),
           TypeOK', LocksExclusive', SessionInv(s)'
    PROVE  QueueInv'
<1>1. \A t \in Sessions : SessionInv(t)'
  BY SessionFrame, QueueInvParts
<1>2. CommittedInv'
  BY CommittedFrame, QueueInvParts
<1>3. QED
  BY <1>1, <1>2, QueueInvNext

\* A held row that the session has finished with stays as good as it was.
Quiet == {"open", "insert", "scan", "end"}

LEMMA HeldRowFrame ==
    ASSUME NEW s \in Sessions, NEW j \in Keys, HeldRow(s, j), UNCHANGED db,
           j # cur[s] \/ pc[s] \in Quiet \cup {"finish"},
           local'[s][j] = local[s][j], out'[s][j] = out[s][j],
           j # cur'[s] \/ pc'[s] \in Quiet \cup {"aborted"}
    PROVE  HeldRow(s, j)'
BY DEF HeldRow, db, Quiet, SideEffects

\* The initial state.
LEMMA InitQueueInv == Init => QueueInv
<1>1. SUFFICES ASSUME Init PROVE QueueInv
  OBVIOUS
<1>2. TypeOK
  BY <1>1, QueueAssumption DEF Init, TypeOK, Row, NoRow, NoRows, NoEffects, Statuses, AllModes, PCs, Effects
<1>3. LocksExclusive
  BY <1>1 DEF Init, LocksExclusive
<1>4. CommittedInv
  BY <1>1, QueueAssumption DEF Init, CommittedInv, AtMostOnce, RowsTellTheTruth, SettledRow, Had, NoRows, NoRow
<1>5. \A t \in Sessions : SessionInv(t)
  BY <1>1 DEF Init, SessionInv, SessionShape, SideEffects, NoEffects
<1>6. QED
  BY <1>2, <1>3, <1>4, <1>5, QueueInvParts
\* Opening a transaction.
LEMMA BeginInv ==
    ASSUME NEW s \in Sessions, NEW m \in Modes[s], QueueInv, Begin(s, m)
    PROVE  QueueInv'
<1>1. TypeOK /\ LocksExclusive /\ CommittedInv /\ \A t \in Sessions : SessionInv(t)
  BY QueueInvParts
<1>2. UNCHANGED db /\ \A t \in Sessions \ {s} : SameSession(t)
  BY <1>1 DEF Begin, SameSession, TypeOK, work
<1>3. TypeOK'
  BY <1>1, QueueAssumption DEF Begin, TypeOK, db, work, PCs
<1>4. LocksExclusive'
  BY <1>1, <1>2, LocksFrame DEF Begin, TypeOK, db, work, Shares
<1>5. SessionInv(s)'
  BY <1>1 DEF Begin, TypeOK, db, work, SessionInv, SessionShape, NoRows, NoEffects, SideEffects, RowsOf
<1>6. QED
  BY <1>2, <1>3, <1>4, <1>5, LocalStep

\* The lookup before an insert.
LEMMA EnqueueLookupInv ==
    ASSUME NEW s \in Sessions, NEW k \in Keys, QueueInv, EnqueueLookup(s, k)
    PROVE  QueueInv'
<1>1. TypeOK /\ LocksExclusive /\ CommittedInv /\ \A t \in Sessions : SessionInv(t)
  BY QueueInvParts
<1>2. UNCHANGED db /\ \A t \in Sessions \ {s} : SameSession(t)
  BY <1>1 DEF EnqueueLookup, SameSession, TypeOK, work
<1>3. TypeOK'
  BY <1>1 DEF EnqueueLookup, TypeOK, db, work, PCs
<1>4. LocksExclusive'
  BY <1>1, <1>2, LocksFrame, ZenonT(60) DEF EnqueueLookup, TypeOK, db, work, Shares
<1>5. SessionShape(s)'
  BY <1>1 DEF EnqueueLookup, TypeOK, db, work, SessionInv, SessionShape, HeldRow, Visible, NoEffects, SideEffects, RowsOf
<1>6. ASSUME NEW j \in holds[s]
      PROVE  HeldRow(s, j)'
  <2>1. j \in Keys /\ HeldRow(s, j)
    BY <1>1 DEF SessionInv, EnqueueLookup, TypeOK
  <2>2. pc[s] = "open" /\ pc'[s] = "insert" /\ local' = local /\ out' = out
    BY <1>1 DEF EnqueueLookup, TypeOK, work
  <2>3. QED
    BY <1>2, <2>1, <2>2, HeldRowFrame DEF Quiet
<1>7. SessionInv(s)'
  BY <1>5, <1>6 DEF SessionInv, EnqueueLookup, work
<1>8. QED
  BY <1>2, <1>3, <1>4, <1>7, LocalStep

\* The insert takes the key and a share of its ticket.
LEMMA EnqueueInsertInv ==
    ASSUME NEW s \in Sessions, QueueInv, EnqueueInsert(s)
    PROVE  QueueInv'
<1> DEFINE k == cur[s]
<1>1. TypeOK /\ LocksExclusive /\ CommittedInv /\ \A t \in Sessions : SessionInv(t)
  BY QueueInvParts
<1>2. UNCHANGED db /\ \A t \in Sessions \ {s} : SameSession(t)
  BY <1>1 DEF EnqueueInsert, SameSession, TypeOK, work
<1>3. k \in Keys /\ mode[s] # "drop" /\ drops[s] = {}
  BY <1>1 DEF EnqueueInsert, SessionInv, SessionShape
<1>4. TypeOK'
  BY <1>1, <1>3 DEF EnqueueInsert, TypeOK, db, work, PCs, Row, Statuses, Existing
<1>5. LocksExclusive'
  <2>1. /\ holds' = [holds EXCEPT ![s] = @ \cup {k}]
        /\ drops' = drops /\ rows' = rows /\ out' = out
        /\ ~HeldByOther(s, k) /\ ~DroppedByOther(s, TicketOf[k])
    BY DEF EnqueueInsert, InsertMayRun, db
  <2>2. \A t, u \in Sessions : t # u => holds'[t] \cap holds'[u] = {}
    BY <1>1, <2>1 DEF LocksExclusive, HeldByOther, TypeOK
  <2>3. \A t \in Sessions, tk \in Tickets : Shares(t, tk)' =>
          Shares(t, tk) \/ (t = s /\ tk = TicketOf[k])
    BY <1>1, <2>1 DEF Shares, TypeOK
  <2>4. ASSUME NEW t \in Sessions, NEW u \in Sessions, t # u, NEW tk \in drops[t]
        PROVE  ~Shares(u, tk)'
    <3>1. tk \in Tickets /\ ~Shares(u, tk)
      BY <1>1, <2>4 DEF LocksExclusive, TypeOK
    <3>2. u = s => tk # TicketOf[k]
      BY <2>1, <2>4 DEF DroppedByOther
    <3>3. QED
      BY <2>3, <3>1, <3>2
  <2>5. QED
    BY <1>1, <2>1, <2>2, <2>4 DEF LocksExclusive
<1>6. SessionShape(s)'
  BY <1>1, <1>3 DEF EnqueueInsert, TypeOK, db, work, SessionInv, SessionShape, NoEffects, SideEffects, RowsOf
<1>7. ASSUME NEW j \in holds'[s]
      PROVE  HeldRow(s, j)'
  <2>1. pc[s] = "insert" /\ pc'[s] = "open" /\ out' = out /\ k \notin holds[s]
    BY <1>1 DEF EnqueueInsert, TypeOK, SessionInv, SessionShape
  <2>2. CASE j = k
    BY <1>1, <1>2, <1>3, <2>1, <2>2
    DEF EnqueueInsert, KeyTaken, TypeOK, db, SessionInv, SessionShape, HeldRow, SideEffects
  <2>3. CASE j # k
    <3>1. j \in Keys /\ HeldRow(s, j)
      BY <1>1, <1>3, <2>3 DEF SessionInv, EnqueueInsert, TypeOK
    <3>2. local'[s][j] = local[s][j]
      BY <1>1, <1>3, <2>3 DEF EnqueueInsert, TypeOK
    <3>3. QED
      BY <1>2, <2>1, <3>1, <3>2, HeldRowFrame DEF Quiet
  <2>4. QED
    BY <2>2, <2>3
<1>8. SessionInv(s)'
  BY <1>6, <1>7 DEF SessionInv
<1>9. QED
  BY <1>2, <1>4, <1>5, <1>8, LocalStep

\* A step that only moves pc, cur and scan of a session that is not holding a
\* row in its hands, among the quiet steps or into an aborted transaction.
LEMMA QuietStep ==
    ASSUME NEW s \in Sessions, QueueInv, UNCHANGED <<db, ahead, mode, work, faults>>,
           \A t \in Sessions \ {s} : pc'[t] = pc[t] /\ cur'[t] = cur[t],
           pc[s] \in Quiet \cup {"finish"}, pc'[s] \in {"open", "scan", "end", "aborted"},
           mode[s] # "drop", TypeOK'
    PROVE  QueueInv'
<1>1. TypeOK /\ LocksExclusive /\ CommittedInv /\ \A t \in Sessions : SessionInv(t)
  BY QueueInvParts
<1>2. UNCHANGED db /\ \A t \in Sessions \ {s} : SameSession(t)
  BY DEF SameSession, work
<1>3. LocksExclusive'
  BY <1>1, <1>2, LocksFrame DEF work, db, Shares
<1>4. SessionShape(s)'
  BY <1>1 DEF db, work, SessionInv, SessionShape, SideEffects, RowsOf, NoEffects
<1>5. ASSUME NEW j \in holds'[s]
      PROVE  HeldRow(s, j)'
  <2>1. j \in Keys /\ HeldRow(s, j) /\ local' = local /\ out' = out
    BY <1>1 DEF SessionInv, TypeOK, work
  <2>2. QED
    BY <1>2, <2>1, HeldRowFrame DEF Quiet
<1>6. SessionInv(s)'
  BY <1>4, <1>5 DEF SessionInv
<1>7. QED
  BY <1>2, <1>3, <1>6, LocalStep

\* The insert that is refused.
LEMMA EnqueueRejectedInv ==
    ASSUME NEW s \in Sessions, QueueInv, EnqueueRejected(s)
    PROVE  QueueInv'
<1>1. TypeOK /\ SessionInv(s)
  BY QueueInvParts
<1>2. TypeOK' /\ pc'[s] = "aborted" /\ pc[s] = "insert" /\ mode[s] # "drop"
  BY <1>1 DEF EnqueueRejected, TypeOK, db, work, PCs, SessionInv, SessionShape
<1>3. \A t \in Sessions \ {s} : pc'[t] = pc[t] /\ cur'[t] = cur[t]
  BY <1>1 DEF EnqueueRejected, TypeOK
<1>4. QED
  BY <1>2, <1>3, QuietStep DEF EnqueueRejected, Quiet, db, work

\* The claiming SELECT: its snapshot, a skipped candidate, an empty result.
LEMMA ProcessScanInv ==
    ASSUME NEW s \in Sessions, QueueInv, ProcessScan(s)
    PROVE  QueueInv'
<1>1. TypeOK /\ SessionInv(s)
  BY QueueInvParts
<1>2. TypeOK' /\ pc'[s] = "scan" /\ pc[s] = "open" /\ mode[s] # "drop"
  BY <1>1 DEF ProcessScan, TypeOK, db, work, PCs
<1>3. \A t \in Sessions \ {s} : pc'[t] = pc[t] /\ cur'[t] = cur[t]
  BY <1>1 DEF ProcessScan, TypeOK
<1>4. QED
  BY <1>2, <1>3, QuietStep DEF ProcessScan, Quiet, db, work

LEMMA ScanSkipInv ==
    ASSUME NEW s \in Sessions, NEW k \in Keys, QueueInv, ScanSkip(s, k)
    PROVE  QueueInv'
<1>1. TypeOK /\ SessionInv(s)
  BY QueueInvParts
<1>2. TypeOK' /\ pc'[s] = "scan" /\ pc[s] = "scan" /\ mode[s] # "drop"
  BY <1>1 DEF ScanSkip, TypeOK, db, work, PCs, SessionInv, SessionShape
<1>3. \A t \in Sessions \ {s} : pc'[t] = pc[t] /\ cur'[t] = cur[t]
  BY <1>1 DEF ScanSkip, TypeOK
<1>4. QED
  BY <1>2, <1>3, QuietStep DEF ScanSkip, Quiet, db, work

LEMMA ScanEmptyInv ==
    ASSUME NEW s \in Sessions, QueueInv, ScanEmpty(s)
    PROVE  QueueInv'
<1>1. TypeOK /\ SessionInv(s)
  BY QueueInvParts
<1>2. TypeOK' /\ pc'[s] = "end" /\ pc[s] = "scan" /\ mode[s] # "drop"
  BY <1>1 DEF ScanEmpty, TypeOK, db, work, PCs, SessionInv, SessionShape
<1>3. \A t \in Sessions \ {s} : pc'[t] = pc[t] /\ cur'[t] = cur[t]
  BY <1>1 DEF ScanEmpty, TypeOK
<1>4. QED
  BY <1>2, <1>3, QuietStep DEF ScanEmpty, Quiet, db, work

\* The last flush of process_one.
LEMMA FinishInv ==
    ASSUME NEW s \in Sessions, QueueInv, Finish(s)
    PROVE  QueueInv'
<1>1. TypeOK /\ SessionInv(s)
  BY QueueInvParts
<1>2. TypeOK' /\ pc'[s] \in {"open", "end"} /\ pc[s] = "finish" /\ mode[s] # "drop"
  BY <1>1 DEF Finish, TypeOK, db, work, PCs, SessionInv, SessionShape
<1>3. \A t \in Sessions \ {s} : pc'[t] = pc[t] /\ cur'[t] = cur[t]
  BY <1>1 DEF Finish, TypeOK
<1>4. QED
  BY <1>2, <1>3, QuietStep DEF Finish, Quiet, db, work

\* The claim: a pending row changes from nobody's hands, or from the session's
\* own inserts, into the session's hands.
LEMMA ClaimInv ==
    ASSUME NEW s \in Sessions, NEW k \in Keys, QueueInv, Claim(s, k)
    PROVE  QueueInv'
<1>1. TypeOK /\ LocksExclusive /\ CommittedInv /\ \A t \in Sessions : SessionInv(t)
  BY QueueInvParts
<1>2. UNCHANGED db /\ \A t \in Sessions \ {s} : SameSession(t)
  BY <1>1 DEF Claim, SameSession, TypeOK
<1>3. /\ mode[s] # "drop" /\ mode'[s] # "drop" /\ drops[s] = {}
      /\ pc[s] = "scan" /\ pc'[s] = "provider" /\ cur'[s] = k
      /\ out' = out /\ drops' = drops /\ rows' = rows /\ tickets' = tickets
      /\ holds' = [holds EXCEPT ![s] = @ \cup {k}]
      /\ Visible(s, k).status = "pending" /\ ~HeldByOther(s, k)
  BY <1>1 DEF Claim, Claimable, TypeOK, SessionInv, SessionShape, db
<1>4. Visible(s, k) \in Row
  BY <1>1 DEF Visible, TypeOK
<1>5. TypeOK'
  BY <1>1, <1>4 DEF Claim, TypeOK, db, PCs, Row, Statuses
<1>6. k \notin holds[s] => rows[k].status = "pending" /\ out[s][k] = {}
  BY <1>1, <1>3 DEF Visible, SessionInv, SessionShape
<1>7. LocksExclusive'
  <2>1. \A t, u \in Sessions : t # u => holds'[t] \cap holds'[u] = {}
    BY <1>1, <1>3 DEF LocksExclusive, HeldByOther, TypeOK
  <2>2. \A t \in Sessions, tk \in Tickets : Shares(t, tk)' => Shares(t, tk)
    BY <1>1, <1>3, <1>6 DEF Shares, TypeOK
  <2>3. QED
    BY <1>1, <1>3, <2>1, <2>2 DEF LocksExclusive, TypeOK
<1>8. SessionShape(s)'
  BY <1>1, <1>2, <1>3, <1>5, <1>6 DEF SessionInv, SessionShape, SideEffects, TypeOK, NoEffects
<1>9. ASSUME NEW j \in holds'[s]
      PROVE  HeldRow(s, j)'
  <2>1. CASE j = k
    <3>1. local'[s][k] = [Visible(s, k) EXCEPT !.status = "running"]
      BY <1>1 DEF Claim, TypeOK
    <3>2. ~Visible(s, k).failed /\ out[s][k] = {} /\ TicketOf[k] \in tickets
          /\ rows[k].status \in {"none", "pending"}
      BY <1>1, <1>3, <1>6
      DEF Visible, SessionInv, HeldRow, CommittedInv, SettledRow, TypeOK
    <3>3. QED
      BY <1>3, <1>4, <2>1, <3>1, <3>2 DEF HeldRow, SideEffects, Row
  <2>2. CASE j # k
    <3>1. j \in Keys /\ HeldRow(s, j) /\ local'[s][j] = local[s][j]
      BY <1>1, <1>3, <2>2 DEF SessionInv, Claim, TypeOK
    <3>2. QED
      BY <1>2, <1>3, <2>2, <3>1, HeldRowFrame DEF Quiet
  <2>3. QED
    BY <2>1, <2>2
<1>10. SessionInv(s)'
  BY <1>8, <1>9 DEF SessionInv
<1>11. QED
  BY <1>2, <1>5, <1>7, <1>10, LocalStep

\* A step about the row in the session's hands leaves its other rows alone.
InHand == {"provider"} \cup SideEffects

LEMMA HandStep ==
    ASSUME NEW s \in Sessions, QueueInv, pc[s] \in InHand,
           UNCHANGED <<db, mode, cur, holds, drops>>,
           pc' = [pc EXCEPT ![s] = pc'[s]], pc'[s] \in SideEffects \cup {"finish", "aborted"},
           \A t \in Sessions, j \in Keys : t # s \/ j # cur[s] =>
               local'[t][j] = local[t][j] /\ out'[t][j] = out[t][j],
           TypeOK', LocksExclusive', HeldRow(s, cur[s])'
    PROVE  QueueInv'
<1>1. TypeOK /\ LocksExclusive /\ CommittedInv /\ \A t \in Sessions : SessionInv(t)
  BY QueueInvParts
<1>2. \A t \in Sessions \ {s} : SameSession(t)
  <2>1. SUFFICES ASSUME NEW t \in Sessions \ {s}
                 PROVE  SameSession(t)
    OBVIOUS
  <2>2. local'[t] = local[t] /\ out'[t] = out[t]
    <3>1. \A j \in Keys : local'[t][j] = local[t][j] /\ out'[t][j] = out[t][j]
      OBVIOUS
    <3>2. local[t] \in [Keys -> Row] /\ local'[t] \in [Keys -> Row]
      BY <1>1 DEF TypeOK
    <3>3. out[t] \in [Keys -> SUBSET Effects] /\ out'[t] \in [Keys -> SUBSET Effects]
      BY <1>1 DEF TypeOK
    <3>4. QED
      BY <3>1, <3>2, <3>3
  <2>3. pc'[t] = pc[t]
    BY <1>1 DEF TypeOK
  <2>4. QED
    BY <2>2, <2>3 DEF SameSession
<1>3. mode[s] # "drop" /\ drops[s] = {} /\ cur[s] \in holds[s] /\ cur[s] \in Keys
  BY <1>1 DEF SessionInv, SessionShape, InHand, SideEffects
<1>4. SessionShape(s)'
  BY <1>1, <1>3 DEF SessionInv, SessionShape, InHand, SideEffects
<1>5. ASSUME NEW j \in holds'[s]
      PROVE  HeldRow(s, j)'
  <2>1. CASE j = cur[s]
    BY <2>1
  <2>2. CASE j # cur[s]
    <3>1. j \in Keys /\ HeldRow(s, j)
      BY <1>1, <1>3 DEF SessionInv, TypeOK
    <3>2. QED
      BY <2>2, <3>1, HeldRowFrame
  <2>3. QED
    BY <2>1, <2>2
<1>6. SessionInv(s)'
  BY <1>3, <1>4, <1>5 DEF SessionInv
<1>7. QED
  BY <1>2, <1>6, LocalStep

\* A step in hand that adds no comment takes no lock.
LEMMA HandStepLocks ==
    ASSUME NEW s \in Sessions, TypeOK, LocksExclusive, UNCHANGED <<db, holds, drops>>,
           \A t \in Sessions : \A j \in holds[t] :
               "comment" \in out'[t][j] => "comment" \in out[t][j]
    PROVE  LocksExclusive'
BY DEF LocksExclusive, Shares, db, TypeOK

\* What process_one writes into a row leaves a row.
LEMMA RowDoneType ==
    ASSUME NEW r \in Row
    PROVE  RowDone(r) \in Row
BY DEF Row, RowDone, Statuses

LEMMA RowInErrorType ==
    ASSUME NEW r \in Row
    PROVE  RowInError(r) \in Row
BY DEF Row, RowInError, Statuses

LEMMA RowSideEffectsFailedType ==
    ASSUME NEW r \in Row
    PROVE  RowSideEffectsFailed(r) \in Row
BY DEF Row, RowSideEffectsFailed

\* The provider's answers.
LEMMA ProviderOkInv ==
    ASSUME NEW s \in Sessions, QueueInv, ProviderOk(s)
    PROVE  QueueInv'
<1>1. TypeOK /\ LocksExclusive /\ CommittedInv /\ SessionInv(s)
  BY QueueInvParts
<1>2. cur[s] \in Keys /\ cur[s] \in holds[s] /\ HeldRow(s, cur[s])
  BY <1>1 DEF ProviderOk, SessionInv, SessionShape
<1>3. TypeOK'
  <2>1. RowDone(local[s][cur[s]]) \in Row
    BY <1>1, <1>2, RowDoneType DEF TypeOK
  <2>2. local' \in [Sessions -> [Keys -> Row]]
    BY <1>1, <1>2, <2>1 DEF ProviderOk, TypeOK
  <2>3. QED
    BY <1>1, <2>2 DEF ProviderOk, TypeOK, db, PCs
<1>4. LocksExclusive'
  BY <1>1, HandStepLocks DEF ProviderOk
<1>5. HeldRow(s, cur[s])'
  BY <1>1, <1>2 DEF ProviderOk, RowDone, HeldRow, TypeOK, db, SideEffects, Row
<1>6. pc'[s] = "comment" /\ pc[s] = "provider"
  BY <1>1 DEF ProviderOk, TypeOK
<1>7. \A t \in Sessions, j \in Keys : t # s \/ j # cur[s] =>
          local'[t][j] = local[t][j] /\ out'[t][j] = out[t][j]
  BY <1>1, <1>2 DEF ProviderOk, TypeOK
<1>8. QED
  BY <1>3, <1>4, <1>5, <1>6, <1>7, HandStep DEF ProviderOk, InHand, SideEffects, db

LEMMA ProviderFailsInv ==
    ASSUME NEW s \in Sessions, QueueInv, ProviderFails(s)
    PROVE  QueueInv'
<1>1. TypeOK /\ LocksExclusive /\ CommittedInv /\ SessionInv(s)
  BY QueueInvParts
<1>2. cur[s] \in Keys /\ cur[s] \in holds[s] /\ HeldRow(s, cur[s])
  BY <1>1 DEF ProviderFails, SessionInv, SessionShape
<1>3. TypeOK'
  <2>1. RowInError(local[s][cur[s]]) \in Row
    BY <1>1, <1>2, RowInErrorType DEF TypeOK
  <2>2. local' \in [Sessions -> [Keys -> Row]]
    BY <1>1, <1>2, <2>1 DEF ProviderFails, TypeOK
  <2>3. QED
    BY <1>1, <2>2 DEF ProviderFails, TypeOK, db, PCs
<1>4. LocksExclusive'
  BY <1>1, HandStepLocks DEF ProviderFails
<1>5. HeldRow(s, cur[s])'
  BY <1>1, <1>2 DEF ProviderFails, RowInError, HeldRow, TypeOK, db, SideEffects, Row
<1>6. pc'[s] = "finish" /\ pc[s] = "provider"
  BY <1>1 DEF ProviderFails, TypeOK
<1>7. \A t \in Sessions, j \in Keys : t # s \/ j # cur[s] =>
          local'[t][j] = local[t][j] /\ out'[t][j] = out[t][j]
  BY <1>1, <1>2 DEF ProviderFails, TypeOK
<1>8. QED
  BY <1>3, <1>4, <1>5, <1>6, <1>7, HandStep DEF ProviderFails, InHand, SideEffects, db

\* The side effects.
LEMMA PostCommentInv ==
    ASSUME NEW s \in Sessions, QueueInv, PostComment(s)
    PROVE  QueueInv'
<1>1. TypeOK /\ LocksExclusive /\ CommittedInv /\ SessionInv(s)
  BY QueueInvParts
<1>2. cur[s] \in Keys /\ cur[s] \in holds[s] /\ HeldRow(s, cur[s])
  BY <1>1 DEF PostComment, SessionInv, SessionShape, SideEffects
<1>3. TypeOK'
  BY <1>1, <1>2 DEF PostComment, TypeOK, db, PCs, Effects
<1>4. LocksExclusive'
  <2>1. /\ holds' = holds /\ drops' = drops /\ rows' = rows
        /\ ~DroppedByOther(s, TicketOf[cur[s]])
    BY DEF PostComment, db
  <2>2. \A t \in Sessions, tk \in Tickets : Shares(t, tk)' =>
          Shares(t, tk) \/ (t = s /\ tk = TicketOf[cur[s]])
    BY <1>1, <1>2, <2>1 DEF PostComment, Shares, TypeOK
  <2>3. ASSUME NEW t \in Sessions, NEW u \in Sessions, t # u, NEW tk \in drops[t]
        PROVE  ~Shares(u, tk)'
    <3>1. tk \in Tickets /\ ~Shares(u, tk)
      BY <1>1, <2>3 DEF LocksExclusive, TypeOK
    <3>2. u = s => tk # TicketOf[cur[s]]
      BY <2>1, <2>3 DEF DroppedByOther
    <3>3. QED
      BY <2>2, <3>1, <3>2
  <2>4. QED
    BY <1>1, <2>1, <2>3 DEF LocksExclusive
<1>5. HeldRow(s, cur[s])'
  BY <1>1, <1>2 DEF PostComment, HeldRow, TypeOK, db, SideEffects
<1>6. pc'[s] = "notify" /\ pc[s] = "comment"
  BY <1>1 DEF PostComment, TypeOK
<1>7. \A t \in Sessions, j \in Keys : t # s \/ j # cur[s] =>
          local'[t][j] = local[t][j] /\ out'[t][j] = out[t][j]
  BY <1>1, <1>2 DEF PostComment, TypeOK
<1>8. QED
  BY <1>3, <1>4, <1>5, <1>6, <1>7, HandStep DEF PostComment, InHand, SideEffects, db

LEMMA NotifyOwnerInv ==
    ASSUME NEW s \in Sessions, QueueInv, NotifyOwner(s)
    PROVE  QueueInv'
<1>1. TypeOK /\ LocksExclusive /\ CommittedInv /\ SessionInv(s)
  BY QueueInvParts
<1>2. cur[s] \in Keys /\ cur[s] \in holds[s] /\ HeldRow(s, cur[s])
  BY <1>1 DEF NotifyOwner, SessionInv, SessionShape, SideEffects
<1>3. TypeOK'
  BY <1>1, <1>2 DEF NotifyOwner, Notices, TypeOK, db, PCs, Effects
<1>4. LocksExclusive'
  <2>1. \A t \in Sessions : \A j \in holds[t] :
            "comment" \in out'[t][j] => "comment" \in out[t][j]
    BY <1>1, <1>2 DEF NotifyOwner, Notices, TypeOK
  <2>2. QED
    BY <1>1, <2>1, HandStepLocks DEF NotifyOwner
<1>5. HeldRow(s, cur[s])'
  BY <1>1, <1>2 DEF NotifyOwner, HeldRow, Expected, Notices, TypeOK, db, SideEffects
<1>6. pc'[s] = "lesson" /\ pc[s] = "notify"
  BY <1>1 DEF NotifyOwner, TypeOK
<1>7. \A t \in Sessions, j \in Keys : t # s \/ j # cur[s] =>
          local'[t][j] = local[t][j] /\ out'[t][j] = out[t][j]
  BY <1>1, <1>2 DEF NotifyOwner, TypeOK
<1>8. QED
  BY <1>3, <1>4, <1>5, <1>6, <1>7, HandStep DEF NotifyOwner, InHand, SideEffects, db

LEMMA EmitLessonInv ==
    ASSUME NEW s \in Sessions, QueueInv, EmitLesson(s)
    PROVE  QueueInv'
<1>1. TypeOK /\ LocksExclusive /\ CommittedInv /\ SessionInv(s)
  BY QueueInvParts
<1>2. cur[s] \in Keys /\ cur[s] \in holds[s] /\ HeldRow(s, cur[s])
  BY <1>1 DEF EmitLesson, SessionInv, SessionShape, SideEffects
<1>3. TypeOK'
  BY <1>1, <1>2 DEF EmitLesson, TypeOK, db, PCs, Effects
<1>4. LocksExclusive'
  <2>1. \A t \in Sessions : \A j \in holds[t] :
            "comment" \in out'[t][j] => "comment" \in out[t][j]
    BY <1>1, <1>2 DEF EmitLesson, TypeOK
  <2>2. QED
    BY <1>1, <2>1, HandStepLocks DEF EmitLesson
<1>5. HeldRow(s, cur[s])'
  BY <1>1, <1>2 DEF EmitLesson, HeldRow, Expected, Notices, TypeOK, db, SideEffects
<1>6. pc'[s] = "finish" /\ pc[s] = "lesson"
  BY <1>1 DEF EmitLesson, TypeOK
<1>7. \A t \in Sessions, j \in Keys : t # s \/ j # cur[s] =>
          local'[t][j] = local[t][j] /\ out'[t][j] = out[t][j]
  BY <1>1, <1>2 DEF EmitLesson, TypeOK
<1>8. QED
  BY <1>3, <1>4, <1>5, <1>6, <1>7, HandStep DEF EmitLesson, InHand, SideEffects, db

LEMMA SideEffectRaisesInv ==
    ASSUME NEW s \in Sessions, QueueInv, SideEffectRaises(s)
    PROVE  QueueInv'
<1>1. TypeOK /\ LocksExclusive /\ CommittedInv /\ SessionInv(s)
  BY QueueInvParts
<1>2. cur[s] \in Keys /\ cur[s] \in holds[s] /\ HeldRow(s, cur[s])
  BY <1>1 DEF SideEffectRaises, SessionInv, SessionShape, SideEffects
<1>3. TypeOK'
  <2>1. RowSideEffectsFailed(local[s][cur[s]]) \in Row
    BY <1>1, <1>2, RowSideEffectsFailedType DEF TypeOK
  <2>2. local' \in [Sessions -> [Keys -> Row]]
    BY <1>1, <1>2, <2>1 DEF SideEffectRaises, TypeOK
  <2>3. QED
    BY <1>1, <2>2 DEF SideEffectRaises, TypeOK, db, PCs
<1>4. LocksExclusive'
  BY <1>1, HandStepLocks DEF SideEffectRaises
<1>5. HeldRow(s, cur[s])'
  BY <1>1, <1>2 DEF SideEffectRaises, RowSideEffectsFailed, HeldRow, Expected, Notices, TypeOK, db,
                    SideEffects, Row
<1>6. pc'[s] = "finish" /\ pc[s] \in SideEffects
  BY <1>1 DEF SideEffectRaises, TypeOK
<1>7. \A t \in Sessions, j \in Keys : t # s \/ j # cur[s] =>
          local'[t][j] = local[t][j] /\ out'[t][j] = out[t][j]
  BY <1>1, <1>2 DEF SideEffectRaises, TypeOK
<1>8. QED
  BY <1>3, <1>4, <1>5, <1>6, <1>7, HandStep DEF SideEffectRaises, InHand, SideEffects, db

\* A failed statement: the transaction keeps its locks until it rolls back.
LEMMA AbortInv ==
    ASSUME NEW s \in Sessions, QueueInv, Abort(s), pc[s] # "idle", pc[s] # "aborted",
           faults' \in Nat
    PROVE  QueueInv'
<1>1. TypeOK /\ LocksExclusive /\ CommittedInv /\ SessionInv(s)
  BY QueueInvParts
<1>2. CASE pc[s] \in SideEffects
  <2>1. cur[s] \in Keys /\ cur[s] \in holds[s] /\ HeldRow(s, cur[s])
    BY <1>1, <1>2 DEF SessionInv, SessionShape, SideEffects
  <2>2. TypeOK'
    <3>1. RowSideEffectsFailed(local[s][cur[s]]) \in Row
      BY <1>1, <2>1, RowSideEffectsFailedType DEF TypeOK
    <3>2. local' \in [Sessions -> [Keys -> Row]]
      BY <1>1, <1>2, <2>1, <3>1 DEF Abort, TypeOK
    <3>3. QED
      BY <1>1, <3>2 DEF Abort, TypeOK, db, PCs
  <2>3. LocksExclusive'
    BY <1>1, HandStepLocks DEF Abort
  <2>4. HeldRow(s, cur[s])'
    BY <1>1, <1>2, <2>1 DEF Abort, RowSideEffectsFailed, HeldRow, Expected, Notices, TypeOK, db,
                            SideEffects, Row
  <2>5. pc'[s] = "aborted"
    BY <1>1 DEF Abort, TypeOK
  <2>6. \A t \in Sessions, j \in Keys : t # s \/ j # cur[s] =>
            local'[t][j] = local[t][j] /\ out'[t][j] = out[t][j]
    BY <1>1, <1>2, <2>1 DEF Abort, TypeOK
  <2>7. QED
    BY <1>2, <2>2, <2>3, <2>4, <2>5, <2>6, HandStep DEF Abort, InHand, SideEffects, db
<1>3. CASE pc[s] \notin SideEffects
  <2>1. UNCHANGED <<db, ahead, mode, cur, work, scan>> /\ pc' = [pc EXCEPT ![s] = "aborted"]
    BY <1>3 DEF Abort, work
  <2>2. TypeOK'
    BY <1>1, <2>1 DEF TypeOK, db, work, PCs
  <2>3. UNCHANGED db /\ \A t \in Sessions \ {s} : SameSession(t)
    BY <1>1, <2>1 DEF SameSession, TypeOK, work
  <2>4. LocksExclusive'
    BY <1>1, <2>1, <2>3, LocksFrame DEF work, db, Shares
  <2>5. SessionShape(s)'
    BY <1>1, <2>1 DEF TypeOK, db, work, SessionInv, SessionShape, SideEffects, RowsOf
  <2>6. ASSUME mode[s] # "drop", NEW j \in holds'[s]
        PROVE  HeldRow(s, j)'
    <3>1. HeldRow(s, j)
      BY <1>1, <2>1, <2>6 DEF SessionInv, work
    <3>2. QED
      BY <1>1, <1>3, <2>1, <3>1 DEF HeldRow, TypeOK, db, work, PCs, SideEffects
  <2>7. SessionInv(s)'
    BY <2>1, <2>5, <2>6 DEF SessionInv
  <2>8. QED
    BY <2>2, <2>3, <2>4, <2>7, LocalStep
<1>4. QED
  BY <1>2, <1>3

LEMMA StatementFailsInv ==
    ASSUME NEW s \in Sessions, QueueInv, StatementFails(s)
    PROVE  QueueInv'
<1>1. Abort(s) /\ pc[s] # "idle" /\ pc[s] # "aborted" /\ faults' = faults + 1
  BY DEF StatementFails
<1>2. faults' \in Nat
  BY <1>1, QueueInvParts DEF TypeOK
<1>3. QED
  BY <1>1, <1>2, AbortInv

LEMMA DeadlockVictimInv ==
    ASSUME NEW s \in Sessions, QueueInv, DeadlockVictim(s)
    PROVE  QueueInv'
<1>1. pc[s] \in {"insert", "comment", "cascade"}
  BY DEF DeadlockVictim, Deadlocked, WaitsFor
<1>2. faults' \in Nat
  BY QueueInvParts DEF DeadlockVictim, TypeOK
<1>3. QED
  BY <1>1, <1>2, AbortInv DEF DeadlockVictim

\* A deletion takes its ticket, then the ticket's committed rows.
LEMMA DropTicketInv ==
    ASSUME NEW s \in Sessions, NEW tk \in Tickets, QueueInv, DropTicket(s, tk)
    PROVE  QueueInv'
<1>1. TypeOK /\ LocksExclusive /\ CommittedInv /\ \A t \in Sessions : SessionInv(t)
  BY QueueInvParts
<1>2. UNCHANGED db /\ \A t \in Sessions \ {s} : SameSession(t)
  BY <1>1 DEF DropTicket, SameSession, TypeOK
<1>3. TypeOK'
  BY <1>1 DEF DropTicket, TypeOK, db, PCs
<1>4. LocksExclusive'
  <2>1. /\ holds' = holds /\ rows' = rows /\ out' = out
        /\ drops' = [drops EXCEPT ![s] = {tk}]
        /\ ~DroppedByOther(s, tk) /\ \A t \in Sessions : ~Shares(t, tk)
    BY DEF DropTicket, db
  <2>2. \A t \in Sessions, x \in Tickets : Shares(t, x)' <=> Shares(t, x)
    BY <2>1 DEF Shares
  <2>3. \A t, u \in Sessions : t # u => drops'[t] \cap drops'[u] = {}
    BY <1>1, <2>1 DEF LocksExclusive, DroppedByOther, TypeOK
  <2>4. \A t, u \in Sessions : t # u => \A x \in drops'[t] : ~Shares(u, x)'
    BY <1>1, <2>1, <2>2 DEF LocksExclusive, TypeOK
  <2>5. QED
    BY <1>1, <2>1, <2>3, <2>4 DEF LocksExclusive
<1>5. SessionInv(s)'
  BY <1>1 DEF DropTicket, TypeOK, db, SessionInv, SessionShape, SideEffects, RowsOf, NoEffects
<1>6. QED
  BY <1>2, <1>3, <1>4, <1>5, LocalStep

LEMMA DropCascadeInv ==
    ASSUME NEW s \in Sessions, QueueInv, DropCascade(s)
    PROVE  QueueInv'
<1> DEFINE gone == {k \in RowsOf(drops[s]) : rows[k].status # "none"}
<1>1. TypeOK /\ LocksExclusive /\ CommittedInv /\ \A t \in Sessions : SessionInv(t)
  BY QueueInvParts
<1>2. UNCHANGED db /\ \A t \in Sessions \ {s} : SameSession(t)
  BY <1>1 DEF DropCascade, SameSession, TypeOK
<1>3. gone \subseteq Keys
  BY DEF RowsOf
<1>4. /\ mode[s] = "drop" /\ out[s] = NoEffects /\ pc[s] = "cascade" /\ pc'[s] = "end"
      /\ holds' = [holds EXCEPT ![s] = gone] /\ local' = [local EXCEPT ![s] = NoRows]
      /\ \A k \in gone : ~HeldByOther(s, k)
      /\ UNCHANGED <<drops, out, mode, cur>>
  <2>1. /\ pc[s] = "cascade" /\ holds' = [holds EXCEPT ![s] = gone]
        /\ local' = [local EXCEPT ![s] = NoRows] /\ pc' = [pc EXCEPT ![s] = "end"]
        /\ \A k \in gone : ~HeldByOther(s, k)
        /\ UNCHANGED <<drops, out, mode, cur>>
    BY DEF DropCascade
  <2>2. mode[s] = "drop" /\ \A k \in Keys : out[s][k] = {}
    BY <1>1, <2>1 DEF SessionInv, SessionShape
  <2>3. out[s] \in [Keys -> SUBSET Effects]
    BY <1>1 DEF TypeOK
  <2>4. out[s] = NoEffects
    BY <2>2, <2>3 DEF NoEffects
  <2>5. QED
    BY <1>1, <2>1, <2>2, <2>4 DEF TypeOK
<1>5. NoRows \in [Keys -> Row]
  BY DEF NoRows, NoRow, Row, Statuses
<1>6. TypeOK'
  BY <1>1, <1>3, <1>4, <1>5 DEF DropCascade, TypeOK, db, PCs
<1>7. LocksExclusive'
  <2>1. \A t, u \in Sessions : t # u => holds'[t] \cap holds'[u] = {}
    BY <1>1, <1>3, <1>4 DEF LocksExclusive, HeldByOther, TypeOK
  <2>2. \A tk \in Tickets : ~Shares(s, tk)'
    BY <1>1, <1>2, <1>4 DEF Shares, NoEffects, RowsOf, TypeOK, db
  <2>3. \A t \in Sessions \ {s}, tk \in Tickets : Shares(t, tk)' = Shares(t, tk)
    BY <1>2, SharesFrame
  <2>4. QED
    BY <1>1, <1>4, <2>1, <2>2, <2>3 DEF LocksExclusive, TypeOK
<1>8. SessionInv(s)'
  BY <1>1, <1>2, <1>3, <1>4 DEF TypeOK, db, SessionInv, SessionShape, SideEffects, RowsOf, NoEffects
<1>9. QED
  BY <1>2, <1>6, <1>7, <1>8, LocalStep

\* The end of a transaction, seen by the others and by its session.
LEMMA ReleaseOthers ==
    ASSUME NEW s \in Sessions, NEW gone \in SUBSET Keys, TypeOK, Release(s, gone), UNCHANGED mode
    PROVE  \A t \in Sessions \ {s} : SameSession(t)
BY DEF Release, SameSession, TypeOK

LEMMA ReleaseTypes ==
    ASSUME NEW s \in Sessions, NEW gone \in SUBSET Keys, TypeOK, Release(s, gone),
           UNCHANGED <<mode, faults>>, rows' \in [Keys -> Row], tickets' \in SUBSET Tickets,
           posted' \in [Keys -> [Effects -> Nat]]
    PROVE  TypeOK'
<1>1. NoRows \in [Keys -> Row] /\ NoEffects \in [Keys -> SUBSET Effects]
  BY DEF NoRows, NoRow, Row, Statuses, NoEffects
<1>2. ahead' \in [Keys -> SUBSET Keys]
  BY DEF Release, TypeOK
<1>3. QED
  BY <1>1, <1>2 DEF Release, TypeOK, PCs

LEMMA ReleaseOwn ==
    ASSUME NEW s \in Sessions, NEW gone \in SUBSET Keys, TypeOK, Release(s, gone),
           SessionShape(s), UNCHANGED mode
    PROVE  SessionInv(s)'
BY DEF Release, SessionInv, SessionShape, SideEffects, NoEffects, RowsOf, TypeOK

LEMMA RollbackInv ==
    ASSUME NEW s \in Sessions, QueueInv, Rollback(s)
    PROVE  QueueInv'
<1>1. TypeOK /\ LocksExclusive /\ CommittedInv /\ \A t \in Sessions : SessionInv(t)
  BY QueueInvParts
<1>2. Inserted(s) \in SUBSET Keys /\ Release(s, Inserted(s)) /\ UNCHANGED <<db, mode, faults>>
  BY <1>1 DEF Rollback, Inserted, TypeOK
<1>3. UNCHANGED db /\ \A t \in Sessions \ {s} : SameSession(t)
  BY <1>1, <1>2, ReleaseOthers
<1>4. TypeOK'
  <2>1. rows' \in [Keys -> Row] /\ tickets' \in SUBSET Tickets
        /\ posted' \in [Keys -> [Effects -> Nat]]
    BY <1>1, <1>2 DEF TypeOK, db
  <2>2. QED
    BY <1>1, <1>2, <2>1, ReleaseTypes
<1>5. LocksExclusive'
  <2>1. holds' = [holds EXCEPT ![s] = {}] /\ drops' = [drops EXCEPT ![s] = {}]
    BY <1>2 DEF Release
  <2>2. \A tk \in Tickets : ~Shares(s, tk)'
    BY <1>1, <2>1 DEF Shares, TypeOK
  <2>3. \A t \in Sessions \ {s}, tk \in Tickets : Shares(t, tk)' = Shares(t, tk)
    BY <1>3, SharesFrame
  <2>4. QED
    BY <1>1, <2>1, <2>2, <2>3 DEF LocksExclusive, TypeOK
<1>6. SessionInv(s)'
  BY <1>1, <1>2, ReleaseOwn DEF SessionInv
<1>7. QED
  BY <1>3, <1>4, <1>5, <1>6, LocalStep

\* A deletion that commits holds every row of its ticket, and nobody else holds
\* one or is adding one.
LEMMA DeletionIsAlone ==
    ASSUME NEW s \in Sessions, NEW k \in Keys, QueueInv, Commit(s), TicketOf[k] \in drops[s]
    PROVE  /\ rows[k].status # "none" => k \in holds[s]
           /\ \A t \in Sessions \ {s} : k \notin holds[t]
<1>1. LocksExclusive /\ SessionInv(s)
  BY QueueInvParts
<1>2. mode[s] = "drop" /\ pc[s] = "end"
  BY <1>1 DEF SessionInv, SessionShape, Commit, MayCommit
<1>3. rows[k].status # "none" => k \in holds[s]
  BY <1>1, <1>2 DEF SessionInv, SessionShape, RowsOf
<1>4. \A t \in Sessions \ {s} : ~Shares(t, TicketOf[k])
  BY <1>1 DEF LocksExclusive
<1>5. QED
  BY <1>1, <1>3, <1>4 DEF Shares, LocksExclusive

\* What a commit does to a row: nothing, the deletion of its ticket, or the
\* work of a session that held it alone since it was new or pending.
LEMMA CommitRow ==
    ASSUME NEW s \in Sessions, NEW k \in Keys, QueueInv, Commit(s)
    PROVE  \/ /\ k \notin holds[s] /\ rows'[k] = rows[k]
              /\ \A e \in Effects : posted'[k][e] = posted[k][e]
              /\ rows[k].status # "none" => TicketOf[k] \in tickets'
           \/ /\ k \in holds[s] /\ rows'[k] = NoRow /\ TicketOf[k] \notin tickets'
              /\ \A e \in Effects : posted'[k][e] = posted[k][e]
           \/ /\ k \in holds[s] /\ rows'[k] = local[s][k] /\ HeldRow(s, k)
              /\ tickets' = tickets /\ pc[s] \in {"open", "end"}
              /\ Had(k) = {} /\ Had(k)' = out[s][k]
              /\ \A e \in Effects : posted'[k][e] <= 1
<1>1. TypeOK /\ LocksExclusive /\ CommittedInv /\ SessionInv(s)
  BY QueueInvParts
<1>2. /\ rows'[k] = Visible(s, k) /\ tickets' = tickets \ drops[s] /\ MayCommit(s)
      /\ \A e \in Effects : posted'[k][e] =
            IF e \in out[s][k] THEN Delivered(posted[k][e], e) ELSE posted[k][e]
  BY DEF Commit
<1>3. CASE k \notin holds[s]
  <2>1. out[s][k] = {} /\ rows'[k] = rows[k]
    BY <1>1, <1>2, <1>3 DEF SessionInv, SessionShape, Visible
  <2>2. rows[k].status # "none" => TicketOf[k] \in tickets
    BY <1>1 DEF CommittedInv, SettledRow
  <2>3. rows[k].status # "none" => TicketOf[k] \notin drops[s]
    BY <1>3, DeletionIsAlone
  <2>4. QED
    BY <1>2, <1>3, <2>1, <2>2, <2>3
<1>4. CASE k \in holds[s] /\ mode[s] = "drop"
  <2>1. rows'[k] = NoRow /\ out[s][k] = {} /\ TicketOf[k] \in drops[s]
    BY <1>1, <1>2, <1>4 DEF SessionInv, SessionShape, Visible, NoRows, RowsOf
  <2>2. QED
    BY <1>2, <1>4, <2>1
<1>5. CASE k \in holds[s] /\ mode[s] # "drop"
  <2>1. HeldRow(s, k) /\ tickets' = tickets /\ rows'[k] = local[s][k]
    BY <1>1, <1>2, <1>5 DEF SessionInv, SessionShape, Visible, TypeOK
  <2>2. Had(k) = {}
    BY <1>1, <2>1 DEF HeldRow, CommittedInv, RowsTellTheTruth, SettledRow
  <2>3. \A e \in Effects : posted[k][e] = 0
    BY <1>1, <2>2 DEF Had, TypeOK
  <2>4. \A e \in Effects : posted'[k][e] = IF e \in out[s][k] THEN 1 ELSE 0
    BY <1>2, <2>3 DEF Delivered
  <2>5. Had(k)' = out[s][k]
    BY <1>1, <2>4 DEF Had, TypeOK
  <2>6. QED
    BY <1>2, <1>5, <2>1, <2>2, <2>4, <2>5 DEF MayCommit
<1>6. QED
  BY <1>3, <1>4, <1>5

\* The commit keeps the invariant.
LEMMA CommitInv ==
    ASSUME NEW s \in Sessions, QueueInv, Commit(s)
    PROVE  QueueInv'
<1> DEFINE gone == {k \in holds[s] : local[s][k].status = "none"}
<1>1. TypeOK /\ LocksExclusive /\ CommittedInv /\ \A t \in Sessions : SessionInv(t)
  BY QueueInvParts
<1>2. /\ gone \in SUBSET Keys /\ Release(s, gone) /\ UNCHANGED <<mode, faults>>
      /\ rows' = [k \in Keys |-> Visible(s, k)] /\ tickets' = tickets \ drops[s]
  BY <1>1 DEF Commit, TypeOK
<1>3. \A t \in Sessions \ {s} : SameSession(t)
  BY <1>1, <1>2, ReleaseOthers
<1>4. \A k \in Keys : k \notin holds[s] => rows'[k] = rows[k]
  BY <1>2 DEF Visible
<1>5. TypeOK'
  <2>1. rows' \in [Keys -> Row] /\ tickets' \in SUBSET Tickets
    BY <1>1, <1>2 DEF Visible, TypeOK
  <2>2. \A k \in Keys, e \in Effects :
            (IF e \in out[s][k] THEN Delivered(posted[k][e], e) ELSE posted[k][e]) \in Nat
    BY <1>1 DEF Delivered, TypeOK
  <2>3. posted' \in [Keys -> [Effects -> Nat]]
    BY <2>2 DEF Commit
  <2>4. QED
    BY <1>1, <1>2, <2>1, <2>3, ReleaseTypes
<1>6. LocksExclusive'
  <2>1. holds' = [holds EXCEPT ![s] = {}] /\ drops' = [drops EXCEPT ![s] = {}]
        /\ \A t \in Sessions \ {s} : out'[t] = out[t]
    BY <1>2, <1>3 DEF Release, SameSession
  <2>2. \A tk \in Tickets : ~Shares(s, tk)'
    BY <1>1, <2>1 DEF Shares, TypeOK
  <2>3. \A t \in Sessions \ {s}, tk \in Tickets : Shares(t, tk)' => Shares(t, tk)
    BY <1>1, <1>4, <2>1 DEF Shares, LocksExclusive, TypeOK
  <2>4. QED
    BY <1>1, <2>1, <2>2, <2>3 DEF LocksExclusive, TypeOK
<1>7. CommittedInv'
  <2>1. SUFFICES ASSUME NEW k \in Keys
                 PROVE  /\ \A e \in Effects : posted'[k][e] <= 1
                        /\ SettledRow(k)'
                        /\ rows'[k].status \in {"pending", "error"} => Had(k)' = {}
                        /\ rows'[k].status = "done" /\ ~rows'[k].failed =>
                             Had(k)' = Expected(rows'[k].byOther)
                        /\ rows'[k].status = "done" /\ rows'[k].failed =>
                             Had(k)' \subseteq Expected(rows'[k].byOther) \ {"lesson"}
    BY DEF CommittedInv, AtMostOnce, RowsTellTheTruth
  <2>2. CASE /\ k \notin holds[s] /\ rows'[k] = rows[k]
             /\ \A e \in Effects : posted'[k][e] = posted[k][e]
             /\ rows[k].status # "none" => TicketOf[k] \in tickets'
    <3>1. Had(k)' = Had(k)
      BY <2>2 DEF Had
    <3>2. QED
      BY <1>1, <1>2, <2>2, <3>1 DEF CommittedInv, AtMostOnce, RowsTellTheTruth, SettledRow
  <2>3. CASE /\ k \in holds[s] /\ rows'[k] = NoRow /\ TicketOf[k] \notin tickets'
             /\ \A e \in Effects : posted'[k][e] = posted[k][e]
    BY <1>1, <2>3 DEF NoRow, CommittedInv, AtMostOnce, SettledRow
  <2>4. CASE /\ k \in holds[s] /\ rows'[k] = local[s][k] /\ HeldRow(s, k)
             /\ tickets' = tickets /\ pc[s] \in {"open", "end"}
             /\ Had(k) = {} /\ Had(k)' = out[s][k]
             /\ \A e \in Effects : posted'[k][e] <= 1
    BY <2>4 DEF HeldRow, SettledRow, SideEffects
  <2>5. QED
    BY <2>2, <2>3, <2>4, CommitRow
<1>8. ASSUME NEW t \in Sessions
      PROVE  SessionInv(t)'
  <2>1. CASE t = s
    BY <1>1, <1>2, <2>1, ReleaseOwn DEF SessionInv
  <2>2. CASE t # s
    <3>1. SameSession(t) /\ SessionInv(t)
      BY <1>1, <1>3, <2>2
    <3>2. \A k \in holds[t] : k \in Keys /\ k \notin holds[s] /\ TicketOf[k] \notin drops[s]
      BY <1>1, <2>2, DeletionIsAlone DEF LocksExclusive, TypeOK
    <3>3. \A k \in RowsOf(drops[t]) : rows'[k].status # "none" => rows[k].status # "none"
      <4>1. SUFFICES ASSUME NEW k \in Keys, TicketOf[k] \in drops[t], rows[k].status = "none",
                            rows'[k].status # "none"
                     PROVE  FALSE
        BY DEF RowsOf
      <4>2. k \in holds[s]
        BY <1>4, <4>1
      <4>3. Shares(s, TicketOf[k])
        BY <4>1, <4>2 DEF Shares
      <4>4. QED
        BY <1>1, <2>2, <4>1, <4>3 DEF LocksExclusive
    <3>4. SessionShape(t)'
      BY <3>1, <3>3 DEF SessionInv, SameSession, SessionShape, RowsOf
    <3>5. mode'[t] # "drop" => \A k \in holds'[t] : HeldRow(t, k)'
      BY <1>2, <1>4, <3>1, <3>2 DEF SessionInv, SameSession, HeldRow
    <3>6. QED
      BY <3>4, <3>5 DEF SessionInv
  <2>3. QED
    BY <2>1, <2>2
<1>9. QED
  BY <1>5, <1>6, <1>7, <1>8, QueueInvNext

\* Every step keeps the invariant.
LEMMA NextQueueInv == QueueInv /\ [Next]_vars => QueueInv'
<1>1. ASSUME QueueInv, NEW s \in Sessions, NEW m \in Modes[s], Begin(s, m)
      PROVE  QueueInv'
  BY <1>1, BeginInv
<1>2. ASSUME QueueInv, NEW s \in Sessions, Enqueue(s)
      PROVE  QueueInv'
  BY <1>2, EnqueueLookupInv, EnqueueInsertInv, EnqueueRejectedInv DEF Enqueue
<1>3. ASSUME QueueInv, NEW s \in Sessions, ProcessOne(s)
      PROVE  QueueInv'
  BY <1>3, ProcessScanInv, ScanEmptyInv, ScanSkipInv, ClaimInv, ProviderOkInv, ProviderFailsInv,
     PostCommentInv, NotifyOwnerInv, EmitLessonInv, FinishInv DEF ProcessOne
<1>4. ASSUME QueueInv, NEW s \in Sessions, SideEffectRaises(s)
      PROVE  QueueInv'
  BY <1>4, SideEffectRaisesInv
<1>5. ASSUME QueueInv, NEW s \in Sessions, Drop(s)
      PROVE  QueueInv'
  BY <1>5, DropTicketInv, DropCascadeInv DEF Drop
<1>6. ASSUME QueueInv, NEW s \in Sessions, Commit(s) \/ Rollback(s)
      PROVE  QueueInv'
  BY <1>6, CommitInv, RollbackInv
<1>7. ASSUME QueueInv, NEW s \in Sessions, StatementFails(s) \/ DeadlockVictim(s)
      PROVE  QueueInv'
  BY <1>7, StatementFailsInv, DeadlockVictimInv
<1>8. ASSUME QueueInv, UNCHANGED vars
      PROVE  QueueInv'
  <2>1. TypeOK'
    BY <1>8 DEF QueueInv, TypeOK, vars, db, work
  <2>2. LocksExclusive'
    BY <1>8 DEF QueueInv, LocksExclusive, Shares, vars, db, work
  <2>3. CommittedInv'
    BY <1>8, QueueInvParts, CommittedFrame DEF vars
  <2>4. \A t \in Sessions : SessionInv(t)'
    BY <1>8, QueueInvParts, SessionFrame DEF SameSession, vars, work
  <2>5. QED
    BY <2>1, <2>2, <2>3, <2>4, QueueInvNext
<1>9. QED
  BY <1>1, <1>2, <1>3, <1>4, <1>5, <1>6, <1>7, <1>8 DEF Next

\* The inductive invariant holds of every behaviour, whatever the keys, the
\* tickets, the sessions, the callers and the number of failed statements.
THEOREM QueueInvariant == Spec => []QueueInv
BY InitQueueInv, NextQueueInv, PTL DEF Spec

\* Types.
THEOREM QueueTypes == Spec => []TypeOK
<1>1. QueueInv => TypeOK
  BY DEF QueueInv
<1>2. QED
  BY <1>1, QueueInvariant, PTL

\* No two transactions ever hold one row: the claim of process_one, the insert
\* of enqueue and the cascade of a ticket deletion exclude one another.
THEOREM RowsHeldOnce == Spec => []LocksExclusive
<1>1. QueueInv => LocksExclusive
  BY DEF QueueInv
<1>2. QED
  BY <1>1, QueueInvariant, PTL

\* No double dispatch: no run leaves an effect behind twice.
THEOREM NoDoubleDispatch == Spec => []AtMostOnce
<1>1. QueueInv => AtMostOnce
  BY DEF QueueInv
<1>2. QED
  BY <1>1, QueueInvariant, PTL

\* The status and the error column of a committed run say what the run did.
THEOREM StatusIsTruthful == Spec => []RowsTellTheTruth
<1>1. QueueInv => RowsTellTheTruth
  BY DEF QueueInv
<1>2. QED
  BY <1>1, QueueInvariant, PTL

\* No crash leaves a run in 'running'.
THEOREM NeverStuckRunning == Spec => []RunningIsPrivate
<1>1. QueueInv => RunningIsPrivate
  BY DEF QueueInv, SettledRow, RunningIsPrivate
<1>2. QED
  BY <1>1, QueueInvariant, PTL
-----------------------------------------------------------------------------
(* The queue implements AgentDispatch.                                     *)

\* The initial states correspond.
LEMMA DispatchInit == Init => Dispatch!Init
BY QueueAssumption DEF Init, Dispatch!Init, NoRows, NoRow, Had

\* A commit is a step of AgentDispatch.
LEMMA DispatchCommit ==
    ASSUME NEW s \in Sessions, QueueInv, QueueInv', Commit(s)
    PROVE  Dispatch!Step
<1> DEFINE state == [k \in Keys |-> IF rows[k].status = "none" THEN "absent" ELSE rows[k].status]
           effects == [k \in Keys |-> Had(k)]
           removed == {k \in Keys : TicketOf[k] \notin tickets}
<1>1. state' \in [Keys -> Dispatch!States]
  BY DEF QueueInv, TypeOK, Row, Statuses, SettledRow, Dispatch!States
<1>2. effects' \in [Keys -> SUBSET Effects]
  BY DEF Had
<1>3. removed' \in SUBSET Keys /\ removed \subseteq removed'
  BY DEF Commit
<1>4. ASSUME NEW k \in Keys
      PROVE  /\ Dispatch!Requested(k) \/ Dispatch!Decided(k) \/ Dispatch!Untouched(k)
                \/ Dispatch!Removed(k)
             /\ effects'[k] # effects[k] =>
                  /\ effects[k] = {}
                  /\ state[k] \in {"absent", "pending"} /\ state'[k] = "done"
  <2>1. CASE /\ k \notin holds[s] /\ rows'[k] = rows[k]
             /\ \A e \in Effects : posted'[k][e] = posted[k][e]
    BY <2>1 DEF Had, Dispatch!Untouched
  <2>2. CASE /\ rows'[k] = NoRow /\ TicketOf[k] \notin tickets'
             /\ \A e \in Effects : posted'[k][e] = posted[k][e]
    BY <2>2 DEF Had, NoRow, Dispatch!Removed
  <2>3. CASE /\ rows'[k] = local[s][k] /\ HeldRow(s, k)
             /\ tickets' = tickets /\ pc[s] \in {"open", "end"}
             /\ Had(k) = {} /\ Had(k)' = out[s][k]
    <3>1. rows'[k].status \in {"pending", "done", "error"}
      <4>1. rows'[k].status \in Statuses
        BY DEF QueueInv, TypeOK, Row
      <4>2. QED
        BY <2>3, <4>1 DEF HeldRow, Statuses
    <3>2. rows[k].status \in {"none", "pending"} /\ TicketOf[k] \in tickets
      BY <2>3 DEF HeldRow
    <3>3. Had(k)' # {} => rows'[k].status = "done"
      BY <2>3 DEF HeldRow
    <3>4. QED
      BY <2>3, <3>1, <3>2, <3>3 DEF Dispatch!Requested, Dispatch!Decided, Dispatch!Untouched
  <2>4. QED
    BY <2>1, <2>2, <2>3, CommitRow
<1>5. QED
  BY <1>1, <1>2, <1>3, <1>4 DEF Dispatch!Step

\* Every other step leaves the committed rows alone.
LEMMA OnlyCommitShows ==
    ASSUME [Next]_vars, \A s \in Sessions : ~Commit(s)
    PROVE  UNCHANGED db
BY DEF Next, vars, Begin, Enqueue, EnqueueLookup, EnqueueInsert, EnqueueRejected, ProcessOne,
       ProcessScan, ScanEmpty, ScanSkip, Claim, ProviderOk, ProviderFails, PostComment, NotifyOwner,
       EmitLesson, Finish, SideEffectRaises, Drop, DropTicket, DropCascade, Rollback,
       StatementFails, DeadlockVictim, Abort

\* The queue implements AgentDispatch for every value of the constants: with all
\* its sessions, locks, failures and deadlocks it decides each run once.
THEOREM QueueImplementsDispatch == Spec => DispatchSpec
<1>1. QueueInv /\ QueueInv' /\ [Next]_vars => [Dispatch!Step]_(Dispatch!vars)
  <2>1. ASSUME QueueInv, QueueInv', NEW s \in Sessions, Commit(s)
        PROVE  Dispatch!Step
    BY <2>1, DispatchCommit
  <2>2. ASSUME UNCHANGED db
        PROVE  UNCHANGED Dispatch!vars
    BY <2>2 DEF db, Dispatch!vars, Had
  <2>3. QED
    BY <2>1, <2>2, OnlyCommitShows
<1>2. QED
  BY <1>1, DispatchInit, QueueInvariant, PTL DEF Spec, DispatchSpec, Dispatch!Spec
=============================================================================
