---------------------------- MODULE SQLiteAccess ----------------------------
(***************************************************************************)
(* One database operation after another, as the macros of                   *)
(* StragetyDeployer/dbopmacros.h and delBySql (dboperatefunc.cpp) make them *)
(* from SQLiteDatabase and SQLiteStatement (SQLiteDatabase.cpp).  Callers   *)
(* hold m_mtxSqlite, so operations do not overlap; another process may hold *)
(* a lock on the file at any time, and this one may be killed.              *)
(*                                                                          *)
(* A row is its key.  What SQLite does to a connection, a statement, a      *)
(* transaction and the file is external.                                    *)
(***************************************************************************)
EXTENDS Integers, Sequences, FiniteSets, Functions

CONSTANTS
  RowKeys,   \* the keys rows may have
  Vectors,   \* the vectors of objects (or rows a condition selects) callers pass
  MaxOps     \* bound on the number of operations

ASSUME DbAssumption ==
  Vectors \subseteq Seq(RowKeys) /\ <<>> \in Vectors /\ MaxOps \in Nat

Transactional == {"Query", "Delete", "DelBySql"}
Operations    == {"Insert", "Update"} \cup Transactional

VARIABLES
  dpc,          \* where the operation is
  op, objVec,   \* the operation and its argument
  row,          \* i, the next element of objVec
  res,          \* "ok" for a result of 0 or more, "error" for SQLITEDATABASE_ERROR
  m_pDb,        \* the connection: none, open, freed; closed by SQLite, not nulled
  pstmt,        \* the statement: null, compiled
  file, view,   \* the rows committed, and the rows the connection sees
  inTrans,      \* a transaction is open
  before,       \* history: file when the operation was called
  slips,        \* history: what the operation met: "compile", "step", "commit", "kill"
  closedTwice,  \* history: sqlite3_close was given a freed connection
  ops

dbVars == <<dpc, op, objVec, row, res, m_pDb, pstmt, file, view, inTrans, before,
            slips, closedTwice, ops>>

DbTypeOK ==
  /\ dpc \in {"idle", "open", "compile", "begin", "rows", "end", "close",
              "statement", "database"}
  /\ op \in Operations /\ objVec \in Vectors /\ row \in 1 .. Len(objVec) + 1
  /\ res \in {"ok", "error"} /\ m_pDb \in {"none", "open", "freed"}
  /\ pstmt \in {"null", "compiled"} /\ pstmt = "compiled" => m_pDb = "open"
  /\ file \subseteq RowKeys /\ view \subseteq RowKeys /\ before \subseteq RowKeys
  /\ inTrans \in BOOLEAN /\ (~inTrans => view = file)
  /\ slips \subseteq {"compile", "commit", "step", "kill"}
  /\ closedTwice \in BOOLEAN /\ ops \in 0 .. MaxOps

DbInit ==
  /\ dpc = "idle" /\ op = "Query" /\ objVec = <<>> /\ row = 1 /\ res = "ok"
  /\ m_pDb = "none" /\ pstmt = "null" /\ file \in SUBSET RowKeys /\ view = file
  /\ inTrans = FALSE /\ before = file /\ slips = {} /\ closedTwice = FALSE /\ ops = 0

\* A call of qry..., del..., ins... or upd...; an empty vector or condition
\* returns 0 at once.
call(o, v) ==
  /\ dpc = "idle" /\ ops < MaxOps
  /\ op' = o /\ objVec' = v /\ row' = 1 /\ ops' = ops + 1
  /\ dpc' = IF v = <<>> /\ o # "Query" THEN "idle" ELSE "open"
  /\ res' = IF o = "DelBySql" /\ v # <<>> THEN "error" ELSE "ok"
  /\ before' = file /\ slips' = {}
  /\ m_pDb' = "none" /\ pstmt' = "null" /\ closedTwice' = FALSE
  /\ UNCHANGED <<file, view, inTrans>>

\* SQLiteDatabase::open.
open ==
  /\ dpc = "open" /\ dpc' = "compile" /\ m_pDb' = "open"
  /\ UNCHANGED <<op, objVec, row, res, pstmt, file, view, inTrans, before, slips,
                 closedTwice, ops>>

\* SQLiteDatabase::compileStatement and isValid.  An invalid statement makes the
\* operation fail; a query returns no rows and the error text.
compileStatement(valid) ==
  /\ dpc = "compile"
  /\ IF valid
     THEN /\ pstmt' = "compiled" /\ UNCHANGED <<res, slips>>
          /\ dpc' = IF op \in Transactional THEN "begin" ELSE "rows"
     ELSE /\ pstmt' = "null" /\ res' = "error" /\ slips' = slips \cup {"compile"}
          /\ dpc' = "close"
  /\ UNCHANGED <<op, objVec, row, m_pDb, file, view, inTrans, before, closedTwice, ops>>

\* A plain "begin" takes no lock, so it meets none.
beginTransaction ==
  /\ dpc = "begin" /\ dpc' = "rows" /\ inTrans' = TRUE
  /\ UNCHANGED <<op, objVec, row, res, m_pDb, pstmt, file, view, before, slips,
                 closedTwice, ops>>

\* What one sqlite3_step makes of the rows the connection sees.
Stepped ==
  CASE op = "Insert"   -> view \cup {objVec[row]}
    [] op = "Delete"   -> view \ {objVec[row]}
    [] op = "DelBySql" -> view \ Range(objVec)
    [] OTHER           -> view

\* The key of an inserted row is unique.
Violates == op = "Insert" /\ objVec[row] \in view

\* One element of objVec is bound, stepped and the statement reset; a condition
\* is stepped once.  Outside a transaction a step commits.  A query reads a row,
\* and takes an error for the end of the rows (SQLiteResultSet::next).
step_row(locked) ==
  /\ dpc = "rows" /\ row <= Len(objVec)
  /\ LET failed == locked \/ Violates IN
     /\ IF failed THEN UNCHANGED <<view, file>>
        ELSE view' = Stepped /\ file' = IF inTrans THEN file ELSE Stepped
     /\ res' = IF op = "Query" THEN res ELSE IF failed THEN "error" ELSE "ok"
     /\ slips' = IF failed /\ op = "Query" THEN slips \cup {"step"} ELSE slips
     /\ row' = IF failed THEN row ELSE row + 1
     /\ dpc' = IF failed \/ op = "DelBySql" \/ row = Len(objVec) THEN "end" ELSE "rows"
  /\ UNCHANGED <<op, objVec, m_pDb, pstmt, inTrans, before, closedTwice, ops>>

\* A query without rows.
no_rows ==
  /\ dpc = "rows" /\ objVec = <<>> /\ dpc' = "end"
  /\ UNCHANGED <<op, objVec, row, res, m_pDb, pstmt, file, view, inTrans, before,
                 slips, closedTwice, ops>>

\* Mutant: the transaction is committed whatever the rows did.
end_transactionCommits(locked) ==
  /\ dpc = "end" /\ dpc' = "close"
  /\ IF inTrans /\ ~locked THEN file' = view /\ inTrans' = FALSE
     ELSE UNCHANGED <<file, inTrans>>
  /\ UNCHANGED <<op, objVec, row, res, m_pDb, pstmt, view, slips, before, closedTwice, ops>>

\* rollbackTransaction or commitTransaction, whose result is not looked at:
\* without a transaction both fail, and a commit that meets a lock fails and
\* leaves the transaction open.
end_transaction(locked) ==
  /\ dpc = "end" /\ dpc' = "close"
  /\ CASE ~inTrans -> UNCHANGED <<file, view, inTrans, slips>>
       [] inTrans /\ res = "error" ->
            view' = file /\ inTrans' = FALSE /\ UNCHANGED <<file, slips>>
       [] inTrans /\ res = "ok" /\ ~locked ->
            file' = view /\ inTrans' = FALSE /\ UNCHANGED <<view, slips>>
       [] inTrans /\ res = "ok" /\ locked ->
            slips' = slips \cup {"commit"} /\ UNCHANGED <<file, view, inTrans>>
  /\ UNCHANGED <<op, objVec, row, res, m_pDb, pstmt, before, closedTwice, ops>>

\* sqlite3_close refuses while a statement lives, and otherwise frees the
\* connection and rolls its transaction back.
sqlite3_close ==
  IF pstmt = "compiled" THEN UNCHANGED <<m_pDb, view, inTrans, closedTwice>>
  ELSE /\ m_pDb' = "freed" /\ view' = file /\ inTrans' = FALSE
       /\ closedTwice' = (closedTwice \/ m_pDb = "freed")

\* SQLiteDatabase::close: the pointer is kept.
close ==
  /\ dpc = "close" /\ dpc' = "statement" /\ sqlite3_close
  /\ UNCHANGED <<op, objVec, row, res, pstmt, file, before, slips, ops>>

\* ~SQLiteStatement: stmt is destroyed before db.
finalize ==
  /\ dpc = "statement" /\ dpc' = "database" /\ pstmt' = "null"
  /\ UNCHANGED <<op, objVec, row, res, m_pDb, file, view, inTrans, before, slips,
                 closedTwice, ops>>

\* ~SQLiteDatabase, and the operation returns res.
close_again ==
  /\ dpc = "database" /\ dpc' = "idle" /\ sqlite3_close
  /\ UNCHANGED <<op, objVec, row, res, pstmt, file, before, slips, ops>>

\* The process is killed and run again: what was not committed is gone.
kill ==
  /\ dpc # "idle" /\ dpc' = "idle" /\ slips' = slips \cup {"kill"}
  /\ view' = file /\ inTrans' = FALSE
  /\ m_pDb' = "freed" /\ pstmt' = "null" /\ closedTwice' = FALSE
  /\ UNCHANGED <<op, objVec, row, res, file, before, ops>>

DbNext ==
  \/ \E o \in Operations, v \in Vectors : call(o, v)
  \/ open \/ \E valid \in BOOLEAN : compileStatement(valid)
  \/ beginTransaction \/ \E locked \in BOOLEAN : step_row(locked)
  \/ no_rows \/ \E locked \in BOOLEAN : end_transaction(locked)
  \/ close \/ finalize \/ close_again \/ kill

-----------------------------------------------------------------------------
\* A deletion is all or nothing, whichever row fails and wherever the process is
\* killed.  One that returns an error deleted nothing, and one that returns
\* success deleted everything, unless its commit failed, which nobody looks at.
\* (dbopmacros.h, DeleteByVector; dboperatefunc.cpp, delBySql)
DeleteAtomic ==
  dpc = "idle" /\ op \in {"Delete", "DelBySql"} /\ objVec # <<>> =>
    /\ file \in {before, before \ Range(objVec)}
    /\ res = "ok" /\ slips = {} => file = before \ Range(objVec)
    /\ res = "error" /\ "kill" \notin slips => file = before

\* An insertion is row by row: it leaves the rows before the first that failed,
\* and all of them when it reports success.  (dbopmacros.h, InsertByVector)
InsertPrefix ==
  dpc = "idle" /\ op = "Insert" /\ objVec # <<>> =>
    /\ \E n \in 0 .. Len(objVec) : file = before \cup Range(SubSeq(objVec, 1, n))
    /\ res = "ok" /\ slips = {} => file = before \cup Range(objVec)

\* When an operation has returned SQLite has freed its connection, with the
\* statement finalized first, and it was closed a second time only if the
\* statement did not compile.  (SQLiteDatabase.cpp, close and the destructors)
ConnectionFreed ==
  dpc = "idle" /\ ops > 0 /\ objVec # <<>> =>
    /\ m_pDb = "freed" /\ pstmt = "null"
    /\ closedTwice => "compile" \in slips
=============================================================================
