----------------------------- MODULE RelayStore -----------------------------
(***************************************************************************)
(* The SQLite tables of db/schema.go, as the relay package uses them.      *)
(*                                                                         *)
(* A table is a set of rows.  SQLite runs one statement at a time, so every *)
(* statement is atomic; the server opens no transaction, so nothing larger *)
(* than a statement is.  The tables have no UNIQUE constraint but the      *)
(* primary keys of mailboxes and nameplates, and foreign keys are declared *)
(* but not enforced (SQLite's default).                                    *)
(*                                                                         *)
(* nameplate_sides and mailbox_sides may hold several equal rows (nothing  *)
(* forbids it), and COUNT( * ) counts them all, so a row carries `by`, the *)
(* connection that inserted it.  A connection inserts a row only after a   *)
(* SELECT that found none of its key, so (key, by) is unique.              *)
(*                                                                         *)
(* Columns nothing reads are left out: for_nameplate, added, request_id,   *)
(* mood, and opened, which no reachable statement ever sets to false (see  *)
(* CloseSelect in module Application).                                     *)
(***************************************************************************)
EXTENDS Naturals, FiniteSets

CONSTANTS
  Conns,       \* websocket connections; one that left never comes back
  AppIDs,      \* application ids a client can bind to
  Sides,       \* side strings clients choose
  Names,       \* nameplate names
  MailboxIDs,  \* mailbox ids, generated or chosen by a client
  Msgs,        \* messages clients add
  None         \* the empty string and the nil pointer

\* HandleClaim stores the nameplate's name where a side is expected.
StoredSides == Sides \cup Names

\* A mailbox id is never the text of a Unix time, so no row's key is a clock.
\* Generated ids are not numbers; a client may open one that is (client.go:443),
\* and the models leave such a client out.
ASSUME StoreAssumption ==
  /\ IsFiniteSet(Conns)
  /\ None \notin Conns \cup AppIDs \cup Sides \cup Names \cup MailboxIDs \cup Msgs
  /\ MailboxIDs \cap Nat = {}

VARIABLES
  mailboxes,       \* [id, app, updated]; id is the primary key
  mailboxSides,    \* [mailbox, side, by]
  messages,        \* [app, mailbox, side, msg]
  nameplates,      \* [id, app, name, mailbox]; id is AUTOINCREMENT
  nameplateSides,  \* [np, side, claimed, by]
  npSeq,           \* the last nameplate id given out
  now              \* wall clock, in the unit the rows are compared by

store == <<mailboxes, mailboxSides, messages, nameplates, nameplateSides,
           npSeq, now>>

StoreTypeOK ==
  /\ mailboxes \subseteq [id : MailboxIDs, app : AppIDs, updated : Nat]
  /\ mailboxSides \subseteq
       [mailbox : MailboxIDs, side : StoredSides, by : Conns]
  /\ messages \subseteq
       [app : AppIDs, mailbox : MailboxIDs, side : Sides, msg : Msgs]
  /\ nameplates \subseteq
       [id : Nat, app : AppIDs, name : Names, mailbox : MailboxIDs]
  /\ nameplateSides \subseteq
       [np : Nat, side : StoredSides, claimed : BOOLEAN, by : Conns]
  /\ npSeq \in Nat
  /\ now \in Nat

StoreInit ==
  /\ mailboxes = {}
  /\ mailboxSides = {}
  /\ messages = {}
  /\ nameplates = {}
  /\ nameplateSides = {}
  /\ npSeq = 0
  /\ now = 0

-----------------------------------------------------------------------------
(* Queries. *)

MailboxRows(app, id) == {r \in mailboxes : r.app = app /\ r.id = id}
MailboxSideRows(id) == {r \in mailboxSides : r.mailbox = id}
NameplateRows(app, name) == {r \in nameplates : r.app = app /\ r.name = name}
NameplateSideRows(np) == {r \in nameplateSides : r.np = np}

\* QueryRow takes the first row; equal index keys come in rowid order.
FirstNameplate(rows) == {r \in rows : \A q \in rows : r.id <= q.id}

(***************************************************************************)
(* SQLite gives a `$N` parameter the next free number where it first       *)
(* occurs, whatever N is, and go-sqlite3 binds the k-th argument to the    *)
(* parameter numbered k.  `order` lists the N in order of occurrence, and  *)
(* Arg is the argument that ends up in $n.                                 *)
(***************************************************************************)
Arg(order, args, n) == args[CHOOSE k \in DOMAIN order : order[k] = n]

\* UPDATE mailboxes SET updated=$2 WHERE id=$1, with arguments id, now.
Touched(id) ==
  LET key == Arg(<<2, 1>>, <<id, now>>, 1)
      val == Arg(<<2, 1>>, <<id, now>>, 2)
  IN  {IF r.id = key THEN [r EXCEPT !.updated = val] ELSE r : r \in mailboxes}

\* SELECT * FROM mailboxes WHERE app_id=$2 AND id=$1, with arguments id, app.
RowsToClose(app, id) ==
  MailboxRows(Arg(<<2, 1>>, <<id, app>>, 2), Arg(<<2, 1>>, <<id, app>>, 1))

=============================================================================
