-------------------------------- MODULE Tui --------------------------------
(***************************************************************************)
(* The terminal client (cmd/cli/main.go): bubbletea calls Update with one  *)
(* message at a time, a key or the reply to a request.  A request runs in  *)
(* a goroutine of its own, so replies come in any order and at any time,   *)
(* and keys are handled while the screen shows nothing but "cargando...".  *)
(*                                                                         *)
(* What is typed into the login fields and the line selected in a table    *)
(* are left out: no guard reads them.                                      *)
(***************************************************************************)
EXTENDS Naturals

CONSTANTS
  Stock,        \* the tables of which the server has rows
  MaxPending    \* bound: requests of one kind under way at once

Tables == {"nodes", "snapshots", "events", "policies"}
Screens == Tables \cup {"login", "menu"}
Requests == Tables \cup {"login"}

ASSUME TuiAssumption == Stock \subseteq Tables /\ MaxPending \in Nat \ {0}

\* What a table shows: it has not been built yet, rows of the server, or the
\* one line that says there are none ("Sin nodos").
Contents == {"unbuilt", "rows", "placeholder"}

VARIABLES
  running,   \* the program has not quit
  screen,
  loggedIn,  \* token # ""
  loading,
  err,       \* the footer shows an error
  cursor,    \* the selected menu item
  focused,   \* the login field with the focus
  table,     \* per table: what it shows
  pending    \* per kind of request: how many are under way

vars == <<running, screen, loggedIn, loading, err, cursor, focused, table,
          pending>>

\* menuItems: four tables and "Salir".
Quit == 4
MenuItem == [i \in 0 .. 3 |->
  CASE i = 0 -> "nodes" [] i = 1 -> "snapshots" [] i = 2 -> "events" [] i = 3 -> "policies"]

----------------------------------------------------------------------------
(* Requests.                                                               *)

\* Update returns a command: bubbletea starts its goroutine.
Send(r) ==
  /\ pending[r] < MaxPending
  /\ pending' = [pending EXCEPT ![r] = @ + 1]
  /\ loading' = TRUE

\* The reply of a request of kind r reaches Update.
Reply(r) ==
  /\ running /\ pending[r] > 0
  /\ pending' = [pending EXCEPT ![r] = @ - 1]
  /\ loading' = FALSE

\* Seeded bug: an error leaves "cargando..." on the screen.
ErrMsgKeepsLoading(r) ==
  /\ running /\ pending[r] > 0
  /\ pending' = [pending EXCEPT ![r] = @ - 1]
  /\ err' = TRUE
  /\ UNCHANGED <<running, screen, loggedIn, loading, cursor, focused, table>>

\* No connection, or a login that was refused.
ErrMsg(r) ==
  /\ Reply(r)
  /\ err' = TRUE
  /\ UNCHANGED <<running, screen, loggedIn, cursor, focused, table>>

LoginDone ==
  /\ Reply("login")
  /\ loggedIn' = TRUE /\ screen' = "menu" /\ cursor' = 0 /\ err' = FALSE
  /\ UNCHANGED <<running, focused, table>>

\* fetchNodes and its three siblings.  apiGet never looks at the status of the
\* answer: the body of a refusal (401, 429, 500) has no rows either, and no
\* rows are replaced by the placeholder line.
Fetched(t) == {"placeholder"} \cup (IF t \in Stock THEN {"rows"} ELSE {})

TableDone(t) ==
  /\ Reply(t)
  /\ \E shown \in Fetched(t) : table' = [table EXCEPT ![t] = shown]
  /\ screen' = t
  /\ UNCHANGED <<running, loggedIn, err, cursor, focused>>

----------------------------------------------------------------------------
(* Keys.                                                                   *)

\* Ctrl-C on every screen; Esc on the login screen and in the menu.
QuitKey ==
  /\ running
  /\ running' = FALSE
  /\ UNCHANGED <<screen, loggedIn, loading, err, cursor, focused, table, pending>>

\* updateLogin.
NextField ==
  /\ running /\ screen = "login"
  /\ focused' = (focused + 1) % 2
  /\ UNCHANGED <<running, screen, loggedIn, loading, err, cursor, table, pending>>

LoginEnter ==
  /\ running /\ screen = "login"
  /\ \/ /\ focused = 0 /\ focused' = 1
        /\ UNCHANGED <<loading, err, pending>>
     \/ /\ focused = 1 /\ Send("login") /\ err' = FALSE
        /\ UNCHANGED focused
  /\ UNCHANGED <<running, screen, loggedIn, cursor, table>>

\* updateMenu.
MenuMove ==
  /\ running /\ screen = "menu"
  /\ \/ cursor > 0 /\ cursor' = cursor - 1
     \/ cursor < Quit /\ cursor' = cursor + 1
  /\ UNCHANGED <<running, screen, loggedIn, loading, err, focused, table, pending>>

\* Seeded bug: the screen changes before the data is there.
MenuEnterAtOnce ==
  /\ running /\ screen = "menu"
  /\ \/ /\ cursor # Quit /\ Send(MenuItem[cursor])
        /\ screen' = MenuItem[cursor]
        /\ UNCHANGED running
     \/ /\ cursor = Quit /\ running' = FALSE
        /\ UNCHANGED <<loading, pending, screen>>
  /\ UNCHANGED <<loggedIn, err, cursor, focused, table>>

MenuEnter ==
  /\ running /\ screen = "menu"
  /\ \/ /\ cursor # Quit /\ Send(MenuItem[cursor])
        /\ UNCHANGED running
     \/ /\ cursor = Quit /\ running' = FALSE
        /\ UNCHANGED <<loading, pending>>
  /\ UNCHANGED <<screen, loggedIn, err, cursor, focused, table>>

\* updateTable: Esc and Backspace.
Back ==
  /\ running /\ screen \in Tables
  /\ screen' = "menu" /\ cursor' = 0
  /\ UNCHANGED <<running, loggedIn, loading, err, focused, table, pending>>

----------------------------------------------------------------------------
Init ==
  /\ running = TRUE /\ screen = "login" /\ loggedIn = FALSE
  /\ loading = FALSE /\ err = FALSE /\ cursor = 0 /\ focused = 0
  /\ table = [t \in Tables |-> "unbuilt"]
  /\ pending = [r \in Requests |-> 0]

Key == QuitKey \/ NextField \/ LoginEnter \/ MenuMove \/ MenuEnter \/ Back
Answer(r) == ErrMsg(r) \/ (r = "login" /\ LoginDone) \/ (r \in Tables /\ TableDone(r))

Next == Key \/ \E r \in Requests : Answer(r)

Spec == Init /\ [][Next]_vars

\* Every request ends: the server answers each one, or the connection breaks.
Fairness == \A r \in Requests : WF_vars(Answer(r))
LiveSpec == Spec /\ Fairness

----------------------------------------------------------------------------
(* Properties.                                                             *)

\* What is drawn.
View == IF loading THEN "cargando" ELSE screen

TypeOK ==
  /\ running \in BOOLEAN /\ loggedIn \in BOOLEAN /\ loading \in BOOLEAN /\ err \in BOOLEAN
  /\ screen \in Screens
  /\ cursor \in 0 .. Quit /\ focused \in 0 .. 1
  /\ table \in [Tables -> Contents]
  /\ pending \in [Requests -> 0 .. MaxPending]

\* View draws nothing but "cargando..." while loading is set.  Requests overlap
\* (Enter is handled while loading) and any reply resets the flag; still it
\* never stays set once the last request is over.
LoadingMeansPending ==
  running /\ View = "cargando" => \E r \in Requests : pending[r] > 0

\* The screen keeps to what has been earned, whatever replies come late: the
\* login screen exactly until a token has come, no data request without one,
\* and no table before its data has arrived.
ScreenIsEarned ==
  /\ screen = "login" <=> ~loggedIn
  /\ \A t \in Tables : pending[t] > 0 \/ table[t] # "unbuilt" => loggedIn
  /\ screen \in Tables => table[screen] # "unbuilt"

\* "cargando..." always goes away, and so do requests that overlap.
LoadingEnds == View = "cargando" ~> (View = screen \/ ~running)

=============================================================================
