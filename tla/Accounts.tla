------------------------------- MODULE Accounts -------------------------------
(***************************************************************************)
(* Accounts on one device: the users table, the directory user_<name> of    *)
(* each name, and the signed-in credentials in the preferences.  Rows are   *)
(* found by name, though only the e-mail is unique; texts are stored as     *)
(* typed and looked up trimmed, or the other way round; a new name is three *)
(* changes in a row; preferences reach the disk later than the table and    *)
(* the directories do; the sign-in screen stays under the chat screen, and  *)
(* an answer is saved for whoever is signed in when it ends.                *)
(* An account is an e-mail as it was typed, blanks included.                *)
(***************************************************************************)
EXTENDS Naturals, Sequences, FiniteSets

CONSTANTS
  Words,                     \* what a text is without the blanks around it
  Emails, Names, Passwords,  \* the texts typed into the fields
  MaxDeaths,                 \* bound: deaths of the process
  None                       \* no row, no directory, nobody, no name

Typed == [word : Words, padded : BOOLEAN]
Trim(t) == [t EXCEPT !.padded = FALSE]

Rows == [name : Names, pass : Passwords]
\* The preferences; "by" is the history's: whose account is signed in.
Sessions == [name : Names, pass : Passwords, by : Emails]
SignedOut == [name |-> None, pass |-> None, by |-> None]

ASSUME AccountsAssumption ==
  /\ MaxDeaths \in Nat
  /\ \A S \in {Emails, Names, Passwords} : S \subseteq Typed /\ \A t \in S : Trim(t) \in S
  /\ None \notin Emails \cup Names \cup Passwords \cup Rows
  /\ \A S \in SUBSET Emails : None # S

VARIABLES
  rows,     \* the users table: e-mail -> row or None
  dirs,     \* user_<name>: whose data it holds, or None
  session,  \* the credentials in the preferences
  disk,     \* what apply() has written of them
  task,     \* the screens on the stack: "main" (sign-in), "chat" above it
  asked,    \* the accounts with an answer on its way in this process
  todo,     \* what is left of the handler the main thread is in
  deaths,
  known,    \* history: name and password each account's owner stored last
  wrote,    \* history: the accounts with data
  loose,    \* history: what of the session's row was changed behind it
  stray,    \* history: data was written under another name than its account's
  clash,    \* history: a name was taken twice, padding apart
  half      \* history: the process died in mid-change

store == <<rows, dirs, disk>>
screen == <<session, task, asked>>
history == <<known, wrote, loose, stray, clash, half>>
vars == <<store, screen, todo, deaths, history>>

Init == /\ rows = [e \in Emails |-> None]
        /\ dirs = [n \in Names \cup {None} |-> None]
        /\ session = SignedOut
        /\ disk = SignedOut
        /\ task = {"main"}
        /\ asked = {}
        /\ todo = <<>>
        /\ deaths = 0
        /\ known = [e \in Emails |-> None]
        /\ wrote = {}
        /\ loose = {}
        /\ stray = FALSE
        /\ clash = FALSE
        /\ half = FALSE

Registered == {e \in Emails : rows[e] # None}
Named(n) == {e \in Registered : rows[e].name = n}
Alike(n) == {e \in Registered : Trim(rows[e].name) = Trim(n)}

Step(op, n) == [op |-> op, name |-> n, pass |-> None, by |-> None]
Save(n, p, e) == [op |-> "save", name |-> n, pass |-> p, by |-> e]

who == session.by

\* On the sign-in screen, which Back shows with the session still signed in;
\* and on the chat screen or the settings above it.
AtSignIn == todo = <<>> /\ task = {"main"}
In == todo = <<>> /\ "chat" \in task

-----------------------------------------------------------------------------
(* The sign-in screen. *)

\* The e-mail is looked up trimmed and stored as typed, so the table may have it
\* already, and then no row is added; the name need not be new.  The
\* credentials are those typed, row or no row.
SignUp(e, n, p) ==
  /\ AtSignIn
  /\ Trim(e) \notin Registered
  /\ IF e \in Registered
     THEN rows' = rows /\ known' = known /\ loose' = {"row"}
     ELSE /\ rows' = [rows EXCEPT ![e] = [name |-> n, pass |-> p]]
          /\ known' = [known EXCEPT ![e] = [name |-> n, pass |-> p]]
          /\ loose' = {}
  /\ todo' = <<Save(n, p, e)>>
  /\ task' = {"main", "chat"}
  /\ clash' = (clash \/ Alike(n) \ {e} # {})
  /\ UNCHANGED <<dirs, disk, session, asked, deaths, wrote, stray, half>>

\* checkUser: some row has the name and the password.
CheckUser(n, p) == \E e \in Named(n) : rows[e].pass = p

\* The owner of e signs in with what was stored last, trimmed.
SignIn(e) ==
  /\ AtSignIn
  /\ e \in Registered
  /\ LET n == Trim(known[e].name)
         p == Trim(known[e].pass) IN
       /\ CheckUser(n, p)
       /\ todo' = <<Save(n, p, e)>>
  /\ task' = {"main", "chat"}
  /\ loose' = {}
  /\ UNCHANGED <<store, session, asked, deaths, known, wrote, stray, clash, half>>

\* attemptReset: the row of the trimmed e-mail, no question asked, and nothing
\* done to a session.
ResetPassword(e, p) ==
  /\ AtSignIn
  /\ e = Trim(e) /\ p = Trim(p)
  /\ e \in Registered
  /\ rows' = [rows EXCEPT ![e].pass = p]
  /\ known' = [known EXCEPT ![e].pass = p]
  /\ loose' = loose \cup IF e = who THEN {"password"} ELSE {}
  /\ UNCHANGED <<dirs, disk, screen, todo, deaths, wrote, stray, clash, half>>

\* MainActivity.onCreate: who is signed in goes straight to the chat screen.
Relaunch ==
  /\ AtSignIn
  /\ session # SignedOut
  /\ task' = {"chat"}
  /\ UNCHANGED <<store, session, asked, todo, deaths, history>>

-----------------------------------------------------------------------------
(* The chat screen and the settings: everything is found by the session's
   name. *)

\* The sign-in screen was never finished.
Back ==
  /\ In
  /\ "main" \in task
  /\ task' = {"main"}
  /\ UNCHANGED <<store, session, asked, todo, deaths, history>>

\* Data of the account e go under the name in the preferences, user_null if
\* there is none.
Write(e) ==
  LET n == session.name IN
  /\ dirs' = [dirs EXCEPT ![n] = {e} \cup IF @ = None THEN {} ELSE @]
  /\ wrote' = wrote \cup {e}
  /\ stray' = (stray \/ e \notin Named(n))

CreateChat ==
  /\ In
  /\ Write(who)
  /\ UNCHANGED <<rows, disk, screen, todo, deaths, known, loose, clash, half>>

Ask ==
  /\ In
  /\ asked' = asked \cup {who}
  /\ UNCHANGED <<store, session, task, todo, deaths, history>>

\* finalizeGeneration, for the last time or not: whatever screen is up and
\* whoever is signed in.
FinishAnswer(e) ==
  /\ todo = <<>>
  /\ e \in asked
  /\ \E A \in {asked, asked \ {e}} : asked' = A
  /\ Write(e)
  /\ UNCHANGED <<rows, disk, session, task, todo, deaths, known, loose, clash, half>>

\* Mutant: every row is updated.
Selected_All(n) == Registered

\* The rows a WHERE Username = ? selects.
Selected(n) == Named(n)

\* saveNewUsername: "Taken" is what an update without a row says.
NewUsername(n) ==
  /\ In
  /\ n = Trim(n)
  /\ n # session.name
  /\ Selected(session.name) # {}
  /\ rows' = [e \in Emails |-> IF e \in Selected(session.name)
                               THEN [rows[e] EXCEPT !.name = n] ELSE rows[e]]
  /\ known' = [e \in Emails |-> IF e = who /\ e \in Registered
                                THEN [known[e] EXCEPT !.name = n] ELSE known[e]]
  /\ todo' = <<Step("rename", n), Save(n, session.pass, who)>>
  /\ clash' = (clash \/ Alike(n) \ Selected(session.name) # {})
  /\ UNCHANGED <<dirs, disk, screen, deaths, wrote, loose, stray, half>>

\* Mutant: the preferences keep the old password.
AfterNewPassword_Nothing(p) == <<>>

AfterNewPassword(p) == <<Save(session.name, p, who)>>

\* saveNewPassword: the old and the new one are trimmed.
NewPassword(old, p) ==
  /\ In
  /\ CheckUser(session.name, Trim(old))
  /\ p = Trim(p)
  /\ rows' = [e \in Emails |-> IF e \in Selected(session.name)
                               THEN [rows[e] EXCEPT !.pass = p] ELSE rows[e]]
  /\ known' = [e \in Emails |-> IF e = who /\ e \in Registered
                                THEN [known[e] EXCEPT !.pass = p] ELSE known[e]]
  /\ todo' = AfterNewPassword(p)
  /\ loose' = loose \ {"password"}
  /\ UNCHANGED <<dirs, disk, screen, deaths, wrote, stray, clash, half>>

DeleteHistory ==
  /\ In
  /\ todo' = <<Step("deleteDir", session.name)>>
  /\ UNCHANGED <<store, screen, deaths, history>>

\* Mutant: the directory stays.
AccountDeletion_KeepsDir(n) == <<Step("deleteRow", n)>>

\* btnDeleteAccount: the directory, the rows, then a click on Log Out, whose
\* dialog may be dismissed: LogOut is an action of its own, and until then the
\* session stays.
AccountDeletion(n) == <<Step("deleteDir", n), Step("deleteRow", n)>>

DeleteAccount ==
  /\ In
  /\ todo' = AccountDeletion(session.name)
  /\ UNCHANGED <<store, screen, deaths, history>>

\* The other screens go; an answer on its way does not.
LogOut ==
  /\ In
  /\ todo' = <<Step("clear", session.name)>>
  /\ task' = {"main"}
  /\ UNCHANGED <<store, session, asked, deaths, history>>

-----------------------------------------------------------------------------
(* The steps of a handler. *)

Next1(op) == todo # <<>> /\ Head(todo).op = op /\ todo' = Tail(todo)

SaveCredentials ==
  /\ Next1("save")
  /\ session' = [name |-> Head(todo).name, pass |-> Head(todo).pass, by |-> Head(todo).by]
  /\ UNCHANGED <<store, task, asked, deaths, history>>

\* clearCardensials.
ClearCredentials ==
  /\ Next1("clear")
  /\ session' = SignedOut
  /\ loose' = {}
  /\ UNCHANGED <<store, task, asked, deaths, known, wrote, stray, clash, half>>

\* Mutant: the rename is left out.
Renamed_Not(old, new) == dirs

\* renameTo: onto a name without data, or not at all; the result is ignored.
Renamed(old, new) ==
  IF dirs[old] # None /\ dirs[new] \in {None, {}}
  THEN [dirs EXCEPT ![new] = dirs[old], ![old] = None] ELSE dirs

RenameDirectory ==
  /\ Next1("rename")
  /\ dirs' = Renamed(session.name, Head(todo).name)
  /\ UNCHANGED <<rows, disk, screen, deaths, history>>

DeleteDirectory ==
  /\ Next1("deleteDir")
  /\ dirs' = [dirs EXCEPT ![Head(todo).name] = None]
  /\ wrote' = wrote \ {who}
  /\ UNCHANGED <<rows, disk, screen, deaths, known, loose, stray, clash, half>>

DeleteRows ==
  /\ Next1("deleteRow")
  /\ rows' = [e \in Emails |-> IF e \in Selected(Head(todo).name) THEN None ELSE rows[e]]
  /\ known' = [e \in Emails |-> IF e \in Selected(Head(todo).name) THEN None ELSE known[e]]
  /\ loose' = loose \cup {"row"}
  /\ UNCHANGED <<dirs, disk, screen, deaths, wrote, stray, clash, half>>

\* apply() reaches the disk.
Flush ==
  /\ disk # session
  /\ disk' = session
  /\ UNCHANGED <<rows, dirs, screen, todo, deaths, history>>

\* The process dies and is started again, with the preferences on disk; in
\* the middle of a deletion the directory may be left without its files.
Die ==
  /\ deaths < MaxDeaths
  /\ deaths' = deaths + 1
  /\ todo' = <<>>
  /\ asked' = {}
  /\ session' = disk
  /\ task' = IF disk = SignedOut THEN {"main"} ELSE {"chat"}
  /\ half' = (half \/ todo # <<>> \/ disk # session)
  /\ \/ UNCHANGED dirs
     \/ /\ todo # <<>>
        /\ Head(todo).op = "deleteDir"
        /\ dirs[Head(todo).name] # None
        /\ dirs' = [dirs EXCEPT ![Head(todo).name] = {}]
  /\ UNCHANGED <<rows, disk, known, wrote, loose, stray, clash>>

SignInScreen ==
  \/ \E e \in Emails : \/ SignIn(e)
                       \/ \E p \in Passwords : ResetPassword(e, p)
                       \/ \E n \in Names, p \in Passwords : SignUp(e, n, p)
  \/ Relaunch

ChatScreen ==
  \/ \E n \in Names : NewUsername(n)
  \/ \E old, p \in Passwords : NewPassword(old, p)
  \/ CreateChat \/ Ask \/ DeleteHistory \/ DeleteAccount \/ LogOut \/ Back

Answers == \E e \in Emails : FinishAnswer(e)

Handler == \/ SaveCredentials \/ ClearCredentials \/ RenameDirectory
           \/ DeleteDirectory \/ DeleteRows

Next == SignInScreen \/ ChatScreen \/ Answers \/ Handler \/ Flush \/ Die

Spec == Init /\ [][Next]_vars

-----------------------------------------------------------------------------
(* Properties *)

TypeOK ==
  /\ rows \in [Emails -> Rows \cup {None}]
  /\ DOMAIN dirs = Names \cup {None}
  /\ \A n \in DOMAIN dirs : dirs[n] # None => dirs[n] \subseteq Emails
  /\ session \in Sessions \cup {SignedOut}
  /\ disk \in Sessions \cup {SignedOut}
  /\ task \in {{"main"}, {"main", "chat"}, {"chat"}}
  /\ asked \subseteq Emails
  /\ \A i \in DOMAIN todo : todo[i].op \in {"save", "clear", "rename", "deleteDir", "deleteRow"}
  /\ deaths \in 0..MaxDeaths
  /\ known \in [Emails -> Rows \cup {None}]
  /\ wrote \subseteq Emails
  /\ loose \subseteq {"row", "password"}
  /\ stray \in BOOLEAN /\ clash \in BOOLEAN /\ half \in BOOLEAN

\* No name was ever taken twice (padding apart), and no death came between the
\* steps of a change.
Orderly == ~clash /\ ~half

\* Nothing was written for an account while another's name, or none, or one
\* without its row was in the preferences.
Tidy == Orderly /\ ~stray

\* Who is signed in sees data of no other account, not even of an earlier one
\* of the same name (deleteUserDirectory, renameUserDirectory, loadChats).
SeesOwnData == Tidy /\ In =>
  dirs[session.name] = None \/ dirs[session.name] \subseteq {who}

\* What an account's owner saved and did not delete is in the directory of the
\* name the account's row has, through any changes of names, sign-outs and
\* restarts.
DataFollowsName == Tidy /\ todo = <<>> =>
  \A e \in wrote : /\ e \in Registered
                   /\ dirs[rows[e].name] # None
                   /\ e \in dirs[rows[e].name]

\* A session has the row of its own account, under its name and with its
\* password: the row is missing only after a sign-up that stored none or after
\* the account was deleted, the password differs only after a reset behind the
\* session, and a new password in the settings mends that.
SessionHasRow == Orderly /\ In /\ "row" \notin loose =>
  /\ who \in Named(session.name)
  /\ rows[who].pass = session.pass \/ "password" \in loose

\* The owner of an account signs in with the name and the password stored
\* last, whatever was done to other accounts, unless one of them has blanks
\* around it.
CanSignIn == Orderly /\ todo = <<>> =>
  \A e \in Registered : ~known[e].name.padded /\ ~known[e].pass.padded
                         => CheckUser(known[e].name, known[e].pass)
=============================================================================
