---------------------------- MODULE Accounts_proofs ----------------------------
(***************************************************************************)
(* What holds of the accounts for any number of e-mails, names, passwords    *)
(* and deaths: of table and session as long as no name is taken twice and no *)
(* change is torn, of the directories also as long as nothing was written    *)
(* under another name than its account's.                                    *)
(***************************************************************************)
EXTENDS Accounts, TLAPS

Types == /\ rows \in [Emails -> Rows \cup {None}]
         /\ dirs \in [Names \cup {None} -> (SUBSET Emails) \cup {None}]
         /\ session \in Sessions \cup {SignedOut}
         /\ disk \in Sessions \cup {SignedOut}
         /\ task \in {{"main"}, {"main", "chat"}, {"chat"}}
         /\ asked \subseteq Emails
         /\ DOMAIN known = Emails /\ known = [e \in Emails |-> known[e]]
         /\ wrote \subseteq Emails

\* No two rows have a name in common, padding apart.
NamesApart == \A e, f \in Registered :
  Trim(rows[e].name) = Trim(rows[f].name) => e = f

RowsKnown == \A e \in Registered : known[e] = rows[e]

\* No other account has the name n, and the row of e has it with the password p
\* but for what was changed behind a session.
Held(n, p, e) ==
  /\ n \in Names /\ p \in Passwords /\ e \in Emails
  /\ Named(n) \subseteq {e}
  /\ \/ "row" \in loose
     \/ /\ e \in Named(n)
        /\ rows[e].pass = p \/ "password" \in loose

SessionHeld == session # SignedOut /\ Held(session.name, session.pass, who)

(* What the main thread may be in the middle of. *)
Resting == todo = <<>> /\ \/ session = SignedOut /\ "chat" \notin task
                          \/ SessionHeld

Saving == \E e \in Emails, n \in Names, p \in Passwords :
  todo = <<Save(n, p, e)>> /\ Held(n, p, e)

Renaming == \E n \in Names :
  /\ todo = <<Step("rename", n), Save(n, session.pass, who)>>
  /\ session # SignedOut /\ session.name # n
  /\ Named(session.name) = {}
  /\ who \in Named(n)
  /\ Held(n, session.pass, who)

Deleting == SessionHeld /\ todo \in {<<Step("deleteDir", session.name)>>,
                                     AccountDeletion(session.name),
                                     <<Step("deleteRow", session.name)>>}

Clearing == todo = <<Step("clear", session.name)>> /\ task = {"main"}

Doing == Resting \/ Saving \/ Renaming \/ Deleting \/ Clearing

\* While all is orderly.
OrderlyInv == NamesApart /\ RowsKnown /\ Doing

\* The handler has changed the row's name and not yet the directory's.
Moving == todo # <<>> /\ Head(todo).op = "rename"

\* The name under which the data of e is kept.
DirOf(e) == IF Moving /\ e = who THEN session.name ELSE rows[e].name

DataPlaced == \A e \in wrote : /\ e \in Registered
                               /\ dirs[DirOf(e)] # None
                               /\ e \in dirs[DirOf(e)]

\* A directory with data is of one account, which has a row.
DataOwned == \A n \in Names \cup {None} : dirs[n] # None =>
  \E e \in Registered : DirOf(e) = n /\ dirs[n] = {e}

\* Rows are deleted after their directory.
Emptied == todo # <<>> /\ Head(todo).op = "deleteRow" => dirs[Head(todo).name] = None

\* While nothing is astray either.
TidyInv == DataPlaced /\ DataOwned /\ Emptied

AccountsInv == /\ Orderly => Types /\ OrderlyInv
               /\ Tidy => TidyInv

-----------------------------------------------------------------------------
\* A registered account has a row, and its fields.
LEMMA RowFields ==
  ASSUME Types, NEW e \in Registered
  PROVE  /\ e \in Emails /\ rows[e] \in Rows
         /\ rows[e].name \in Names /\ rows[e].pass \in Passwords
         /\ rows[e] = [name |-> rows[e].name, pass |-> rows[e].pass]
  BY DEF Types, Registered, Rows

LEMMA RowIsNotNone == \A n \in Names, p \in Passwords :
  [name |-> n, pass |-> p] \in Rows /\ [name |-> n, pass |-> p] # None
  BY AccountsAssumption DEF Rows

\* Names, passwords and e-mails without their blanks.
LEMMA Trimmed ==
  /\ \A n \in Names : Trim(n) \in Names /\ Trim(Trim(n)) = Trim(n)
  /\ \A p \in Passwords : Trim(p) \in Passwords
<1>1. Names \subseteq Typed /\ \A n \in Names : Trim(n) \in Names
  BY AccountsAssumption
<1>2. \A p \in Passwords : Trim(p) \in Passwords
  BY AccountsAssumption
<1>3. \A t \in Typed : Trim(Trim(t)) = Trim(t)
  BY DEF Typed, Trim
<1> QED
  BY <1>1, <1>2, <1>3

\* Names without padding differences are names.
LEMMA SameName ==
  ASSUME NamesApart, NEW e \in Registered, NEW f \in Registered, rows[e].name = rows[f].name
  PROVE  e = f
  BY DEF NamesApart

\* A session and its fields.
LEMMA SessionFields ==
  ASSUME Types, session # SignedOut
  PROVE  /\ session \in Sessions /\ session.name \in Names /\ session.pass \in Passwords
         /\ session.by \in Emails /\ who \in Emails
  BY DEF Types, Sessions, who

\* On the chat screen somebody is signed in.
LEMMA Signed ==
  ASSUME OrderlyInv, In
  PROVE  todo = <<>> /\ SessionHeld
  BY DEF OrderlyInv, In, Doing, Resting, Saving, Renaming, Deleting, Clearing, AccountDeletion

\* At rest nobody is signed in or the session is held.
LEMMA Rested ==
  ASSUME OrderlyInv, todo = <<>>
  PROVE  session # SignedOut => SessionHeld
  BY DEF OrderlyInv, Doing, Resting, Saving, Renaming, Deleting, Clearing, AccountDeletion

\* What the first step left to do says of what the main thread is in.
LEMMA Heads ==
  ASSUME Doing, todo # <<>>
  PROVE  /\ Head(todo).op = "save" => Saving
         /\ Head(todo).op = "rename" => Renaming
         /\ Head(todo).op \in {"deleteDir", "deleteRow"} => Deleting
         /\ Head(todo).op = "clear" => Clearing
  BY DEF Doing, Resting, Saving, Renaming, Deleting, Clearing, AccountDeletion, Step, Save

\* What is held stays held when table and history do not change.
LEMMA StaysHeld ==
  ASSUME rows' = rows, loose' = loose, NEW n, NEW p, NEW e, Held(n, p, e)
  PROVE  Held(n, p, e)'
  BY DEF Held, Named, Registered

\* Steps of the screens that change neither table nor session.
LEMMA ScreenStep ==
  ASSUME OrderlyInv, todo = <<>>, UNCHANGED <<rows, known, session, loose, todo>>,
         session # SignedOut \/ task' = task
  PROVE  OrderlyInv'
<1>1. NamesApart' /\ RowsKnown'
  BY DEF OrderlyInv, NamesApart, RowsKnown, Registered
<1>2. CASE session = SignedOut
  <2>1. "chat" \notin task
    BY <1>2 DEF OrderlyInv, Doing, Resting, Saving, Renaming, Deleting, Clearing,
                AccountDeletion, SessionHeld
  <2> QED
    BY <1>1, <1>2, <2>1 DEF OrderlyInv, Doing, Resting
<1>3. CASE session # SignedOut
  <2>1. SessionHeld'
    BY <1>3, Rested, StaysHeld DEF SessionHeld, who
  <2> QED
    BY <1>1, <2>1 DEF OrderlyInv, Doing, Resting
<1> QED
  BY <1>2, <1>3

-----------------------------------------------------------------------------
(* Table and session. *)

LEMMA SignUpRows ==
  ASSUME Types, OrderlyInv, NEW e \in Emails, NEW n \in Names, NEW p \in Passwords,
         SignUp(e, n, p), ~clash'
  PROVE  OrderlyInv'
<1>1. todo' = <<Save(n, p, e)>> /\ Alike(n) \subseteq {e}
  BY DEF SignUp
<1>2. Named(n) \subseteq {e}
  BY <1>1 DEF Named, Alike
<1>3. CASE e \in Registered
  <2>1. rows' = rows /\ known' = known /\ loose' = {"row"}
    BY <1>3 DEF SignUp
  <2>2. NamesApart' /\ RowsKnown'
    BY <2>1 DEF OrderlyInv, NamesApart, RowsKnown, Registered
  <2>3. Held(n, p, e)'
    BY <1>2, <2>1 DEF Held, Named, Registered
  <2> QED
    BY <1>1, <2>2, <2>3 DEF OrderlyInv, Doing, Saving
<1>4. CASE e \notin Registered
  <2>1. /\ rows' = [rows EXCEPT ![e] = [name |-> n, pass |-> p]]
        /\ known' = [known EXCEPT ![e] = [name |-> n, pass |-> p]]
    BY <1>4 DEF SignUp
  <2>2. /\ Registered' = Registered \cup {e}
        /\ rows'[e] = [name |-> n, pass |-> p] /\ known'[e] = rows'[e]
        /\ \A f \in Registered : f # e /\ rows'[f] = rows[f] /\ known'[f] = known[f]
    BY <1>4, <2>1, RowIsNotNone DEF Registered, Types
  <2>3. NamesApart'
    BY <1>1, <2>2 DEF NamesApart, OrderlyInv, Alike
  <2>4. RowsKnown'
    BY <2>2 DEF RowsKnown, OrderlyInv
  <2>5. Held(n, p, e)'
    BY <1>2, <2>2 DEF Held, Named
  <2> QED
    BY <1>1, <2>3, <2>4, <2>5 DEF OrderlyInv, Doing, Saving
<1> QED
  BY <1>3, <1>4

LEMMA SignInRows ==
  ASSUME Types, OrderlyInv, NEW e \in Emails, SignIn(e)
  PROVE  OrderlyInv'
<1> DEFINE n == Trim(known[e].name)
           p == Trim(known[e].pass)
<1>1. /\ e \in Registered
      /\ CheckUser(n, p)
      /\ todo' = <<Save(n, p, e)>>
      /\ rows' = rows /\ known' = known /\ loose' = {}
  BY DEF SignIn, store
<1>2. PICK f \in Named(n) : rows[f].pass = p
  BY <1>1 DEF CheckUser
<1>3. f \in Registered /\ rows[f].name = n
  BY <1>2 DEF Named
<1>4. known[e] = rows[e] /\ rows[e].name \in Names /\ rows[e].pass \in Passwords
  BY <1>1, RowFields DEF OrderlyInv, RowsKnown
<1>5. n \in Names /\ p \in Passwords /\ Trim(n) = Trim(rows[e].name)
  BY <1>4, Trimmed
<1>6. f = e
  BY <1>1, <1>3, <1>5 DEF OrderlyInv, NamesApart
<1>7. Named(n) \subseteq {e}
  BY <1>3, <1>6, SameName DEF Named, OrderlyInv
<1>8. Held(n, p, e)'
  BY <1>1, <1>2, <1>3, <1>5, <1>6, <1>7 DEF Held, Named, Registered
<1>9. Saving'
  BY <1>1, <1>5, <1>8 DEF Saving
<1> QED
  BY <1>1, <1>9 DEF OrderlyInv, Doing, NamesApart, RowsKnown, Registered

LEMMA ResetRows ==
  ASSUME Types, OrderlyInv, NEW e \in Emails, NEW p \in Passwords, ResetPassword(e, p)
  PROVE  OrderlyInv'
<1>1. /\ todo = <<>> /\ e \in Registered
      /\ rows' = [rows EXCEPT ![e].pass = p]
      /\ known' = [known EXCEPT ![e].pass = p]
      /\ loose' = loose \cup IF e = who THEN {"password"} ELSE {}
      /\ session' = session /\ task' = task /\ todo' = todo
  BY DEF ResetPassword, AtSignIn, screen
<1>2. rows[e] \in Rows /\ known[e] = rows[e]
  BY <1>1, RowFields DEF OrderlyInv, RowsKnown
<1>3. /\ rows'[e] = [name |-> rows[e].name, pass |-> p] /\ known'[e] = rows'[e]
      /\ rows'[e] \in Rows
      /\ \A f \in Emails \ {e} : rows'[f] = rows[f] /\ known'[f] = known[f]
  BY <1>1, <1>2 DEF Rows, Types
<1>4. /\ Registered' = Registered
      /\ \A f \in Registered : rows'[f].name = rows[f].name
  BY <1>1, <1>3, AccountsAssumption DEF Registered
<1>5. \A n : Named(n)' = Named(n)
  BY <1>4 DEF Named
<1>6. NamesApart' /\ RowsKnown'
  BY <1>3, <1>4 DEF NamesApart, RowsKnown, OrderlyInv, Registered
<1>7. CASE session = SignedOut
  <2>1. "chat" \notin task
    BY <1>1 DEF ResetPassword, AtSignIn
  <2> QED
    BY <1>1, <1>6, <1>7, <2>1 DEF OrderlyInv, Doing, Resting
<1>8. CASE session # SignedOut
  <2>1. SessionHeld
    BY <1>1, <1>8, Rested
  <2>2. e # who => rows'[who] = rows[who]
    BY <1>3, <2>1 DEF SessionHeld, Held
  <2>3. SessionHeld'
    BY <1>1, <1>5, <2>1, <2>2 DEF SessionHeld, Held, who
  <2> QED
    BY <1>1, <1>6, <2>3 DEF OrderlyInv, Doing, Resting
<1> QED
  BY <1>7, <1>8

LEMMA NewUsernameRows ==
  ASSUME Types, OrderlyInv, NEW n \in Names, NewUsername(n), ~clash'
  PROVE  /\ OrderlyInv'
         /\ Named(session.name) = {who} /\ rows'[who].name = n
         /\ Registered' = Registered
         /\ \A f \in Registered : f # who => rows'[f] = rows[f]
<1>1. /\ In /\ n # session.name
      /\ Named(session.name) # {}
      /\ rows' = [e \in Emails |-> IF e \in Named(session.name)
                                   THEN [rows[e] EXCEPT !.name = n] ELSE rows[e]]
      /\ known' = [e \in Emails |-> IF e = who /\ e \in Registered
                                    THEN [known[e] EXCEPT !.name = n] ELSE known[e]]
      /\ todo' = <<Step("rename", n), Save(n, session.pass, who)>>
      /\ Alike(n) \subseteq Named(session.name)
      /\ session' = session /\ loose' = loose
  BY DEF NewUsername, Selected, screen
<1>2. /\ session # SignedOut /\ Held(session.name, session.pass, who)
      /\ session.name \in Names /\ session.pass \in Passwords /\ who \in Emails
  BY <1>1, Signed DEF SessionHeld, Held
<1>3. /\ Named(session.name) = {who} /\ who \in Registered /\ rows[who].name = session.name
  BY <1>1, <1>2 DEF Held, Named
<1>4. rows[who] \in Rows /\ known[who] = rows[who]
  BY <1>3, RowFields DEF OrderlyInv, RowsKnown
<1>5. /\ rows'[who] = [name |-> n, pass |-> rows[who].pass] /\ known'[who] = rows'[who]
      /\ rows'[who] \in Rows
      /\ \A e \in Emails \ {who} : rows'[e] = rows[e] /\ known'[e] = known[e]
  <2>1. rows'[who] = [rows[who] EXCEPT !.name = n] /\ known'[who] = [known[who] EXCEPT !.name = n]
    BY <1>1, <1>2, <1>3
  <2> QED
    BY <1>1, <1>3, <1>4, <2>1 DEF Rows
<1>6. Registered' = Registered
  BY <1>3, <1>5, AccountsAssumption DEF Registered
<1>7. \A e \in Registered : Trim(rows[e].name) = Trim(n) => e = who
  BY <1>1, <1>3 DEF Alike
<1>8. NamesApart'
  <2> SUFFICES ASSUME NEW e \in Registered, NEW f \in Registered,
                      Trim(rows'[e].name) = Trim(rows'[f].name)
               PROVE  e = f
    BY <1>6 DEF NamesApart
  <2>1. e \in Emails /\ f \in Emails
    BY DEF Registered
  <2>2. CASE e = who
    BY <2>1, <2>2, <1>5, <1>7
  <2>3. CASE f = who
    BY <2>1, <2>3, <1>5, <1>7
  <2>4. CASE e # who /\ f # who
    BY <2>1, <2>4, <1>5 DEF NamesApart, OrderlyInv
  <2> QED
    BY <2>2, <2>3, <2>4
<1>9. RowsKnown'
  BY <1>5, <1>6 DEF RowsKnown, OrderlyInv, Registered
<1>10. Named(session.name)' = {}
  <2> SUFFICES ASSUME NEW e \in Registered, rows'[e].name = session.name
               PROVE  FALSE
    BY <1>1, <1>6 DEF Named
  <2>1. e # who
    BY <1>1, <1>5
  <2>2. rows[e].name = session.name
    BY <2>1, <1>5 DEF Registered
  <2> QED
    BY <2>1, <2>2, <1>3 DEF Named
<1>11. Named(n)' = {who}
  <2>1. who \in Named(n)'
    BY <1>3, <1>5, <1>6 DEF Named
  <2>2. \A e \in Registered : e # who => rows'[e].name # n
    BY <1>5, <1>7 DEF Registered
  <2> QED
    BY <2>1, <2>2, <1>6 DEF Named
<1>12. Held(n, session.pass, who)'
  BY <1>1, <1>2, <1>3, <1>5, <1>11 DEF Held, who
<1>13. Renaming'
  BY <1>1, <1>2, <1>10, <1>11, <1>12 DEF Renaming, Step, Save, who
<1> QED
  BY <1>3, <1>5, <1>6, <1>8, <1>9, <1>13 DEF OrderlyInv, Doing, Registered

LEMMA NewPasswordRows ==
  ASSUME Types, OrderlyInv, NEW old \in Passwords, NEW p \in Passwords, NewPassword(old, p)
  PROVE  OrderlyInv'
<1>1. /\ In
      /\ CheckUser(session.name, Trim(old))
      /\ rows' = [e \in Emails |-> IF e \in Named(session.name)
                                   THEN [rows[e] EXCEPT !.pass = p] ELSE rows[e]]
      /\ known' = [e \in Emails |-> IF e = who /\ e \in Registered
                                    THEN [known[e] EXCEPT !.pass = p] ELSE known[e]]
      /\ todo' = <<Save(session.name, p, who)>>
      /\ session' = session
  BY DEF NewPassword, Selected, AfterNewPassword, screen
<1>2. Held(session.name, session.pass, who) /\ session.name \in Names /\ who \in Emails
  BY <1>1, Signed DEF SessionHeld, Held
<1>3. Named(session.name) = {who} /\ who \in Registered /\ rows[who].name = session.name
  BY <1>1, <1>2 DEF Held, Named, CheckUser
<1>4. rows[who] \in Rows /\ known[who] = rows[who]
  BY <1>3, RowFields DEF OrderlyInv, RowsKnown
<1>5. /\ rows'[who] = [name |-> session.name, pass |-> p] /\ known'[who] = rows'[who]
      /\ rows'[who] \in Rows
      /\ \A e \in Emails \ {who} : rows'[e] = rows[e] /\ known'[e] = known[e]
  <2>1. rows'[who] = [rows[who] EXCEPT !.pass = p] /\ known'[who] = [known[who] EXCEPT !.pass = p]
    BY <1>1, <1>2, <1>3
  <2> QED
    BY <1>1, <1>3, <1>4, <2>1 DEF Rows
<1>6. Registered' = Registered /\ \A e \in Registered : rows'[e].name = rows[e].name
  BY <1>3, <1>5, AccountsAssumption DEF Registered
<1>7. NamesApart' /\ RowsKnown'
  BY <1>5, <1>6 DEF NamesApart, RowsKnown, OrderlyInv, Registered
<1>8. Named(session.name)' = {who}
  BY <1>1, <1>3, <1>6 DEF Named
<1>9. Held(session.name, p, who)'
  BY <1>1, <1>2, <1>5, <1>8 DEF Held, who
<1>10. Saving'
  BY <1>1, <1>2, <1>9 DEF Saving, who
<1> QED
  BY <1>7, <1>10 DEF OrderlyInv, Doing

\* Deletions and signing out begin with the session's name.
LEMMA LeaveRows ==
  ASSUME OrderlyInv, DeleteHistory \/ DeleteAccount \/ LogOut
  PROVE  OrderlyInv'
<1>1. /\ In /\ rows' = rows /\ known' = known /\ session' = session /\ loose' = loose
      /\ \/ todo' = <<Step("deleteDir", session.name)>>
         \/ todo' = AccountDeletion(session.name)
         \/ todo' = <<Step("clear", session.name)>> /\ task' = {"main"}
  BY DEF DeleteHistory, DeleteAccount, LogOut, store, screen, history
<1>2. SessionHeld'
  BY <1>1, Signed, StaysHeld DEF SessionHeld, who
<1>3. Deleting' \/ Clearing'
  BY <1>1, <1>2 DEF Deleting, Clearing, AccountDeletion, Step
<1> QED
  BY <1>1, <1>3 DEF OrderlyInv, Doing, NamesApart, RowsKnown, Registered

LEMMA SaveCredentialsRows ==
  ASSUME OrderlyInv, SaveCredentials
  PROVE  OrderlyInv'
<1>1. /\ todo # <<>> /\ Head(todo).op = "save" /\ todo' = Tail(todo)
      /\ session' = [name |-> Head(todo).name, pass |-> Head(todo).pass, by |-> Head(todo).by]
      /\ rows' = rows /\ known' = known /\ loose' = loose
  BY DEF SaveCredentials, Next1, store, history
<1>2. PICK e \in Emails, n \in Names, p \in Passwords :
        todo = <<Save(n, p, e)>> /\ Held(n, p, e)
  BY <1>1, Heads DEF OrderlyInv, Saving
<1>3. /\ todo' = <<>>
      /\ session'.name = n /\ session'.pass = p /\ session'.by = e
  BY <1>1, <1>2 DEF Save
<1>4. session' # SignedOut
  BY <1>3, AccountsAssumption DEF SignedOut
<1>5. Held(n, p, e)'
  BY <1>1, <1>2, StaysHeld
<1>6. SessionHeld'
  BY <1>3, <1>4, <1>5 DEF SessionHeld, Held, Named, Registered, who, SignedOut
<1> QED
  BY <1>1, <1>3, <1>6 DEF OrderlyInv, Doing, Resting, NamesApart, RowsKnown, Registered

LEMMA ClearCredentialsRows ==
  ASSUME OrderlyInv, ClearCredentials
  PROVE  OrderlyInv'
<1>1. /\ todo # <<>> /\ Head(todo).op = "clear" /\ todo' = Tail(todo)
      /\ session' = SignedOut /\ task' = task
      /\ rows' = rows /\ known' = known
  BY DEF ClearCredentials, Next1, store
<1>2. Clearing
  BY <1>1, Heads DEF OrderlyInv
<1>3. todo' = <<>> /\ "chat" \notin task'
  BY <1>1, <1>2 DEF Clearing
<1> QED
  BY <1>1, <1>3 DEF OrderlyInv, Doing, Resting, SignedOut, NamesApart, RowsKnown, Registered

LEMMA RenameRows ==
  ASSUME OrderlyInv, RenameDirectory
  PROVE  OrderlyInv'
<1>1. /\ todo # <<>> /\ Head(todo).op = "rename" /\ todo' = Tail(todo)
      /\ rows' = rows /\ known' = known /\ session' = session /\ loose' = loose
  BY DEF RenameDirectory, Next1, screen, history
<1>2. PICK n \in Names :
        /\ todo = <<Step("rename", n), Save(n, session.pass, who)>>
        /\ Held(n, session.pass, who)
  BY <1>1, Heads DEF OrderlyInv, Renaming
<1>3. todo' = <<Save(n, session.pass, who)>>
  BY <1>1, <1>2
<1>4. Held(n, session.pass, who)'
  BY <1>1, <1>2, StaysHeld DEF who
<1>5. Saving'
  BY <1>1, <1>2, <1>3, <1>4 DEF Saving, Held, who
<1> QED
  BY <1>1, <1>5 DEF OrderlyInv, Doing, NamesApart, RowsKnown, Registered

LEMMA DeleteDirectoryRows ==
  ASSUME OrderlyInv, DeleteDirectory
  PROVE  /\ OrderlyInv' /\ SessionHeld
         /\ Head(todo).name = session.name
         /\ todo' \in {<<>>, <<Step("deleteRow", session.name)>>}
<1>1. /\ todo # <<>> /\ Head(todo).op = "deleteDir" /\ todo' = Tail(todo)
      /\ rows' = rows /\ known' = known /\ session' = session /\ loose' = loose
  BY DEF DeleteDirectory, Next1, screen
<1>2. Deleting
  BY <1>1, Heads DEF OrderlyInv
<1>3. /\ Head(todo).name = session.name
      /\ todo' \in {<<>>, <<Step("deleteRow", session.name)>>}
  <2>1. CASE todo = <<Step("deleteDir", session.name)>>
    BY <2>1, <1>1 DEF Step
  <2>2. CASE todo = <<Step("deleteDir", session.name), Step("deleteRow", session.name)>>
    BY <2>2, <1>1 DEF Step
  <2>3. todo # <<Step("deleteRow", session.name)>>
    BY <1>1 DEF Step
  <2> QED
    BY <2>1, <2>2, <2>3, <1>2 DEF Deleting, AccountDeletion
<1>4. SessionHeld
  BY <1>2 DEF Deleting
<1>5. SessionHeld'
  BY <1>1, <1>4, StaysHeld DEF SessionHeld, who
<1>6. Doing'
  BY <1>1, <1>3, <1>5 DEF Doing, Resting, Deleting, Step
<1> QED
  BY <1>1, <1>3, <1>4, <1>6 DEF OrderlyInv, NamesApart, RowsKnown, Registered

LEMMA DeleteRowsRows ==
  ASSUME Types, OrderlyInv, DeleteRows
  PROVE  /\ OrderlyInv'
         /\ Head(todo).name = session.name /\ todo' = <<>>
         /\ Registered' = Registered \ Named(session.name)
         /\ \A e \in Registered' : rows'[e] = rows[e]
<1>1. /\ todo # <<>> /\ Head(todo).op = "deleteRow" /\ todo' = Tail(todo)
      /\ rows' = [e \in Emails |-> IF e \in Named(Head(todo).name) THEN None ELSE rows[e]]
      /\ known' = [e \in Emails |-> IF e \in Named(Head(todo).name) THEN None ELSE known[e]]
      /\ session' = session
      /\ loose' = loose \cup {"row"}
  BY DEF DeleteRows, Next1, Selected, screen
<1>2. Deleting
  BY <1>1, Heads DEF OrderlyInv
<1>3. SessionHeld /\ todo = <<Step("deleteRow", session.name)>>
  BY <1>1, <1>2 DEF Deleting, Step, AccountDeletion
<1>4. Head(todo).name = session.name /\ todo' = <<>>
  BY <1>1, <1>3 DEF Step
<1>5. /\ Registered' = Registered \ Named(session.name)
      /\ \A e \in Registered' : e \in Registered /\ rows'[e] = rows[e] /\ known'[e] = known[e]
  BY <1>1, <1>4 DEF Registered, Named
<1>6. NamesApart'
  BY <1>5 DEF NamesApart, OrderlyInv
<1>7. RowsKnown'
  BY <1>5 DEF RowsKnown, OrderlyInv
<1>8. Named(session.name)' = {}
  BY <1>1, <1>5 DEF Named
<1>9. SessionHeld'
  BY <1>1, <1>3, <1>8 DEF SessionHeld, Held, who
<1> QED
  BY <1>4, <1>5, <1>6, <1>7, <1>9 DEF OrderlyInv, Doing, Resting

\* A death between handlers, with everything on the disk.
LEMMA DieRows ==
  ASSUME OrderlyInv, Die, ~half'
  PROVE  /\ OrderlyInv' /\ todo = <<>> /\ todo' = <<>> /\ dirs' = dirs
<1>1. /\ todo = <<>> /\ todo' = <<>> /\ session' = session /\ disk = session
      /\ task' = IF disk = SignedOut THEN {"main"} ELSE {"chat"}
      /\ rows' = rows /\ dirs' = dirs /\ known' = known /\ loose' = loose
  BY DEF Die
<1>2. NamesApart' /\ RowsKnown'
  BY <1>1 DEF OrderlyInv, NamesApart, RowsKnown, Registered
<1>3. CASE session = SignedOut
  BY <1>1, <1>2, <1>3 DEF OrderlyInv, Doing, Resting
<1>4. CASE session # SignedOut
  BY <1>1, <1>4, ScreenStep
<1> QED
  BY <1>1, <1>3, <1>4

-----------------------------------------------------------------------------
(* The directories. *)

\* Steps that leave the data and every account's directory as they are.
LEMMA SameData ==
  ASSUME TidyInv, dirs' = dirs, wrote' = wrote, Emptied',
         \A e \in Registered : e \in Registered' /\ DirOf(e)' = DirOf(e)
  PROVE  TidyInv'
<1>1. DataPlaced'
  BY DEF TidyInv, DataPlaced
<1>2. DataOwned'
  BY DEF TidyInv, DataOwned
<1> QED
  BY <1>1, <1>2 DEF TidyInv

\* When no directory is being renamed, the name is the row's.
LEMMA AtRest ==
  ASSUME ~Moving
  PROVE  \A e : DirOf(e) = rows[e].name
  BY DEF DirOf

\* Steps that leave rows and data alone, between handlers or at their ends.
LEMMA NoMove ==
  ASSUME TidyInv, rows' = rows, dirs' = dirs, wrote' = wrote, ~Moving, ~Moving', Emptied'
  PROVE  TidyInv'
<1>1. Registered' = Registered
  BY DEF Registered
<1>2. \A e \in Registered : DirOf(e)' = DirOf(e)
  BY DEF DirOf
<1> QED
  BY <1>1, <1>2, SameData

LEMMA SignUpData ==
  ASSUME Types, TidyInv, NEW e \in Emails, NEW n \in Names, NEW p \in Passwords, SignUp(e, n, p)
  PROVE  TidyInv'
<1>1. /\ todo = <<>> /\ todo' = <<Save(n, p, e)>> /\ dirs' = dirs /\ wrote' = wrote
      /\ IF e \in Registered THEN rows' = rows
         ELSE rows' = [rows EXCEPT ![e] = [name |-> n, pass |-> p]]
  BY DEF SignUp, AtSignIn
<1>2. ~Moving /\ ~Moving' /\ Emptied'
  BY <1>1 DEF Moving, Emptied, Save
<1>3. \A f \in Registered : f \in Registered' /\ rows'[f] = rows[f]
  BY <1>1 DEF Registered, Types
<1>4. \A f \in Registered : DirOf(f)' = DirOf(f)
  BY <1>2, <1>3 DEF DirOf
<1> QED
  BY <1>1, <1>2, <1>3, <1>4, SameData

LEMMA ResetData ==
  ASSUME Types, TidyInv, NEW e \in Emails, NEW p \in Passwords, ResetPassword(e, p)
  PROVE  TidyInv'
<1>1. /\ todo = <<>> /\ todo' = todo /\ dirs' = dirs /\ wrote' = wrote
      /\ e \in Registered /\ rows' = [rows EXCEPT ![e].pass = p]
  BY DEF ResetPassword, AtSignIn
<1>2. ~Moving /\ ~Moving' /\ Emptied'
  BY <1>1 DEF Moving, Emptied
<1>3. rows[e] \in Rows
  BY <1>1, RowFields
<1>4. \A f \in Registered : f \in Registered' /\ rows'[f].name = rows[f].name
  <2>1. rows'[e] = [name |-> rows[e].name, pass |-> p] /\ rows'[e] \in Rows
    BY <1>1, <1>3 DEF Rows, Types
  <2>2. \A f \in Emails \ {e} : rows'[f] = rows[f]
    BY <1>1 DEF Types
  <2> QED
    BY <2>1, <2>2, AccountsAssumption DEF Registered
<1>5. \A f \in Registered : DirOf(f)' = DirOf(f)
  BY <1>2, <1>4 DEF DirOf
<1> QED
  BY <1>1, <1>2, <1>4, <1>5, SameData

LEMMA NewUsernameData ==
  ASSUME Types, OrderlyInv, TidyInv, NEW n \in Names, NewUsername(n), ~clash'
  PROVE  TidyInv'
<1>1. /\ In /\ todo' = <<Step("rename", n), Save(n, session.pass, who)>>
      /\ dirs' = dirs /\ wrote' = wrote /\ session' = session
  BY DEF NewUsername, screen
<1>2. /\ Named(session.name) = {who} /\ Registered' = Registered
      /\ \A f \in Registered : f # who => rows'[f] = rows[f]
  BY NewUsernameRows
<1>3. Moving' /\ ~Moving /\ Emptied'
  BY <1>1 DEF Moving, Emptied, Step, In
<1>4. \A f \in Registered : DirOf(f)' = DirOf(f)
  BY <1>1, <1>2, <1>3 DEF DirOf, Named, who
<1> QED
  BY <1>1, <1>2, <1>3, <1>4, SameData

LEMMA NewPasswordData ==
  ASSUME Types, TidyInv, NEW old \in Passwords, NEW p \in Passwords, NewPassword(old, p)
  PROVE  TidyInv'
<1>1. /\ todo = <<>> /\ todo' = <<Save(session.name, p, who)>> /\ dirs' = dirs /\ wrote' = wrote
      /\ rows' = [e \in Emails |-> IF e \in Named(session.name)
                                   THEN [rows[e] EXCEPT !.pass = p] ELSE rows[e]]
  BY DEF NewPassword, Selected, AfterNewPassword, In
<1>2. ~Moving /\ ~Moving' /\ Emptied'
  BY <1>1 DEF Moving, Emptied, Save
<1>3. \A f \in Registered : f \in Registered' /\ rows'[f].name = rows[f].name
  <2> SUFFICES ASSUME NEW f \in Registered
               PROVE  f \in Registered' /\ rows'[f].name = rows[f].name
    OBVIOUS
  <2>1. f \in Emails /\ rows[f] \in Rows
    BY RowFields
  <2>2. rows'[f] \in Rows /\ rows'[f].name = rows[f].name
    BY <1>1, <2>1 DEF Rows
  <2> QED
    BY <2>1, <2>2, AccountsAssumption DEF Registered
<1>4. \A f \in Registered : DirOf(f)' = DirOf(f)
  BY <1>2, <1>3 DEF DirOf
<1> QED
  BY <1>1, <1>2, <1>3, <1>4, SameData

\* Data that are not astray go to the directory of the account's row.
LEMMA WriteData ==
  ASSUME Types, OrderlyInv, TidyInv, NEW e \in Emails, Write(e), ~stray', todo = <<>>,
         rows' = rows, todo' = todo
  PROVE  TidyInv'
<1> DEFINE n == session.name
<1>1. /\ dirs' = [dirs EXCEPT ![n] = {e} \cup IF dirs[n] = None THEN {} ELSE dirs[n]]
      /\ wrote' = wrote \cup {e}
      /\ e \in Named(n)
  BY DEF Write
<1>2. e \in Registered /\ rows[e].name = n /\ n \in Names
  BY <1>1, RowFields DEF Named
<1>3. ~Moving /\ ~Moving' /\ Registered' = Registered
  BY DEF Moving, Registered
<1>4. \A f \in Registered : DirOf(f) = rows[f].name /\ DirOf(f)' = rows[f].name
  BY <1>3 DEF DirOf
<1>5. dirs[n] = None \/ dirs[n] = {e}
  BY <1>2, <1>4, SameName DEF TidyInv, DataOwned, OrderlyInv
<1>6. dirs' = [dirs EXCEPT ![n] = {e}]
  BY <1>1, <1>5
<1>7. /\ dirs'[n] = {e} /\ {e} # None
      /\ \A m \in Names \cup {None} : m # n => dirs'[m] = dirs[m]
  BY <1>2, <1>6, AccountsAssumption DEF Types
<1>8. DataPlaced'
  <2> SUFFICES ASSUME NEW f \in wrote'
               PROVE  /\ f \in Registered
                      /\ dirs'[rows[f].name] # None
                      /\ f \in dirs'[rows[f].name]
    BY <1>3, <1>4 DEF DataPlaced
  <2>1. CASE f = e
    BY <2>1, <1>2, <1>7
  <2>2. CASE f # e
    <3>1. f \in Registered /\ dirs[rows[f].name] # None /\ f \in dirs[rows[f].name]
      BY <2>2, <1>1, <1>4 DEF DataPlaced, TidyInv
    <3>2. rows[f].name # n /\ rows[f].name \in Names
      BY <3>1, <2>2, <1>2, SameName, RowFields DEF OrderlyInv
    <3> QED
      BY <3>1, <3>2, <1>7
  <2> QED
    BY <2>1, <2>2
<1>9. DataOwned'
  BY <1>2, <1>3, <1>4, <1>7 DEF DataOwned, TidyInv
<1> QED
  BY <1>8, <1>9 DEF TidyInv, Emptied

LEMMA RenameData ==
  ASSUME Types, OrderlyInv, TidyInv, RenameDirectory
  PROVE  TidyInv'
<1>1. /\ todo # <<>> /\ Head(todo).op = "rename" /\ todo' = Tail(todo)
      /\ dirs' = Renamed(session.name, Head(todo).name)
      /\ rows' = rows /\ wrote' = wrote /\ session' = session
  BY DEF RenameDirectory, Next1, screen, history
<1>2. PICK n \in Names :
        /\ todo = <<Step("rename", n), Save(n, session.pass, who)>>
        /\ session # SignedOut /\ session.name # n
        /\ Named(session.name) = {}
        /\ who \in Named(n)
  BY <1>1, Heads DEF OrderlyInv, Renaming
<1> DEFINE old == session.name
<1>3. /\ who \in Registered /\ rows[who].name = n /\ who \in Emails /\ old \in Names
  BY <1>2, SessionFields DEF Named
<1>4. Head(todo).name = n /\ todo' = <<Save(n, session.pass, who)>>
  BY <1>1, <1>2 DEF Step
<1>5. Moving /\ ~Moving' /\ Emptied'
  BY <1>1, <1>4 DEF Moving, Emptied, Save
<1>6. /\ Registered' = Registered
      /\ DirOf(who) = old
      /\ \A e \in Registered : e # who => DirOf(e) = rows[e].name
      /\ \A e \in Registered : DirOf(e)' = rows[e].name
  BY <1>1, <1>5 DEF DirOf, Registered
<1>7. \A e \in Registered : e # who => rows[e].name # n /\ rows[e].name # old
  BY <1>2, <1>3, SameName DEF Named, OrderlyInv
<1>8. dirs[n] = None
  BY <1>2, <1>3, <1>6, <1>7 DEF DataOwned, TidyInv
<1>9. dirs[old] = None \/ dirs[old] = {who}
  BY <1>3, <1>6, <1>7 DEF DataOwned, TidyInv
<1>10. /\ dirs'[n] = dirs[old] /\ dirs'[old] = None
       /\ \A m \in (Names \cup {None}) \ {n, old} : dirs'[m] = dirs[m]
  <2>1. CASE dirs[old] = None
    <3>1. dirs' = dirs
      BY <2>1, <1>1, <1>4 DEF Renamed
    <3> QED
      BY <2>1, <3>1, <1>8
  <2>2. CASE dirs[old] # None
    <3>1. dirs' = [dirs EXCEPT ![n] = dirs[old], ![old] = None]
      BY <2>2, <1>1, <1>4, <1>8 DEF Renamed
    <3>2. DOMAIN dirs = Names \cup {None}
      BY DEF Types
    <3> QED
      BY <3>1, <3>2, <1>2, <1>3
  <2> QED
    BY <2>1, <2>2
<1>11. DataPlaced'
  <2> SUFFICES ASSUME NEW e \in wrote
               PROVE  /\ e \in Registered
                      /\ dirs'[rows[e].name] # None
                      /\ e \in dirs'[rows[e].name]
    BY <1>1, <1>6 DEF DataPlaced
  <2>1. e \in Registered /\ dirs[DirOf(e)] # None /\ e \in dirs[DirOf(e)]
    BY DEF DataPlaced, TidyInv
  <2>2. CASE e = who
    BY <2>1, <2>2, <1>3, <1>6, <1>10
  <2>3. CASE e # who
    <3>1. rows[e].name \in Names \ {n, old}
      BY <2>1, <2>3, <1>7, RowFields
    <3> QED
      BY <2>1, <2>3, <3>1, <1>6, <1>10
  <2> QED
    BY <2>2, <2>3
<1>12. DataOwned'
  <2> SUFFICES ASSUME NEW m \in Names \cup {None}, dirs'[m] # None
               PROVE  \E e \in Registered : rows[e].name = m /\ dirs'[m] = {e}
    BY <1>6 DEF DataOwned
  <2>1. CASE m = n
    BY <2>1, <1>3, <1>9, <1>10
  <2>2. CASE m # n
    <3>1. m \in (Names \cup {None}) \ {n, old} /\ dirs'[m] = dirs[m]
      BY <2>2, <1>10
    <3>2. PICK e \in Registered : DirOf(e) = m /\ dirs[m] = {e}
      BY <3>1 DEF DataOwned, TidyInv
    <3>3. e # who
      BY <3>1, <3>2, <1>6
    <3> QED
      BY <3>1, <3>2, <3>3, <1>6
  <2> QED
    BY <2>1, <2>2
<1> QED
  BY <1>5, <1>11, <1>12 DEF TidyInv

LEMMA DeleteDirectoryData ==
  ASSUME Types, OrderlyInv, TidyInv, DeleteDirectory
  PROVE  TidyInv'
<1> DEFINE n == session.name
<1>1. /\ todo # <<>> /\ Head(todo).op = "deleteDir"
      /\ dirs' = [dirs EXCEPT ![Head(todo).name] = None]
      /\ wrote' = wrote \ {who}
      /\ rows' = rows /\ session' = session
  BY DEF DeleteDirectory, Next1, screen
<1>2. /\ SessionHeld /\ Head(todo).name = n
      /\ todo' \in {<<>>, <<Step("deleteRow", n)>>}
  BY DeleteDirectoryRows
<1>3. n \in Names /\ Named(n) \subseteq {who}
  BY <1>2 DEF SessionHeld, Held
<1>4. ~Moving /\ ~Moving'
  BY <1>1, <1>2 DEF Moving, Step
<1>5. /\ Registered' = Registered
      /\ \A e \in Registered : DirOf(e) = rows[e].name /\ DirOf(e)' = rows[e].name
  BY <1>1, <1>4 DEF DirOf, Registered
<1>6. /\ dirs'[n] = None
      /\ \A m \in Names \cup {None} : m # n => dirs'[m] = dirs[m]
  BY <1>1, <1>2, <1>3 DEF Types
<1>7. DataPlaced'
  <2> SUFFICES ASSUME NEW e \in wrote'
               PROVE  /\ e \in Registered
                      /\ dirs'[rows[e].name] # None
                      /\ e \in dirs'[rows[e].name]
    BY <1>5 DEF DataPlaced
  <2>1. /\ e \in Registered /\ dirs[rows[e].name] # None /\ e \in dirs[rows[e].name]
        /\ rows[e].name \in Names /\ e # who
    BY <1>1, <1>5, RowFields DEF DataPlaced, TidyInv
  <2>2. rows[e].name # n
    BY <2>1, <1>3 DEF Named
  <2> QED
    BY <2>1, <2>2, <1>6
<1>8. DataOwned'
  BY <1>5, <1>6 DEF DataOwned, TidyInv
<1>9. Emptied'
  BY <1>2, <1>6 DEF Emptied, Step
<1> QED
  BY <1>7, <1>8, <1>9 DEF TidyInv

LEMMA DeleteRowsData ==
  ASSUME Types, OrderlyInv, TidyInv, DeleteRows
  PROVE  TidyInv'
<1>1. /\ todo # <<>> /\ Head(todo).op = "deleteRow"
      /\ dirs' = dirs /\ wrote' = wrote
  BY DEF DeleteRows, Next1
<1>2. /\ Head(todo).name = session.name /\ todo' = <<>>
      /\ Registered' = Registered \ Named(session.name)
      /\ \A e \in Registered' : rows'[e] = rows[e]
  BY DeleteRowsRows
<1>3. dirs[session.name] = None
  BY <1>1, <1>2 DEF TidyInv, Emptied
<1>4. ~Moving /\ ~Moving'
  BY <1>1, <1>2 DEF Moving
<1>5. /\ \A e \in Registered : DirOf(e) = rows[e].name
      /\ \A e \in Registered' : DirOf(e)' = rows[e].name
  BY <1>2, <1>4 DEF DirOf
<1>6. \A e \in Registered : dirs[rows[e].name] # None => e \in Registered'
  BY <1>2, <1>3 DEF Named
<1>7. DataPlaced'
  BY <1>1, <1>5, <1>6 DEF DataPlaced, TidyInv
<1>8. DataOwned'
  BY <1>1, <1>5, <1>6 DEF DataOwned, TidyInv
<1>9. Emptied'
  BY <1>2 DEF Emptied
<1> QED
  BY <1>7, <1>8, <1>9 DEF TidyInv

-----------------------------------------------------------------------------
(* The specification. *)

LEMMA WriteTypes ==
  ASSUME Types, NEW e \in Emails, Write(e), asked' \subseteq asked,
         UNCHANGED <<rows, disk, session, task, known>>
  PROVE  Types'
<1>1. /\ dirs' = [dirs EXCEPT ![session.name] =
                   {e} \cup IF dirs[session.name] = None THEN {} ELSE dirs[session.name]]
      /\ wrote' = wrote \cup {e}
  BY DEF Write
<1>2. session.name \in Names \cup {None}
  BY DEF Types, Sessions, SignedOut
<1>3. {e} \cup (IF dirs[session.name] = None THEN {} ELSE dirs[session.name]) \in SUBSET Emails
  BY <1>2 DEF Types
<1>4. dirs' \in [Names \cup {None} -> (SUBSET Emails) \cup {None}]
  BY <1>1, <1>3 DEF Types
<1> QED
  BY <1>1, <1>4 DEF Types

\* The steps that begin at the sign-in screen keep the types.
LEMMA SignInTypes ==
  ASSUME Types, SignInScreen
  PROVE  Types'
<1>1. ASSUME NEW e \in Emails, NEW n \in Names, NEW p \in Passwords, SignUp(e, n, p)
      PROVE  Types'
  <2>1. /\ dirs' = dirs /\ session' = session /\ disk' = disk /\ task' = {"main", "chat"}
        /\ asked' = asked /\ wrote' = wrote
        /\ \/ rows' = rows /\ known' = known
           \/ /\ rows' = [rows EXCEPT ![e] = [name |-> n, pass |-> p]]
              /\ known' = [known EXCEPT ![e] = [name |-> n, pass |-> p]]
    BY <1>1 DEF SignUp
  <2> QED
    BY <2>1, RowIsNotNone DEF Types
<1>2. ASSUME NEW e \in Emails, SignIn(e)
      PROVE  Types'
  BY <1>2 DEF SignIn, Types, store
<1>3. ASSUME NEW e \in Emails, NEW p \in Passwords, ResetPassword(e, p)
      PROVE  Types'
  <2>1. /\ e \in Registered
        /\ rows' = [rows EXCEPT ![e].pass = p] /\ known' = [known EXCEPT ![e].pass = p]
        /\ UNCHANGED <<dirs, disk, session, task, asked, wrote>>
    BY <1>3 DEF ResetPassword, screen
  <2>2. rows' \in [Emails -> Rows \cup {None}]
    <3>1. rows[e] \in Rows /\ rows \in [Emails -> Rows \cup {None}]
      BY <2>1, RowFields DEF Types
    <3>2. [rows[e] EXCEPT !.pass = p] \in Rows
      BY <3>1 DEF Rows
    <3> QED
      BY <2>1, <3>1, <3>2
  <2> QED
    BY <2>1, <2>2 DEF Types
<1>4. CASE Relaunch
  BY <1>4 DEF Relaunch, Types, store, history
<1> QED
  BY <1>1, <1>2, <1>3, <1>4 DEF SignInScreen

LEMMA ChatTypes ==
  ASSUME Types, OrderlyInv, ChatScreen
  PROVE  Types'
<1>1. ASSUME NEW n \in Names, NewUsername(n)
      PROVE  Types'
  <2>1. /\ rows' = [e \in Emails |-> IF e \in Named(session.name)
                                     THEN [rows[e] EXCEPT !.name = n] ELSE rows[e]]
        /\ known' = [e \in Emails |-> IF e = who /\ e \in Registered
                                      THEN [known[e] EXCEPT !.name = n] ELSE known[e]]
        /\ UNCHANGED <<dirs, disk, session, task, asked, wrote>>
    BY <1>1 DEF NewUsername, Selected, screen
  <2>2. \A e \in Named(session.name) : [rows[e] EXCEPT !.name = n] \in Rows
    BY RowFields DEF Named, Rows
  <2>3. rows' \in [Emails -> Rows \cup {None}]
    BY <2>1, <2>2 DEF Types
  <2> QED
    BY <2>1, <2>3 DEF Types
<1>2. ASSUME NEW old \in Passwords, NEW p \in Passwords, NewPassword(old, p)
      PROVE  Types'
  <2>1. /\ rows' = [e \in Emails |-> IF e \in Named(session.name)
                                     THEN [rows[e] EXCEPT !.pass = p] ELSE rows[e]]
        /\ known' = [e \in Emails |-> IF e = who /\ e \in Registered
                                      THEN [known[e] EXCEPT !.pass = p] ELSE known[e]]
        /\ UNCHANGED <<dirs, disk, session, task, asked, wrote>>
    BY <1>2 DEF NewPassword, Selected, screen
  <2>2. \A e \in Named(session.name) : [rows[e] EXCEPT !.pass = p] \in Rows
    BY RowFields DEF Named, Rows
  <2>3. rows' \in [Emails -> Rows \cup {None}]
    BY <2>1, <2>2 DEF Types
  <2> QED
    BY <2>1, <2>3 DEF Types
<1>3. CASE CreateChat
  <2>1. who \in Emails
    BY <1>3, Signed DEF CreateChat, SessionHeld, Held
  <2> QED
    BY <1>3, <2>1, WriteTypes DEF CreateChat, screen
<1>4. CASE Ask
  <2>1. who \in Emails
    BY <1>4, Signed DEF Ask, SessionHeld, Held
  <2> QED
    BY <1>4, <2>1 DEF Ask, Types, store, history
<1>5. CASE DeleteHistory \/ DeleteAccount \/ LogOut \/ Back
  BY <1>5 DEF DeleteHistory, DeleteAccount, LogOut, Back, Types, store, screen, history
<1> QED
  BY <1>1, <1>2, <1>3, <1>4, <1>5 DEF ChatScreen

LEMMA HandlerTypes ==
  ASSUME Types, OrderlyInv, Handler
  PROVE  Types'
<1>1. CASE SaveCredentials
  <2>1. /\ todo # <<>> /\ Head(todo).op = "save"
        /\ session' = [name |-> Head(todo).name, pass |-> Head(todo).pass, by |-> Head(todo).by]
        /\ UNCHANGED <<rows, dirs, disk, task, asked, known, wrote>>
    BY <1>1 DEF SaveCredentials, Next1, store, history
  <2>2. PICK e \in Emails, n \in Names, p \in Passwords : todo = <<Save(n, p, e)>>
    BY <2>1, Heads DEF OrderlyInv, Saving
  <2>3. session' \in Sessions
    BY <2>1, <2>2 DEF Save, Sessions
  <2> QED
    BY <2>1, <2>3 DEF Types
<1>2. CASE ClearCredentials
  BY <1>2 DEF ClearCredentials, Types, store
<1>3. CASE RenameDirectory
  <2>1. /\ dirs' = Renamed(session.name, Head(todo).name)
        /\ UNCHANGED <<rows, disk, session, task, asked, known, wrote>>
        /\ session # SignedOut
    BY <1>3, Heads DEF RenameDirectory, Next1, screen, history, OrderlyInv, Renaming
  <2>2. dirs[session.name] \in (SUBSET Emails) \cup {None}
    BY <2>1, SessionFields DEF Types
  <2>3. dirs' \in [Names \cup {None} -> (SUBSET Emails) \cup {None}]
    BY <2>1, <2>2 DEF Renamed, Types
  <2> QED
    BY <2>1, <2>3 DEF Types
<1>4. CASE DeleteDirectory
  BY <1>4 DEF DeleteDirectory, Types, screen
<1>5. CASE DeleteRows
  BY <1>5 DEF DeleteRows, Types, screen
<1> QED
  BY <1>1, <1>2, <1>3, <1>4, <1>5 DEF Handler

LEMMA StepTypes ==
  ASSUME Types, OrderlyInv, [Next]_vars, ~half'
  PROVE  Types'
<1>1. CASE \E e \in Emails : FinishAnswer(e)
  BY <1>1, WriteTypes DEF FinishAnswer
<1>2. CASE Flush \/ UNCHANGED vars
  BY <1>2 DEF Flush, Types, vars, store, screen, history
<1>3. CASE Die
  BY <1>3, DieRows DEF Die, Types
<1> QED
  BY <1>1, <1>2, <1>3, SignInTypes, ChatTypes, HandlerTypes DEF Next, Answers

\* Once it is not orderly, it never is again, and the same of tidy.
LEMMA NeverAgain ==
  ASSUME [Next]_vars
  PROVE  /\ clash => clash'
         /\ half => half'
         /\ stray => stray'
<1>1. ASSUME NEW e, Write(e)
      PROVE  stray => stray'
  BY <1>1 DEF Write
<1>2. CASE SignInScreen
  <2>1. ASSUME NEW e, NEW n, NEW p, SignUp(e, n, p)
        PROVE  (clash => clash') /\ half' = half /\ stray' = stray
    BY <2>1 DEF SignUp
  <2>2. \/ \E e \in Emails, n \in Names, p \in Passwords : SignUp(e, n, p)
        \/ clash' = clash /\ half' = half /\ stray' = stray
    BY <1>2 DEF SignInScreen, SignIn, ResetPassword, Relaunch, history
  <2> QED
    BY <2>1, <2>2
<1>3. CASE ChatScreen
  <2>1. ASSUME NEW n, NewUsername(n)
        PROVE  (clash => clash') /\ half' = half /\ stray' = stray
    BY <2>1 DEF NewUsername
  <2>2. \/ \E n \in Names : NewUsername(n)
        \/ clash' = clash /\ half' = half /\ (stray' = stray \/ Write(who))
    BY <1>3 DEF ChatScreen, NewPassword, CreateChat, Ask, DeleteHistory,
                DeleteAccount, LogOut, Back, history
  <2> QED
    BY <1>1, <2>1, <2>2
<1>4. CASE Answers
  BY <1>4, <1>1 DEF Answers, FinishAnswer
<1>5. CASE Handler
  BY <1>5 DEF Handler, SaveCredentials, ClearCredentials, RenameDirectory,
              DeleteDirectory, DeleteRows, history
<1>6. CASE Die
  <2>1. clash' = clash /\ stray' = stray
    BY <1>6 DEF Die
  <2>2. half => half'
    BY <1>6 DEF Die
  <2> QED
    BY <2>1, <2>2
<1>7. CASE Flush \/ UNCHANGED vars
  BY <1>7 DEF Flush, vars, history
<1> QED
  BY <1>2, <1>3, <1>4, <1>5, <1>6, <1>7 DEF Next

LEMMA InitAccounts == Init => AccountsInv
<1> SUFFICES ASSUME Init PROVE Types /\ OrderlyInv /\ TidyInv
  BY DEF AccountsInv
<1>1. Registered = {} /\ todo = <<>> /\ wrote = {} /\ session = SignedOut /\ task = {"main"}
  BY DEF Init, Registered
<1>2. Types
  BY DEF Init, Types
<1>3. OrderlyInv
  BY <1>1 DEF OrderlyInv, NamesApart, RowsKnown, Doing, Resting
<1>4. DataOwned
  BY DEF Init, DataOwned
<1> QED
  BY <1>1, <1>2, <1>3, <1>4 DEF TidyInv, DataPlaced, Emptied

LEMMA OrderlyStep ==
  ASSUME Types, OrderlyInv, [Next]_vars, ~clash', ~half'
  PROVE  OrderlyInv'
<1>1. CASE SignInScreen
  <2>1. CASE Relaunch
    BY <2>1, ScreenStep DEF Relaunch, AtSignIn, store, history
  <2> QED
    BY <1>1, <2>1, SignUpRows, SignInRows, ResetRows DEF SignInScreen
<1>2. CASE ChatScreen
  <2>1. CASE CreateChat
    BY <2>1, ScreenStep DEF CreateChat, In, screen
  <2>2. CASE Ask
    BY <2>2, ScreenStep DEF Ask, In, store, history
  <2>3. CASE Back
    <3>1. todo = <<>> /\ session # SignedOut
      BY <2>3, Signed DEF Back, SessionHeld
    <3> QED
      BY <2>3, <3>1, ScreenStep DEF Back, store, history
  <2> QED
    BY <1>2, <2>1, <2>2, <2>3, NewUsernameRows, NewPasswordRows, LeaveRows DEF ChatScreen
<1>3. CASE Answers
  BY <1>3, ScreenStep DEF Answers, FinishAnswer
<1>4. CASE Handler
  BY <1>4, SaveCredentialsRows, ClearCredentialsRows, RenameRows, DeleteDirectoryRows,
     DeleteRowsRows DEF Handler
<1>5. CASE Flush \/ UNCHANGED vars
  BY <1>5 DEF Flush, vars, store, screen, history, OrderlyInv, NamesApart, RowsKnown, Doing,
              Resting, Saving, Renaming, Deleting, Clearing, SessionHeld, Held, Named,
              Registered, who, Step, Save, AccountDeletion
<1>6. CASE Die
  BY <1>6, DieRows
<1> QED
  BY <1>1, <1>2, <1>3, <1>4, <1>5, <1>6 DEF Next

LEMMA TidyStep ==
  ASSUME Types, OrderlyInv, TidyInv, [Next]_vars, ~clash', ~half', ~stray'
  PROVE  TidyInv'
<1>1. CASE SignInScreen
  <2>1. CASE Relaunch
    BY <2>1, NoMove DEF Relaunch, AtSignIn, Moving, Emptied, store, history
  <2>2. ASSUME NEW e \in Emails, SignIn(e)
        PROVE  TidyInv'
    BY <2>2, NoMove DEF SignIn, AtSignIn, Moving, Emptied, Save, store
  <2> QED
    BY <1>1, <2>1, <2>2, SignUpData, ResetData DEF SignInScreen
<1>2. CASE ChatScreen
  <2>1. CASE CreateChat
    <3>1. who \in Emails
      BY <2>1, Signed DEF CreateChat, SessionHeld, Held
    <3> QED
      BY <2>1, <3>1, WriteData DEF CreateChat, In
  <2>2. CASE Ask \/ Back
    BY <2>2, NoMove DEF Ask, Back, In, Moving, Emptied, store, history
  <2>3. CASE DeleteHistory \/ DeleteAccount \/ LogOut
    <3>1. /\ todo = <<>> /\ rows' = rows /\ dirs' = dirs /\ wrote' = wrote
          /\ todo' # <<>> /\ Head(todo').op \in {"deleteDir", "clear"}
      BY <2>3 DEF DeleteHistory, DeleteAccount, LogOut, In, AccountDeletion, Step, store, history
    <3> QED
      BY <3>1, NoMove DEF Moving, Emptied
  <2> QED
    BY <1>2, <2>1, <2>2, <2>3, NewUsernameData, NewPasswordData DEF ChatScreen
<1>3. CASE Answers
  BY <1>3, WriteData DEF Answers, FinishAnswer
<1>4. CASE Handler
  <2>1. CASE SaveCredentials
    <3>1. /\ todo # <<>> /\ Head(todo).op = "save" /\ todo' = Tail(todo)
          /\ rows' = rows /\ dirs' = dirs /\ wrote' = wrote
      BY <2>1 DEF SaveCredentials, Next1, store, history
    <3>2. todo' = <<>>
      BY <3>1, Heads DEF OrderlyInv, Saving
    <3> QED
      BY <3>1, <3>2, NoMove DEF Moving, Emptied
  <2>2. CASE ClearCredentials
    <3>1. /\ todo # <<>> /\ Head(todo).op = "clear" /\ todo' = Tail(todo)
          /\ rows' = rows /\ dirs' = dirs /\ wrote' = wrote
      BY <2>2 DEF ClearCredentials, Next1, store
    <3>2. Clearing
      BY <3>1, Heads DEF OrderlyInv
    <3>3. todo' = <<>>
      BY <3>1, <3>2 DEF Clearing
    <3> QED
      BY <3>1, <3>3, NoMove DEF Moving, Emptied
  <2> QED
    BY <1>4, <2>1, <2>2, RenameData, DeleteDirectoryData, DeleteRowsData DEF Handler
<1>5. CASE Flush \/ UNCHANGED vars
  <2>1. /\ rows' = rows /\ dirs' = dirs /\ wrote' = wrote
        /\ session' = session /\ todo' = todo
    BY <1>5 DEF Flush, vars, store, screen, history
  <2>2. Registered' = Registered /\ \A e : DirOf(e)' = DirOf(e)
    BY <2>1 DEF Registered, DirOf, Moving, who
  <2>3. Emptied'
    BY <2>1 DEF TidyInv, Emptied
  <2> QED
    BY <2>1, <2>2, <2>3, SameData
<1>6. CASE Die
  BY <1>6, DieRows, NoMove DEF Die, Moving, Emptied
<1> QED
  BY <1>1, <1>2, <1>3, <1>4, <1>5, <1>6 DEF Next

LEMMA AccountsInvariant == Spec => []AccountsInv
<1>1. Init => AccountsInv
  BY InitAccounts
<1>2. AccountsInv /\ [Next]_vars => AccountsInv'
  <2> SUFFICES ASSUME AccountsInv, [Next]_vars PROVE AccountsInv'
    OBVIOUS
  <2>1. ASSUME Orderly' PROVE Types' /\ OrderlyInv'
    BY <2>1, NeverAgain, StepTypes, OrderlyStep DEF AccountsInv, Orderly
  <2>2. ASSUME Tidy' PROVE TidyInv'
    BY <2>2, NeverAgain, TidyStep DEF AccountsInv, Tidy, Orderly
  <2> QED
    BY <2>1, <2>2 DEF AccountsInv
<1> QED
  BY <1>1, <1>2, PTL DEF Spec

-----------------------------------------------------------------------------
\* A session has its own account's row and password, but for what was deleted,
\* not stored or reset behind it, whatever names and passwords were changed,
\* accounts deleted, answers saved and processes killed.
THEOREM SessionsHaveRows == Spec => []SessionHasRow
<1>1. AccountsInv => SessionHasRow
  BY Signed DEF AccountsInv, SessionHasRow, SessionHeld, Held
<1> QED
  BY <1>1, AccountsInvariant, PTL

\* The signed-in account's directory holds data of no other account.
THEOREM OnlyOwnData == Spec => []SeesOwnData
<1>1. AccountsInv => SeesOwnData
  <2> SUFFICES ASSUME Types, OrderlyInv, TidyInv, In, dirs[session.name] # None
               PROVE  dirs[session.name] \subseteq {who}
    BY DEF AccountsInv, SeesOwnData, Tidy
  <2>1. todo = <<>> /\ session.name \in Names /\ Named(session.name) \subseteq {who}
    BY Signed DEF SessionHeld, Held
  <2>2. PICK e \in Registered : DirOf(e) = session.name /\ dirs[session.name] = {e}
    BY <2>1 DEF DataOwned, TidyInv
  <2>3. e \in Named(session.name)
    BY <2>1, <2>2, AtRest DEF Named, Moving
  <2> QED
    BY <2>1, <2>2, <2>3
<1> QED
  BY <1>1, AccountsInvariant, PTL

\* What an account's owner saved is in the directory of the name its row has.
THEOREM DataIsUnderTheName == Spec => []DataFollowsName
<1>1. AccountsInv => DataFollowsName
  BY AtRest DEF AccountsInv, DataFollowsName, TidyInv, DataPlaced, Moving, Tidy
<1> QED
  BY <1>1, AccountsInvariant, PTL

\* Every owner of an account signs in with the name and the password stored
\* last, when neither has blanks around it.
THEOREM EveryoneSignsIn == Spec => []CanSignIn
<1>1. AccountsInv => CanSignIn
  BY DEF AccountsInv, CanSignIn, OrderlyInv, RowsKnown, CheckUser, Named
<1> QED
  BY <1>1, AccountsInvariant, PTL
=============================================================================
