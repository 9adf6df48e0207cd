------------------------------- MODULE Accounts -------------------------------
(***************************************************************************)
(* Accounts: the screens before the tabs (MainViewController,              *)
(* SignUpViewController, LoginViewController with its loading screen), the *)
(* Profile tab, Firebase Auth's current user and the users collection.     *)
(*                                                                         *)
(* The calls to Auth go over the network side by side.  Auth takes over    *)
(* the user of a successful answer before it posts the callback to the     *)
(* main queue, and keeps the user when the process dies.  A form's         *)
(* callback replaces the root of the window the form is in: a form that    *)
(* was left, or whose root was replaced, is in no window.                  *)
(*                                                                         *)
(* E-mails and names lose the blanks around them as passwords do, so only  *)
(* passwords are typed with and without.                                   *)
(***************************************************************************)
EXTENDS Integers, FiniteSets, SequencesExt

CONSTANTS Emails,      \* an account's e-mail stands for its uid, too
          NoUser,      \* nobody is signed in
          NoAccount,   \* nobody signed up with this e-mail
          Cores,       \* passwords without the blanks around them
          ValidCores,  \* those that isPasswordValid accepts
          MaxForms,    \* bound: forms opened by one process
          MaxCalls     \* bound: calls to Auth under way at any time

ASSUME AccountsAssumption ==
  /\ NoUser \notin Emails /\ NoAccount \notin [core : Cores, padded : BOOLEAN]
  /\ ValidCores \subseteq Cores
  /\ MaxForms \in Nat /\ MaxCalls \in Nat

Text == [core : Cores, padded : BOOLEAN]

\* trimmingCharacters(in: .whitespacesAndNewlines)
Trim(text) == [core |-> text.core, padded |-> FALSE]

Users == Emails \cup {NoUser}

\* A call to Auth: the form that waits for it (0: none, it died with its process),
\* and how the server took it.
Verdicts == {"none", "ok", "taken", "noAccount", "wrongPassword"}
Call == [copy : 1 .. MaxCalls, kind : {"create", "signIn"}, email : Emails, password : Text,
         form : 0 .. MaxForms, verdict : Verdicts]
AnswerOf == [kind : {"create", "signIn"}, email : Emails, form : 1 .. MaxForms, ok : BOOLEAN]

Screens == {"main", "signUp", "login", "loading", "leavingToHome", "leavingToLogin", "home"}

VARIABLES accounts,   \* Auth's server: e-mail -> password
          calls,      \* calls to Auth under way; copies of one are numbered
          answers,    \* Auth's callbacks on the main queue
          current,    \* Auth.auth().currentUser, persisted
          queued,     \* writes of profile documents, in the mutation queues of users
          stored,     \* e-mail -> profile documents on the server
          screen,     \* what the window shows
          form,       \* number of the last form opened
          errorShown, \* errorLabel of the form on the screen
          profile,    \* the Profile tab: whose names it asked for, and whether it has them
          asked,      \* history: the e-mail a patient user typed last
          patient,    \* history: the user never acted while a call was under way
          lost        \* history: accounts whose profile document failed with a step before it

authVars == <<accounts, calls, answers, current>>
storeVars == <<queued, stored>>
screenVars == <<screen, form, errorShown, profile>>
vars == <<authVars, storeVars, screenVars, asked, patient, lost>>

NoProfile == [uid |-> NoUser, shown |-> FALSE]

Init ==
  /\ accounts = [e \in Emails |-> NoAccount]
  /\ calls = {} /\ answers = <<>> /\ current = NoUser
  /\ queued = <<>> /\ stored = [e \in Emails |-> 0]
  /\ screen = "main" /\ form = 0 /\ errorShown = FALSE /\ profile = NoProfile
  /\ asked = NoUser /\ patient = TRUE /\ lost = {}

-----------------------------------------------------------------------------
(* The forms. *)

Busy == answers # <<>> \/ \E call \in calls : call.form # 0

\* The user does something, patiently or not.
Gesture == patient' = (patient /\ ~Busy)

MayCall == Cardinality(calls) + Len(answers) < MaxCalls

OpenForm(name) ==
  /\ screen = "main" /\ form < MaxForms
  /\ Gesture
  /\ screen' = name /\ form' = form + 1 /\ errorShown' = FALSE
  /\ UNCHANGED <<authVars, storeVars, profile, asked, lost>>

OpenSignUp == OpenForm("signUp")
OpenLogin == OpenForm("login")

Back ==
  /\ screen \in {"signUp", "login"}
  /\ Gesture
  /\ screen' = "main" /\ errorShown' = FALSE
  /\ UNCHANGED <<authVars, storeVars, form, profile, asked, lost>>

CallAuth(kind, email, password) ==
  LET Copy(n, v) == [copy |-> n, kind |-> kind, email |-> email, password |-> password,
                     form |-> form, verdict |-> v]
      new == {n \in 1 .. MaxCalls : \A v \in Verdicts : Copy(n, v) \notin calls}
  IN /\ MayCall /\ new # {}
     /\ calls' = calls \cup {Copy(CHOOSE n \in new : TRUE, "none")}
     /\ asked' = IF Busy THEN asked ELSE email

\* validateFields looks at the trimmed password.
FieldsValid(password) == Trim(password).core \in ValidCores

\* Mutant of SignUpTapped: the home screen is opened without waiting.
SignUpOpensHome ==
  /\ screen = "signUp"
  /\ Gesture
  /\ \E email \in Emails, password \in Text :
       FieldsValid(password) /\ CallAuth("create", email, Trim(password))
  /\ screen' = "home"
  /\ UNCHANGED <<accounts, answers, current, storeVars, form, errorShown, profile, lost>>

\* signUpTapped.  The passwords are compared as they were typed.  The button stays
\* enabled while the call is under way.
SignUpTapped ==
  /\ screen = "signUp"
  /\ Gesture
  /\ \E email \in Emails, password, confirmed \in Text :
       IF FieldsValid(password) /\ password = confirmed
         THEN /\ CallAuth("create", email, Trim(password))
              /\ UNCHANGED errorShown
         ELSE /\ errorShown' = TRUE
              /\ UNCHANGED <<calls, asked>>
  /\ UNCHANGED <<accounts, answers, current, storeVars, screen, form, profile, lost>>

\* Mutant of LoginTapped: the password is sent as it was typed.
LoginUntrimmed ==
  /\ screen = "login"
  /\ Gesture
  /\ \E email \in Emails, password \in Text : CallAuth("signIn", email, password)
  /\ screen' = "loading"
  /\ UNCHANGED <<accounts, answers, current, storeVars, form, errorShown, profile, lost>>

\* loginTapped checks nothing; the loading screen covers the form, and signIn is
\* called when it is there.
LoginTapped ==
  /\ screen = "login"
  /\ Gesture
  /\ \E email \in Emails, password \in Text :
       CallAuth("signIn", email, Trim(password))
  /\ screen' = "loading"
  /\ UNCHANGED <<accounts, answers, current, storeVars, form, errorShown, profile, lost>>

-----------------------------------------------------------------------------
(* Firebase Auth. *)

VerdictOn(call) ==
  CASE call.kind = "create" /\ accounts[call.email] = NoAccount -> "ok"
    [] call.kind = "create" /\ accounts[call.email] # NoAccount -> "taken"
    [] call.kind = "signIn" /\ accounts[call.email] = NoAccount -> "noAccount"
    [] call.kind = "signIn" /\ accounts[call.email] # NoAccount ->
         IF accounts[call.email] = call.password THEN "ok" ELSE "wrongPassword"

\* The server takes the calls in any order.
Serve ==
  \E call \in calls :
    LET verdict == VerdictOn(call)
    IN /\ call.verdict = "none"
       /\ calls' = (calls \ {call}) \cup {[call EXCEPT !.verdict = verdict]}
       /\ accounts' = IF call.kind = "create" /\ verdict = "ok"
                        THEN [accounts EXCEPT ![call.email] = call.password]
                        ELSE accounts
       /\ UNCHANGED <<answers, current, storeVars, screenVars, asked, patient, lost>>

Created(call) == call.kind = "create" /\ call.verdict = "ok"

AnswerTo(call, ok) ==
  [kind |-> call.kind, email |-> call.email, form |-> call.form, ok |-> ok]

\* The call ends with its verdict, or with an error of the network, whatever became
\* of it on the server.  The user of a success is current before the callback runs.
Answer ==
  \E call \in calls, ok \in BOOLEAN :
    LET heard == ok /\ call.form # 0
    IN /\ ok => call.verdict = "ok"
       /\ calls' = calls \ {call}
       /\ answers' = IF call.form = 0 THEN answers ELSE Append(answers, AnswerTo(call, ok))
       /\ current' = IF heard THEN call.email ELSE current
       /\ lost' = IF Created(call) /\ ~heard THEN lost \cup {call.email} ELSE lost
       /\ UNCHANGED <<accounts, storeVars, screenVars, asked, patient>>

-----------------------------------------------------------------------------
(* Callbacks on the main queue. *)

Arrived(kind) == answers # <<>> /\ Head(answers).kind = kind

\* view.window of the sign-up form that waits for this answer
InWindow == screen = "signUp" /\ form = Head(answers).form

\* Mutant of TransitionToHome: the root is replaced from wherever the user is.
TransitionAlways ==
  /\ screen' = "home" /\ profile' = NoProfile /\ errorShown' = FALSE

TransitionToHome ==
  IF InWindow
    THEN screen' = "home" /\ profile' = NoProfile /\ errorShown' = FALSE
    ELSE UNCHANGED <<screen, profile, errorShown>>

\* addDocument to users.  Firestore keeps a queue per user.  It hears of users on the
\* main queue, where Auth posts each just before the callback of the same call; if it
\* is first used here, it starts with the user who is current by now.
AddProfile(email) ==
  \E user \in {email, current} : queued' = Append(queued, [queue |-> user, uid |-> email])

\* Mutant of CreateAnswered: a form that was left does nothing.
CreateAnsweredIfThere ==
  /\ Arrived("create")
  /\ answers' = Tail(answers)
  /\ IF Head(answers).ok
       THEN IF InWindow
              THEN AddProfile(Head(answers).email) /\ TransitionToHome
              ELSE UNCHANGED <<queued, screen, profile, errorShown>>
       ELSE /\ errorShown' = (errorShown \/ InWindow)
            /\ UNCHANGED <<queued, screen, profile>>
  /\ UNCHANGED <<accounts, calls, current, stored, form, asked, patient, lost>>

\* Mutant of CreateAnswered: the profile document is forgotten.
CreateForgetsProfile ==
  /\ Arrived("create")
  /\ answers' = Tail(answers)
  /\ IF Head(answers).ok
       THEN TransitionToHome /\ UNCHANGED queued
       ELSE /\ errorShown' = (errorShown \/ InWindow)
            /\ UNCHANGED <<queued, screen, profile>>
  /\ UNCHANGED <<accounts, calls, current, stored, form, asked, patient, lost>>

\* signUpTapped's completion: the document is not waited for.
CreateAnswered ==
  /\ Arrived("create")
  /\ answers' = Tail(answers)
  /\ IF Head(answers).ok
       THEN AddProfile(Head(answers).email) /\ TransitionToHome
       ELSE /\ errorShown' = (errorShown \/ InWindow)
            /\ UNCHANGED <<queued, screen, profile>>
  /\ UNCHANGED <<accounts, calls, current, stored, form, asked, patient, lost>>

\* Mutant of SignInAnswered: an error is shown under the loading screen.
SignInErrorStays ==
  /\ Arrived("signIn")
  /\ answers' = Tail(answers)
  /\ IF Head(answers).ok
       THEN screen' = "leavingToHome" /\ UNCHANGED errorShown
       ELSE UNCHANGED <<screen, errorShown>>
  /\ UNCHANGED <<accounts, calls, current, storeVars, form, profile, asked, patient, lost>>

\* loginTapped's completion: the loading screen is dismissed.
SignInAnswered ==
  /\ Arrived("signIn")
  /\ answers' = Tail(answers)
  /\ screen' = IF Head(answers).ok THEN "leavingToHome" ELSE "leavingToLogin"
  /\ UNCHANGED <<accounts, calls, current, storeVars, form, errorShown, profile,
                 asked, patient, lost>>

\* The completion of that dismissal.
LoadingDismissed ==
  /\ \/ screen = "leavingToLogin" /\ screen' = "login" /\ errorShown' = TRUE /\ UNCHANGED profile
     \/ screen = "leavingToHome" /\ screen' = "home" /\ errorShown' = FALSE /\ profile' = NoProfile
  /\ UNCHANGED <<authVars, storeVars, form, asked, patient, lost>>

-----------------------------------------------------------------------------
(* The Profile tab and the users collection. *)

\* ProfileViewController.viewDidLoad and fetchUserInfo, when the tab is first selected.
OpenProfile ==
  /\ screen = "home" /\ profile.uid = NoUser /\ current # NoUser
  /\ Gesture
  /\ profile' = [uid |-> current, shown |-> FALSE]
  /\ UNCHANGED <<authVars, storeVars, screen, form, errorShown, asked, lost>>

\* The current user's own writes are laid over what the server has.
Visible(uid) ==
  stored[uid] > 0 \/ \E i \in DOMAIN queued : queued[i] = [queue |-> current, uid |-> uid]

\* The snapshot listener's callback.
NamesArrive ==
  /\ screen = "home" /\ profile.uid # NoUser /\ ~profile.shown
  /\ Visible(profile.uid)
  /\ profile' = [profile EXCEPT !.shown = TRUE]
  /\ UNCHANGED <<authVars, storeVars, screen, form, errorShown, asked, patient, lost>>

\* The server accepts or refuses the first write of the current user's queue.
ProfileSettles ==
  /\ \E i \in DOMAIN queued :
       /\ queued[i].queue = current
       /\ \A j \in 1 .. i - 1 : queued[j].queue # current
       /\ queued' = RemoveAt(queued, i)
       /\ \/ /\ stored' = [stored EXCEPT ![queued[i].uid] = @ + 1]
             /\ UNCHANGED lost
          \/ /\ lost' = lost \cup {queued[i].uid}
             /\ UNCHANGED stored
  /\ UNCHANGED <<authVars, screenVars, asked, patient>>

\* Mutant of SignOutPressed: the main screen is put over the tabs, which stay.
SignOutKeepsProfile ==
  /\ screen = "home"
  /\ Gesture
  /\ current' = NoUser
  /\ screen' = "main"
  /\ UNCHANGED <<accounts, calls, answers, storeVars, form, errorShown, profile, asked, lost>>

\* The listener is never removed, but the labels it fills are gone.
SignOutPressed ==
  /\ screen = "home"
  /\ Gesture
  /\ current' = NoUser
  /\ screen' = "main" /\ profile' = NoProfile
  /\ UNCHANGED <<accounts, calls, answers, storeVars, form, errorShown, asked, lost>>

-----------------------------------------------------------------------------
(* The process dies and is started again: Main is the first screen, whoever is
   signed in.  Sign-ups that are on their way go on without anybody waiting. *)

OnTheirWay == {call \in calls : call.kind = "create" /\ call.verdict = "none"}

CreatedUnheard ==
  {call.email : call \in {c \in calls : Created(c)}}
    \cup {answers[i].email :
            i \in {j \in DOMAIN answers : answers[j].kind = "create" /\ answers[j].ok}}

Relaunch ==
  /\ Gesture
  /\ lost' = lost \cup CreatedUnheard
  /\ calls' = {[call EXCEPT !.form = 0] : call \in OnTheirWay}
  /\ answers' = <<>>
  /\ screen' = "main" /\ form' = 0 /\ errorShown' = FALSE /\ profile' = NoProfile
  /\ UNCHANGED <<accounts, current, storeVars, asked>>

-----------------------------------------------------------------------------
User ==
  \/ OpenSignUp \/ OpenLogin \/ Back \/ SignUpTapped \/ LoginTapped
  \/ OpenProfile \/ SignOutPressed \/ Relaunch

MainQueue == CreateAnswered \/ SignInAnswered \/ LoadingDismissed

Network == Serve \/ Answer \/ NamesArrive \/ ProfileSettles

Next == User \/ MainQueue \/ Network

Spec == Init /\ [][Next]_vars

=============================================================================
