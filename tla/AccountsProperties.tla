-------------------------- MODULE AccountsProperties --------------------------
(* What holds of the accounts in every behaviour of Accounts. *)
EXTENDS Accounts

\* Every variable has its type; the Profile tab is there only with the home screen, and
\* no error is left for the screens that have no label for it.
TypeOK ==
  /\ accounts \in [Emails -> Text \cup {NoAccount}]
  /\ calls \subseteq Call /\ answers \in Seq(AnswerOf)
  /\ current \in Users /\ asked \in Users
  /\ queued \in Seq([queue : Users, uid : Emails])
  /\ stored \in [Emails -> Nat]
  /\ screen \in Screens /\ form \in 0 .. MaxForms
  /\ errorShown \in BOOLEAN /\ patient \in BOOLEAN
  /\ profile \in [uid : Users, shown : BOOLEAN]
  /\ lost \subseteq Emails
  /\ screen # "home" => profile = NoProfile
  /\ screen \in {"main", "home"} => ~errorShown

-----------------------------------------------------------------------------
(* Profiles *)

Count(sequence, Test(_)) == Cardinality({i \in DOMAIN sequence : Test(sequence[i])})

\* Profile documents of this account that exist or that will be written.
ProfilesOf(email) ==
  stored[email]
    + Count(queued, LAMBDA w : w.uid = email)
    + Count(answers, LAMBDA a : a.kind = "create" /\ a.ok /\ a.email = email)
    + Cardinality({call \in calls : Created(call) /\ call.email = email})

\* Every account has exactly one profile document, written or on its way, unless the
\* answer to its creation, its process or the write itself failed; e-mails without
\* an account, and accounts after such a failure, have none.  Double taps, leaving the
\* form and other sign-ins in between make no difference (signUpTapped).
ProfilesMatchAccounts ==
  \A email \in Emails :
    ProfilesOf(email) = IF accounts[email] # NoAccount /\ email \notin lost THEN 1 ELSE 0

-----------------------------------------------------------------------------
(* The home screen *)

\* The tabs are only ever on the screen while somebody is signed in: an answer that
\* comes after a sign-out cannot bring them back (transitionToHome, loginTapped).
HomeHasUser == screen = "home" => current # NoUser

\* For a user who waits for every answer, the home screen is that of the account
\* asked for last, and the Profile tab is about nobody else.
PatientUserIsCurrent ==
  patient /\ screen = "home" => current = asked /\ profile.uid \in {NoUser, current}

\* A password is never refused for the blanks around it, at sign-up or now: what is
\* refused is another word (signUpTapped and loginTapped trim alike).
AcceptsItsPassword ==
  \A call \in calls :
    call.verdict = "wrongPassword" => call.password.core # accounts[call.email].core

-----------------------------------------------------------------------------
(* Fairness: Auth ends every call, with an error when the network does not answer;
   the main queue runs; UIKit finishes its animations; a listener hears of what it can
   see. *)
LiveSpec ==
  /\ Spec
  /\ WF_vars(Answer)
  /\ WF_vars(MainQueue)
  /\ WF_vars(NamesArrive)

\* The loading screen, which takes every touch, goes away, for the home screen or for
\* the form with an error on it.
LoadingEnds ==
  screen = "loading" ~> screen \in {"main", "home"} \/ (screen = "login" /\ errorShown)

\* Somebody who waited for every answer and looks at the Profile tab sees the names of
\* the account, unless its profile document failed.
NamesAppear ==
  (patient /\ screen = "home" /\ profile.uid # NoUser)
    ~> (profile.shown \/ screen # "home" \/ profile.uid \in lost)

=============================================================================
