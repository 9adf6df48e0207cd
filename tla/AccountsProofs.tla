---------------------------- MODULE AccountsProofs ----------------------------
(***************************************************************************)
(* Theorems about the accounts, for every set of e-mails and passwords and *)
(* every bound.                                                            *)
(*                                                                         *)
(* Why the home screen always has its user: only signing out makes the     *)
(* current user nobody, and it is done on the home screen.  An answer that *)
(* can still open a home screen is one for the form or the loading screen  *)
(* that is on the screen, so none is under way at that moment, and a form  *)
(* opened later has a number that no answer under way has.                 *)
(*                                                                         *)
(* Why every account has one profile: it is stored, in a queue, in an      *)
(* answer or in a call that was carried out, and every step moves it from  *)
(* one of these to the next or loses the account with it.                  *)
(***************************************************************************)
EXTENDS AccountsProperties, FiniteSetTheorems, FunctionTheorems, SequenceTheorems, TLAPS

\* No call or answer is for a form that was not opened yet.
FormsOpened ==
  /\ \A call \in calls : call.form <= form
  /\ \A i \in DOMAIN answers : answers[i].form <= form

\* A sign-in is under way only under the loading screen ...
SignInLoads ==
  /\ (\E call \in calls : call.kind = "signIn") => screen = "loading"
  /\ (\E i \in DOMAIN answers : answers[i].kind = "signIn") => screen = "loading"

\* ... and it is the only one.
OneSignIn ==
  /\ \A c, d \in calls : c.kind = "signIn" /\ d.kind = "signIn" => c = d
  /\ \A i, j \in DOMAIN answers :
       answers[i].kind = "signIn" /\ answers[j].kind = "signIn" => i = j
  /\ \A c \in calls, i \in DOMAIN answers : ~(c.kind = "signIn" /\ answers[i].kind = "signIn")

\* The answer may open the home screen.
Opens(answer) ==
  /\ answer.ok
  /\ answer.kind = "signIn" \/ (screen = "signUp" /\ answer.form = form)

UserBehindHome ==
  /\ screen \in {"leavingToHome", "home"} => current # NoUser
  /\ \A i \in DOMAIN answers : Opens(answers[i]) => current # NoUser

IInv == TypeOK /\ FormsOpened /\ SignInLoads /\ OneSignIn /\ UserBehindHome

-----------------------------------------------------------------------------
(* Sequences and calls *)

LEMMA RemoveAtInSeq ==
  ASSUME NEW S, NEW s \in Seq(S), NEW i \in DOMAIN s
  PROVE  RemoveAt(s, i) \in Seq(S)
<1>1. i \in 1 .. Len(s) /\ Len(s) \in Nat
  BY LenProperties
<1>2. SubSeq(s, 1, i-1) \in Seq(S) /\ SubSeq(s, i+1, Len(s)) \in Seq(S)
  BY <1>1, ElementOfSeq, SubSeqProperties
<1> QED
  BY <1>2, ConcatProperties DEF RemoveAt

\* What taking the first answer leaves.
LEMMA RestOfAnswers ==
  ASSUME answers \in Seq(AnswerOf), answers # <<>>
  PROVE  /\ Tail(answers) \in Seq(AnswerOf)
         /\ Head(answers) \in AnswerOf /\ Head(answers) = answers[1] /\ 1 \in DOMAIN answers
         /\ \A i \in DOMAIN Tail(answers) :
              i + 1 \in DOMAIN answers /\ i + 1 # 1 /\ Tail(answers)[i] = answers[i + 1]
<1>1. /\ Len(answers) \in Nat \ {0} /\ DOMAIN answers = 1 .. Len(answers)
      /\ \A i \in 1 .. Len(answers) : answers[i] \in AnswerOf
  BY EmptySeq, LenProperties, ElementOfSeq
<1>2. /\ Head(answers) = answers[1] /\ Tail(answers) \in Seq(AnswerOf)
      /\ Len(Tail(answers)) = Len(answers) - 1
      /\ \A i \in 1 .. Len(Tail(answers)) : Tail(answers)[i] = answers[i + 1]
  BY HeadTailProperties
<1>3. DOMAIN Tail(answers) = 1 .. Len(Tail(answers))
  BY <1>2, LenProperties
<1> QED
  BY <1>1, <1>2, <1>3

\* What posting an answer makes of them.
LEMMA OneMoreAnswer ==
  ASSUME answers \in Seq(AnswerOf), NEW answer \in AnswerOf
  PROVE  /\ Append(answers, answer) \in Seq(AnswerOf)
         /\ \A i \in DOMAIN Append(answers, answer) :
              \/ i \in DOMAIN answers /\ Append(answers, answer)[i] = answers[i]
              \/ i = Len(answers) + 1 /\ Append(answers, answer)[i] = answer
<1>1. Len(answers) \in Nat /\ DOMAIN answers = 1 .. Len(answers)
  BY LenProperties
<1>2. /\ Append(answers, answer) \in Seq(AnswerOf)
      /\ Len(Append(answers, answer)) = Len(answers) + 1
      /\ \A i \in 1 .. Len(answers) : Append(answers, answer)[i] = answers[i]
      /\ Append(answers, answer)[Len(answers) + 1] = answer
  BY AppendProperties
<1>3. DOMAIN Append(answers, answer) = 1 .. Len(answers) + 1
  BY <1>2, LenProperties
<1> QED
  BY <1>1, <1>2, <1>3

\* Calling Auth adds one call, for the form on the screen.
LEMMA OneMoreCall ==
  ASSUME TypeOK, NEW kind \in {"create", "signIn"}, NEW email \in Emails, NEW password \in Text,
         CallAuth(kind, email, password)
  PROVE  /\ asked' \in Users
         /\ asked' = IF Busy THEN asked ELSE email
         /\ \E call \in Call : /\ call.kind = kind /\ call.form = form /\ call.verdict = "none"
                               /\ call.email = email /\ call.password = password
                               /\ calls' = calls \cup {call}
<1> DEFINE Copy(n, v) == [copy |-> n, kind |-> kind, email |-> email, password |-> password,
                          form |-> form, verdict |-> v]
           new == {n \in 1 .. MaxCalls : \A v \in Verdicts : Copy(n, v) \notin calls}
           n0 == CHOOSE n \in new : TRUE
<1>1. new # {} /\ calls' = calls \cup {Copy(n0, "none")} /\ asked' = IF Busy THEN asked ELSE email
  BY DEF CallAuth
<1>2. n0 \in 1 .. MaxCalls
  BY <1>1
<1>3. Copy(n0, "none") \in Call
  BY <1>2 DEF TypeOK, Call, Verdicts
<1> QED
  BY <1>1, <1>3 DEF TypeOK, Users

LEMMA TrimTyped == ASSUME NEW password \in Text PROVE Trim(password) \in Text
BY DEF Trim, Text

LEMMA Typed ==
  ASSUME TypeOK
  PROVE  /\ form \in Nat /\ MaxForms \in Nat
         /\ \A call \in calls : call \in Call /\ call.form \in Nat /\ call.form <= MaxForms
                                /\ call.email \in Emails /\ call.password \in Text
         /\ \A i \in DOMAIN answers : answers[i] \in AnswerOf /\ answers[i].form \in Nat
                                      /\ answers[i].email \in Emails
<1>1. form \in Nat /\ MaxForms \in Nat
  BY AccountsAssumption DEF TypeOK
<1>2. \A call \in calls : call \in Call
  BY DEF TypeOK
<1>3. \A call \in Call : call.form \in 0 .. MaxForms /\ call.email \in Emails /\ call.password \in Text
  BY DEF Call
<1>4. \A i \in DOMAIN answers : answers[i] \in AnswerOf
  BY ElementOfSeq, LenProperties DEF TypeOK
<1>5. \A a \in AnswerOf : a.form \in 1 .. MaxForms /\ a.email \in Emails
  BY DEF AnswerOf
<1> QED
  BY <1>1, <1>2, <1>3, <1>4, <1>5

-----------------------------------------------------------------------------
(* Initial states *)

LEMMA InitIInv == Init => IInv
<1> SUFFICES ASSUME Init PROVE IInv
  OBVIOUS
<1>1. answers \in Seq(AnswerOf) /\ queued \in Seq([queue : Users, uid : Emails])
  BY EmptySeq DEF Init
<1>2. profile \in [uid : Users, shown : BOOLEAN]
  BY DEF Init, NoProfile, Users
<1>3. accounts \in [Emails -> Text \cup {NoAccount}] /\ stored \in [Emails -> Nat]
  BY DEF Init
<1>4. TypeOK
  <2>1. calls \subseteq Call /\ lost \subseteq Emails
    BY DEF Init
  <2>2. form \in 0 .. MaxForms
    BY AccountsAssumption DEF Init
  <2>3. current \in Users /\ asked \in Users /\ screen \in Screens
    BY DEF Init, Users, Screens
  <2>4. errorShown = FALSE /\ patient = TRUE /\ profile = NoProfile
    BY DEF Init
  <2> QED
    BY <1>1, <1>2, <1>3, <2>1, <2>2, <2>3, <2>4 DEF TypeOK
<1>5. FormsOpened /\ SignInLoads /\ OneSignIn /\ UserBehindHome
  BY DEF Init, FormsOpened, SignInLoads, OneSignIn, UserBehindHome, Opens
<1> QED
  BY <1>4, <1>5 DEF IInv

-----------------------------------------------------------------------------
(* Steps that leave calls and answers alone *)

LEMMA ScreenStep ==
  ASSUME IInv, TypeOK', UNCHANGED <<calls, answers>>, form' >= form,
         screen = "loading" => screen' = "loading",
         screen' \in {"leavingToHome", "home"} => current' # NoUser,
         current' = current \/ (screen # "loading" /\ screen' # "signUp"),
         screen' = "signUp" => (screen = "signUp" /\ form' = form) \/ form' > form
  PROVE  IInv'
<1>1. /\ form \in Nat /\ form' \in Nat
      /\ \A call \in calls : call.form \in Nat
      /\ \A i \in DOMAIN answers : answers[i].form \in Nat
  BY Typed, AccountsAssumption DEF IInv, TypeOK
<1>2. FormsOpened'
  BY <1>1 DEF IInv, FormsOpened
<1>3. SignInLoads' /\ OneSignIn'
  BY DEF IInv, SignInLoads, OneSignIn
<1>4. ASSUME NEW i \in DOMAIN answers, Opens(answers[i])'
      PROVE  current' # NoUser
  <2>1. CASE answers[i].kind = "signIn"
    BY <1>4, <2>1 DEF IInv, SignInLoads, UserBehindHome, Opens
  <2>2. CASE screen' = "signUp" /\ answers[i].form = form'
    BY <1>1, <1>4, <2>2 DEF IInv, FormsOpened, UserBehindHome, Opens
  <2> QED
    BY <1>4, <2>1, <2>2 DEF Opens
<1>5. UserBehindHome'
  BY <1>4 DEF UserBehindHome
<1> QED
  BY <1>2, <1>3, <1>5 DEF IInv

LEMMA Looking ==
  ASSUME IInv, OpenSignUp \/ OpenLogin \/ Back \/ LoadingDismissed
               \/ OpenProfile \/ NamesArrive \/ SignOutPressed
  PROVE  IInv'
<1> USE DEF IInv
<1>1. form \in 0 .. MaxForms /\ MaxForms \in Nat
  BY AccountsAssumption DEF TypeOK
<1>2. NoProfile \in [uid : Users, shown : BOOLEAN] /\ NoUser \in Users
  BY DEF NoProfile, Users
<1>3. ASSUME NEW name \in {"signUp", "login"}, OpenForm(name) PROVE IInv'
  <2>1. form' \in 0 .. MaxForms /\ screen' \in Screens
    BY <1>1, <1>3 DEF OpenForm, Screens
  <2>2. errorShown' \in BOOLEAN /\ patient' \in BOOLEAN
    BY <1>3 DEF OpenForm, Gesture, TypeOK
  <2>3. TypeOK'
    BY <1>3, <2>1, <2>2 DEF OpenForm, TypeOK, authVars, storeVars
  <2> QED
    BY <1>1, <1>3, <2>3, ScreenStep DEF OpenForm, authVars
<1>4. CASE Back
  <2>1. TypeOK'
    BY <1>4 DEF Back, Gesture, TypeOK, Screens, authVars, storeVars
  <2> QED
    BY <1>1, <1>4, <2>1, ScreenStep DEF Back, authVars
<1>5. CASE LoadingDismissed
  <2>1. TypeOK'
    BY <1>2, <1>5 DEF LoadingDismissed, TypeOK, Screens, authVars, storeVars
  <2> QED
    BY <1>1, <1>5, <2>1, ScreenStep DEF LoadingDismissed, UserBehindHome, authVars
<1>6. CASE OpenProfile
  <2>1. TypeOK'
    BY <1>6 DEF OpenProfile, Gesture, TypeOK, authVars, storeVars
  <2> QED
    BY <1>1, <1>6, <2>1, ScreenStep DEF OpenProfile, UserBehindHome, authVars
<1>7. CASE NamesArrive
  <2>1. profile' \in [uid : Users, shown : BOOLEAN]
    BY <1>7 DEF NamesArrive, TypeOK
  <2>2. TypeOK'
    BY <1>7, <2>1 DEF NamesArrive, TypeOK, authVars, storeVars
  <2> QED
    BY <1>1, <1>7, <2>2, ScreenStep DEF NamesArrive, UserBehindHome, authVars
<1>8. CASE SignOutPressed
  <2>1. TypeOK'
    BY <1>2, <1>8 DEF SignOutPressed, Gesture, TypeOK, Screens, storeVars
  <2> QED
    BY <1>1, <1>8, <2>1, ScreenStep DEF SignOutPressed
<1> QED
  BY <1>3, <1>4, <1>5, <1>6, <1>7, <1>8 DEF OpenSignUp, OpenLogin

-----------------------------------------------------------------------------
(* The buttons of the forms *)

LEMMA SigningUp ==
  ASSUME IInv, SignUpTapped
  PROVE  IInv'
<1> USE DEF IInv
<1>1. PICK email \in Emails, password \in Text, confirmed \in Text :
        IF FieldsValid(password) /\ password = confirmed
          THEN CallAuth("create", email, Trim(password)) /\ UNCHANGED errorShown
          ELSE errorShown' = TRUE /\ UNCHANGED <<calls, asked>>
  BY DEF SignUpTapped
<1>2. /\ screen = "signUp" /\ patient' = (patient /\ ~Busy)
      /\ UNCHANGED <<accounts, answers, current, queued, stored, screen, form, profile, lost>>
  BY DEF SignUpTapped, Gesture, storeVars
<1>3. CASE FieldsValid(password) /\ password = confirmed
  <2>1. CallAuth("create", email, Trim(password)) /\ UNCHANGED errorShown
    BY <1>1, <1>3
  <2>2. /\ asked' \in Users
        /\ \E call \in Call : call.kind = "create" /\ call.form = form /\ calls' = calls \cup {call}
    BY <2>1, OneMoreCall, TrimTyped
  <2>3. PICK call \in Call : call.kind = "create" /\ call.form = form /\ calls' = calls \cup {call}
    BY <2>2
  <2>4. TypeOK'
    BY <1>2, <2>1, <2>2, <2>3 DEF TypeOK
  <2>5. form <= form
    BY Typed
  <2>6. FormsOpened'
    BY <1>2, <2>3, <2>5 DEF FormsOpened
  <2>7. SignInLoads' /\ OneSignIn'
    BY <1>2, <2>3 DEF SignInLoads, OneSignIn
  <2>8. UserBehindHome'
    BY <1>2 DEF UserBehindHome, Opens
  <2> QED
    BY <2>4, <2>6, <2>7, <2>8
<1>4. CASE ~(FieldsValid(password) /\ password = confirmed)
  <2>1. errorShown' = TRUE /\ UNCHANGED <<calls, asked>>
    BY <1>1, <1>4
  <2>2. TypeOK'
    BY <1>2, <2>1 DEF TypeOK
  <2>3. form \in Nat
    BY Typed
  <2> QED
    BY <1>2, <2>1, <2>2, <2>3, ScreenStep DEF UserBehindHome
<1> QED
  BY <1>3, <1>4

LEMMA LoggingIn ==
  ASSUME IInv, LoginTapped
  PROVE  IInv'
<1> USE DEF IInv
<1>1. PICK email \in Emails, password \in Text : CallAuth("signIn", email, Trim(password))
  BY DEF LoginTapped
<1>2. /\ screen = "login" /\ screen' = "loading" /\ patient' = (patient /\ ~Busy)
      /\ UNCHANGED <<accounts, answers, current, queued, stored, form, errorShown, profile, lost>>
  BY DEF LoginTapped, Gesture, storeVars
<1>3. /\ asked' \in Users
      /\ \E call \in Call : call.kind = "signIn" /\ call.form = form /\ calls' = calls \cup {call}
  BY <1>1, OneMoreCall, TrimTyped
<1>4. PICK call \in Call : call.kind = "signIn" /\ call.form = form /\ calls' = calls \cup {call}
  BY <1>3
<1>5. TypeOK'
  BY <1>2, <1>3, <1>4 DEF TypeOK, Screens
<1>6. form <= form
  BY Typed
<1>7. FormsOpened'
  BY <1>2, <1>4, <1>6 DEF FormsOpened
<1>8. SignInLoads' /\ OneSignIn'
  <2>1. \A i \in DOMAIN answers : answers[i].kind # "signIn"
    BY <1>2 DEF SignInLoads
  <2>2. \A c \in calls : c.kind # "signIn"
    BY <1>2 DEF SignInLoads
  <2> QED
    BY <1>2, <1>4, <2>1, <2>2 DEF SignInLoads, OneSignIn
<1>9. UserBehindHome'
  <2>1. \A i \in DOMAIN answers : answers[i].kind # "signIn"
    BY <1>2 DEF SignInLoads
  <2> QED
    BY <1>2, <2>1 DEF UserBehindHome, Opens
<1> QED
  BY <1>5, <1>7, <1>8, <1>9

-----------------------------------------------------------------------------
(* The network *)

LEMMA Serving ==
  ASSUME IInv, Serve
  PROVE  IInv'
<1> USE DEF IInv
<1>1. PICK call \in calls :
        /\ calls' = (calls \ {call}) \cup {[call EXCEPT !.verdict = VerdictOn(call)]}
        /\ accounts' = IF call.kind = "create" /\ VerdictOn(call) = "ok"
                         THEN [accounts EXCEPT ![call.email] = call.password]
                         ELSE accounts
        /\ UNCHANGED <<answers, current, storeVars, screenVars, asked, patient, lost>>
  BY DEF Serve
<1>2. call \in Call /\ call.email \in Emails /\ call.password \in Text
      /\ call.kind \in {"create", "signIn"}
  BY Typed DEF Call
<1>3. VerdictOn(call) \in Verdicts
  BY <1>2 DEF VerdictOn, Verdicts
<1> DEFINE served == [call EXCEPT !.verdict = VerdictOn(call)]
<1>4. served \in Call /\ served.kind = call.kind /\ served.form = call.form
  BY <1>2, <1>3 DEF Call
<1>5. TypeOK'
  <2>1. accounts' \in [Emails -> Text \cup {NoAccount}]
    BY <1>1, <1>2 DEF TypeOK
  <2>2. calls' \subseteq Call
    BY <1>1, <1>4 DEF TypeOK
  <2> QED
    BY <1>1, <2>1, <2>2 DEF TypeOK, storeVars, screenVars
<1> HIDE DEF served
<1>6. calls' = (calls \ {call}) \cup {served}
  BY <1>1 DEF served
<1>7. FormsOpened' /\ SignInLoads' /\ OneSignIn'
  BY <1>1, <1>4, <1>6 DEF FormsOpened, SignInLoads, OneSignIn, screenVars
<1>8. UserBehindHome'
  BY <1>1 DEF UserBehindHome, Opens, screenVars
<1> QED
  BY <1>5, <1>7, <1>8

LEMMA Answering ==
  ASSUME IInv, Answer
  PROVE  IInv'
<1> USE DEF IInv
<1>1. PICK call \in calls, ok \in BOOLEAN :
        /\ calls' = calls \ {call}
        /\ answers' = IF call.form = 0 THEN answers ELSE Append(answers, AnswerTo(call, ok))
        /\ current' = IF ok /\ call.form # 0 THEN call.email ELSE current
        /\ lost' = IF Created(call) /\ ~(ok /\ call.form # 0) THEN lost \cup {call.email} ELSE lost
        /\ UNCHANGED <<accounts, storeVars, screenVars, asked, patient>>
  BY DEF Answer
<1>2. /\ call.kind \in {"create", "signIn"} /\ call.email \in Emails
      /\ call.form \in 0 .. MaxForms /\ call.form <= form
  BY Typed DEF Call, FormsOpened
<1> DEFINE answer == AnswerTo(call, ok)
<1>3. /\ call.form # 0 => answer \in AnswerOf
      /\ answer.kind = call.kind /\ answer.form = call.form /\ answer.ok = ok
  BY <1>2, AccountsAssumption DEF AnswerTo, AnswerOf
<1>4. current' \in Users /\ lost' \subseteq Emails
  BY <1>1, <1>2 DEF TypeOK, Users
<1>5. /\ NoUser \notin Emails
      /\ current # NoUser => current' # NoUser
  BY <1>1, <1>2, AccountsAssumption
<1> HIDE DEF answer
<1>6. CASE call.form = 0
  <2>1. answers' = answers
    BY <1>1, <1>6
  <2>2. TypeOK'
    BY <1>1, <1>4, <2>1 DEF TypeOK, storeVars, screenVars
  <2>3. FormsOpened' /\ SignInLoads' /\ OneSignIn'
    BY <1>1, <2>1 DEF FormsOpened, SignInLoads, OneSignIn, screenVars
  <2>4. UserBehindHome'
    BY <1>1, <1>5, <2>1 DEF UserBehindHome, Opens, screenVars
  <2> QED
    BY <2>2, <2>3, <2>4
<1>7. CASE call.form # 0
  <2>1. answers' = Append(answers, answer) /\ answers \in Seq(AnswerOf)
    BY <1>1, <1>7 DEF answer, TypeOK
  <2>2. /\ answers' \in Seq(AnswerOf)
        /\ \A i \in DOMAIN answers' :
             \/ i \in DOMAIN answers /\ answers'[i] = answers[i]
             \/ i = Len(answers) + 1 /\ answers'[i] = answer
    BY <1>3, <1>7, <2>1, OneMoreAnswer
  <2>3. TypeOK'
    BY <1>1, <1>4, <2>2 DEF TypeOK, storeVars, screenVars
  <2>4. FormsOpened'
    BY <1>1, <1>2, <1>3, <2>2 DEF FormsOpened, screenVars
  <2>5. SignInLoads'
    BY <1>1, <1>3, <2>2 DEF SignInLoads, screenVars
  <2>6. OneSignIn'
    BY <1>1, <1>3, <2>2 DEF OneSignIn
  <2>7. ASSUME NEW i \in DOMAIN answers', Opens(answers[i])'
        PROVE  current' # NoUser
    <3>1. CASE i \in DOMAIN answers /\ answers'[i] = answers[i]
      BY <1>1, <1>5, <2>7, <3>1 DEF UserBehindHome, Opens, screenVars
    <3>2. CASE answers'[i] = answer
      BY <1>1, <1>2, <1>3, <1>5, <1>7, <2>7, <3>2 DEF Opens
    <3> QED
      BY <2>2, <3>1, <3>2
  <2>8. UserBehindHome'
    BY <1>1, <1>5, <2>7 DEF UserBehindHome, screenVars
  <2> QED
    BY <2>3, <2>4, <2>5, <2>6, <2>8
<1> QED
  BY <1>6, <1>7

LEMMA Settling ==
  ASSUME IInv, ProfileSettles
  PROVE  IInv'
<1> USE DEF IInv
<1>1. PICK i \in DOMAIN queued :
        /\ queued' = RemoveAt(queued, i)
        /\ \/ stored' = [stored EXCEPT ![queued[i].uid] = @ + 1] /\ UNCHANGED lost
           \/ lost' = lost \cup {queued[i].uid} /\ UNCHANGED stored
        /\ UNCHANGED <<authVars, screenVars, asked, patient>>
  BY DEF ProfileSettles
<1>2. queued \in Seq([queue : Users, uid : Emails]) /\ queued[i].uid \in Emails
  <2>1. queued \in Seq([queue : Users, uid : Emails])
    BY DEF TypeOK
  <2>2. queued[i] \in [queue : Users, uid : Emails]
    BY <2>1, ElementOfSeq, LenProperties
  <2> QED
    BY <2>1, <2>2
<1>3. queued' \in Seq([queue : Users, uid : Emails])
  BY <1>1, <1>2, RemoveAtInSeq
<1>4. stored' \in [Emails -> Nat] /\ lost' \subseteq Emails
  <2>1. stored \in [Emails -> Nat] /\ lost \subseteq Emails
    BY DEF TypeOK
  <2> QED
    BY ONLY <1>1, <1>2, <2>1
<1>5. TypeOK'
  BY <1>1, <1>3, <1>4 DEF TypeOK, authVars, screenVars
<1>6. form \in Nat
  BY Typed
<1> QED
  BY <1>1, <1>5, <1>6, ScreenStep DEF UserBehindHome, authVars, screenVars

-----------------------------------------------------------------------------
(* Callbacks on the main queue *)

\* Taking the first answer, when the screen stays, opens the home screen or starts to
\* leave the loading screen, and the answer allows it.
LEMMA CallbackStep ==
  ASSUME IInv, TypeOK', answers # <<>>, answers' = Tail(answers),
         UNCHANGED <<calls, current, form>>,
         screen' = screen
           \/ (screen = "signUp" /\ screen' = "home" /\ current # NoUser)
           \/ (Head(answers).kind = "signIn" /\ screen' = "leavingToLogin")
           \/ (Head(answers).kind = "signIn" /\ screen' = "leavingToHome" /\ current # NoUser)
  PROVE  IInv'
<1> USE DEF IInv
<1>1. /\ Head(answers) = answers[1] /\ 1 \in DOMAIN answers
      /\ \A i \in DOMAIN answers' :
           i + 1 \in DOMAIN answers /\ i + 1 # 1 /\ answers'[i] = answers[i + 1]
  BY RestOfAnswers DEF TypeOK
<1>2. FormsOpened'
  BY <1>1 DEF FormsOpened
<1>3. Head(answers).kind = "signIn" =>
        /\ \A i \in DOMAIN answers' : answers'[i].kind # "signIn"
        /\ \A call \in calls : call.kind # "signIn"
  BY <1>1 DEF OneSignIn
<1>4. SignInLoads'
  BY <1>1, <1>3 DEF SignInLoads
<1>5. OneSignIn'
  <2>1. ASSUME NEW i \in DOMAIN answers', NEW j \in DOMAIN answers',
               answers'[i].kind = "signIn", answers'[j].kind = "signIn"
        PROVE  i = j
    <3>1. i + 1 = j + 1
      BY <1>1, <2>1 DEF OneSignIn
    <3>2. i \in Nat /\ j \in Nat
      BY LenProperties DEF TypeOK
    <3> QED
      BY <3>1, <3>2
  <2> QED
    BY <1>1, <2>1 DEF OneSignIn
<1>6. ASSUME NEW i \in DOMAIN answers', Opens(answers[i])'
      PROVE  current' # NoUser
  <2>1. CASE screen' = screen
    BY <1>1, <1>6, <2>1 DEF UserBehindHome, Opens
  <2>2. CASE Head(answers).kind = "signIn" /\ screen' = "leavingToLogin"
    BY <1>3, <1>6, <2>2 DEF Opens
  <2> QED
    BY <2>1, <2>2
<1>7. UserBehindHome'
  BY <1>6 DEF UserBehindHome
<1> QED
  BY <1>2, <1>4, <1>5, <1>7

LEMMA Callbacks ==
  ASSUME IInv, CreateAnswered \/ SignInAnswered
  PROVE  IInv'
<1> USE DEF IInv
<1>1. answers # <<>> /\ answers' = Tail(answers)
  BY DEF CreateAnswered, SignInAnswered, Arrived
<1>2. /\ answers' \in Seq(AnswerOf)
      /\ Head(answers) \in AnswerOf /\ Head(answers) = answers[1] /\ 1 \in DOMAIN answers
  BY <1>1, RestOfAnswers DEF TypeOK
<1>3. Head(answers).email \in Emails /\ Head(answers).ok \in BOOLEAN
  BY <1>2 DEF AnswerOf
<1>4. NoProfile \in [uid : Users, shown : BOOLEAN]
  BY DEF NoProfile, Users
<1>5. CASE CreateAnswered
  <2>1. UNCHANGED <<accounts, calls, current, stored, form, asked, patient, lost>>
    BY <1>5 DEF CreateAnswered
  <2>2. CASE Head(answers).ok
    <3>1. AddProfile(Head(answers).email) /\ TransitionToHome
      BY <1>5, <2>2 DEF CreateAnswered
    <3>2. queued' \in Seq([queue : Users, uid : Emails])
      <4>1. PICK user \in {Head(answers).email, current} :
              queued' = Append(queued, [queue |-> user, uid |-> Head(answers).email])
        BY <3>1 DEF AddProfile
      <4>2. [queue |-> user, uid |-> Head(answers).email] \in [queue : Users, uid : Emails]
        BY <1>3 DEF TypeOK, Users
      <4> QED
        BY <4>1, <4>2, AppendProperties DEF TypeOK
    <3>3. CASE InWindow
      <4>1. screen = "signUp" /\ form = answers[1].form
        BY <1>2, <3>3 DEF InWindow
      <4>2. screen' = "home" /\ profile' = NoProfile /\ errorShown' = FALSE
        BY <3>1, <3>3 DEF TransitionToHome
      <4>3. TypeOK'
        BY <1>2, <1>4, <2>1, <3>2, <4>2 DEF TypeOK, Screens
      <4>4. current # NoUser
        BY <1>2, <2>2, <4>1 DEF UserBehindHome, Opens
      <4> QED
        BY <1>1, <2>1, <4>1, <4>2, <4>3, <4>4, CallbackStep
    <3>4. CASE ~InWindow
      <4>1. UNCHANGED <<screen, profile, errorShown>>
        BY <3>1, <3>4 DEF TransitionToHome
      <4>2. TypeOK'
        BY <1>2, <2>1, <3>2, <4>1 DEF TypeOK
      <4> QED
        BY <1>1, <2>1, <4>1, <4>2, CallbackStep
    <3> QED
      BY <3>3, <3>4
  <2>3. CASE ~Head(answers).ok
    <3>1. errorShown' = (errorShown \/ InWindow) /\ UNCHANGED <<queued, screen, profile>>
      BY <1>5, <2>3 DEF CreateAnswered
    <3>2. errorShown' \in BOOLEAN
      BY <3>1 DEF TypeOK, InWindow
    <3>3. screen' \in {"main", "home"} => ~errorShown'
      BY <3>1 DEF TypeOK, InWindow
    <3>4. TypeOK'
      BY <1>2, <2>1, <3>1, <3>2, <3>3 DEF TypeOK
    <3> QED
      BY <1>1, <2>1, <3>1, <3>4, CallbackStep
  <2> QED
    BY <2>2, <2>3
<1>6. CASE SignInAnswered
  <2>1. /\ Head(answers).kind = "signIn"
        /\ screen' = IF Head(answers).ok THEN "leavingToHome" ELSE "leavingToLogin"
        /\ UNCHANGED <<accounts, calls, current, queued, stored, form, errorShown, profile,
                       asked, patient, lost>>
    BY <1>6 DEF SignInAnswered, Arrived, storeVars
  <2>2. screen = "loading" /\ profile = NoProfile
    BY <1>2, <2>1 DEF SignInLoads, TypeOK
  <2>3. TypeOK'
    BY <1>2, <2>1, <2>2 DEF TypeOK, Screens
  <2>4. Head(answers).ok => current # NoUser
    BY <1>2, <2>1 DEF UserBehindHome, Opens
  <2> QED
    BY <1>1, <2>1, <2>3, <2>4, CallbackStep
<1> QED
  BY <1>5, <1>6

-----------------------------------------------------------------------------
(* The end of the process *)

LEMMA Dying ==
  ASSUME IInv, Relaunch
  PROVE  IInv'
<1> USE DEF IInv
<1>1. /\ calls' = {[call EXCEPT !.form = 0] : call \in OnTheirWay} /\ answers' = <<>>
      /\ screen' = "main" /\ form' = 0 /\ errorShown' = FALSE /\ profile' = NoProfile
      /\ lost' = lost \cup CreatedUnheard /\ patient' = (patient /\ ~Busy)
      /\ UNCHANGED <<accounts, current, queued, stored, asked>>
  BY DEF Relaunch, Gesture, storeVars
<1>2. \A call \in OnTheirWay : call \in Call /\ call.kind = "create"
  BY DEF OnTheirWay, TypeOK
<1>3. \A call \in Call : /\ [call EXCEPT !.form = 0] \in Call
                         /\ [call EXCEPT !.form = 0].form = 0
                         /\ [call EXCEPT !.form = 0].kind = call.kind
  BY AccountsAssumption DEF Call
<1>4. \A call \in calls' : call \in Call /\ call.form = 0 /\ call.kind = "create"
  <2> TAKE call \in calls'
  <2>1. PICK heard \in OnTheirWay : call = [heard EXCEPT !.form = 0]
    BY <1>1
  <2> QED
    BY <1>2, <1>3, <2>1
<1>5. CreatedUnheard \subseteq Emails
  BY Typed DEF CreatedUnheard
<1>6. TypeOK'
  <2>1. answers' \in Seq(AnswerOf)
    BY <1>1, EmptySeq
  <2>2. profile' \in [uid : Users, shown : BOOLEAN]
    BY <1>1 DEF NoProfile, Users
  <2>3. form' \in 0 .. MaxForms
    BY <1>1, AccountsAssumption
  <2>4. calls' \subseteq Call /\ lost' \subseteq Emails
    BY <1>1, <1>4, <1>5 DEF TypeOK
  <2> QED
    BY <1>1, <2>1, <2>2, <2>3, <2>4 DEF TypeOK, Screens
<1>7. FormsOpened' /\ SignInLoads' /\ OneSignIn' /\ UserBehindHome'
  BY <1>1, <1>4 DEF FormsOpened, SignInLoads, OneSignIn, UserBehindHome
<1> QED
  BY <1>6, <1>7

LEMMA Stuttering == ASSUME IInv, UNCHANGED vars PROVE IInv'
BY DEF IInv, TypeOK, FormsOpened, SignInLoads, OneSignIn, UserBehindHome, Opens,
       vars, authVars, storeVars, screenVars

LEMMA Preserved == ASSUME IInv, [Next]_vars PROVE IInv'
<1>1. CASE User
  BY <1>1, Looking, SigningUp, LoggingIn, Dying DEF User
<1>2. CASE MainQueue
  BY <1>2, Looking, Callbacks DEF MainQueue
<1>3. CASE Network
  BY <1>3, Looking, Serving, Answering, Settling DEF Network
<1> QED
  BY <1>1, <1>2, <1>3, Stuttering DEF Next

-----------------------------------------------------------------------------
(* Passwords *)

\* What travels and what is kept has no blanks around it, and a refused word is not
\* the account's.
Trimmed ==
  /\ \A call \in calls : ~call.password.padded
  /\ \A email \in Emails : accounts[email] # NoAccount => ~accounts[email].padded
  /\ \A call \in calls :
       call.verdict = "wrongPassword" =>
         accounts[call.email] # NoAccount /\ accounts[call.email] # call.password

LEMMA SameCore ==
  ASSUME NEW x \in Text, NEW y \in Text, x.padded = y.padded, x.core = y.core
  PROVE  x = y
BY DEF Text

LEMMA TrimmedStays ==
  ASSUME Trimmed, UNCHANGED accounts,
         \A call \in calls' :
           call \in calls \/ (~call.password.padded /\ call.verdict = "none")
  PROVE  Trimmed'
BY DEF Trimmed

LEMMA TrimmedServe ==
  ASSUME IInv, Trimmed, Serve
  PROVE  Trimmed'
<1>1. PICK call \in calls :
        /\ calls' = (calls \ {call}) \cup {[call EXCEPT !.verdict = VerdictOn(call)]}
        /\ accounts' = IF call.kind = "create" /\ VerdictOn(call) = "ok"
                         THEN [accounts EXCEPT ![call.email] = call.password]
                         ELSE accounts
  BY DEF Serve
<1>2. /\ call \in Call /\ call.email \in Emails /\ call.kind \in {"create", "signIn"}
      /\ accounts \in [Emails -> Text \cup {NoAccount}]
      /\ \A c \in calls : c.email \in Emails
  BY Typed DEF IInv, TypeOK, Call
<1> DEFINE served == [call EXCEPT !.verdict = VerdictOn(call)]
<1>3. /\ served.verdict = VerdictOn(call) /\ served.email = call.email
      /\ served.password = call.password
  BY <1>2 DEF Call
<1>4. VerdictOn(call) = "ok" /\ call.kind = "create" => accounts[call.email] = NoAccount
  BY <1>2 DEF VerdictOn
<1>5. VerdictOn(call) = "wrongPassword" =>
        /\ call.kind = "signIn"
        /\ accounts[call.email] # NoAccount /\ accounts[call.email] # call.password
  BY <1>2 DEF VerdictOn
<1>6. calls' = (calls \ {call}) \cup {served}
  BY <1>1
<1> HIDE DEF served
<1>7. CASE call.kind = "create" /\ VerdictOn(call) = "ok"
  BY <1>1, <1>2, <1>3, <1>4, <1>6, <1>7 DEF Trimmed
<1>8. CASE ~(call.kind = "create" /\ VerdictOn(call) = "ok")
  BY <1>1, <1>2, <1>3, <1>5, <1>6, <1>8 DEF Trimmed
<1> QED
  BY <1>7, <1>8

LEMMA TrimmedStep ==
  ASSUME IInv, Trimmed, [Next]_vars
  PROVE  Trimmed'
<1>1. ASSUME NEW kind \in {"create", "signIn"}, NEW email \in Emails, NEW password \in Text,
             CallAuth(kind, email, Trim(password)), UNCHANGED accounts
      PROVE  Trimmed'
  <2>1. \E call \in Call : /\ call.verdict = "none" /\ call.password = Trim(password)
                           /\ calls' = calls \cup {call}
    BY <1>1, OneMoreCall, TrimTyped DEF IInv
  <2>2. ~Trim(password).padded
    BY DEF Trim
  <2> QED
    BY <1>1, <2>1, <2>2, TrimmedStays
<1>2. CASE SignUpTapped
  <2>1. UNCHANGED accounts
    BY <1>2 DEF SignUpTapped
  <2>2. \/ UNCHANGED calls
        \/ \E email \in Emails, password \in Text : CallAuth("create", email, Trim(password))
    BY <1>2 DEF SignUpTapped
  <2> QED
    BY <1>1, <2>1, <2>2, TrimmedStays
<1>3. CASE LoginTapped
  BY <1>1, <1>3 DEF LoginTapped
<1>4. CASE Serve
  BY <1>4, TrimmedServe
<1>5. CASE Answer
  <2>1. calls' \subseteq calls /\ UNCHANGED accounts
    BY <1>5 DEF Answer
  <2> QED
    BY <2>1, TrimmedStays
<1>6. CASE Relaunch
  <2>1. calls' = {[call EXCEPT !.form = 0] : call \in OnTheirWay} /\ UNCHANGED accounts
    BY <1>6 DEF Relaunch
  <2>2. ASSUME NEW call \in OnTheirWay
        PROVE  /\ ~[call EXCEPT !.form = 0].password.padded
               /\ [call EXCEPT !.form = 0].verdict = "none"
    <3>1. call \in calls /\ call \in Call /\ call.verdict = "none"
      BY DEF OnTheirWay, IInv, TypeOK
    <3> QED
      BY <3>1 DEF Trimmed, Call
  <2> QED
    BY <2>1, <2>2, TrimmedStays
<1>7. CASE OpenSignUp \/ OpenLogin \/ Back \/ OpenProfile \/ SignOutPressed \/ LoadingDismissed
           \/ NamesArrive \/ ProfileSettles \/ CreateAnswered \/ SignInAnswered \/ UNCHANGED vars
  <2>1. UNCHANGED <<calls, accounts>>
    BY <1>7 DEF OpenSignUp, OpenLogin, OpenForm, Back, OpenProfile, SignOutPressed,
                LoadingDismissed, NamesArrive, ProfileSettles, CreateAnswered, SignInAnswered,
                vars, authVars
  <2> QED
    BY <2>1, TrimmedStays
<1> QED
  BY <1>2, <1>3, <1>4, <1>5, <1>6, <1>7 DEF Next, User, MainQueue, Network

-----------------------------------------------------------------------------
(* Somebody who waits for every answer *)

Live(call) == call.form # 0

Patience ==
  patient =>
    /\ \A call \in calls :
         Live(call) => /\ call.email = asked /\ answers = <<>>
                       /\ screen \in {"signUp", "loading"}
    /\ \A c, d \in calls : Live(c) /\ Live(d) => c = d
    /\ answers # <<>> => /\ Tail(answers) = <<>> /\ screen \in {"signUp", "loading"}
                         /\ Head(answers).ok => current = asked
    /\ screen \in {"leavingToHome", "home"} => current = asked
    /\ screen = "home" => profile.uid \in {NoUser, current}

\* A gesture of somebody who is still patient comes when nothing is under way.
LEMMA CalmGesture ==
  ASSUME Gesture, patient'
  PROVE  patient /\ answers = <<>> /\ ~Busy /\ \A call \in calls : ~Live(call)
BY DEF Gesture, Busy, Live

LEMMA PatienceUser ==
  ASSUME IInv, Patience, User
  PROVE  Patience'
<1> SUFFICES ASSUME patient' PROVE Patience'
  BY DEF Patience
<1>1. Gesture
  BY DEF User, OpenSignUp, OpenLogin, OpenForm, Back, SignUpTapped, LoginTapped,
         OpenProfile, SignOutPressed, Relaunch
<1>2. patient /\ answers = <<>> /\ ~Busy /\ \A call \in calls : ~Live(call)
  BY <1>1, CalmGesture
<1>3. CASE OpenSignUp \/ OpenLogin \/ Back
  BY <1>2, <1>3 DEF OpenSignUp, OpenLogin, OpenForm, Back, Patience, Live, authVars
<1>4. CASE OpenProfile
  BY <1>2, <1>4 DEF OpenProfile, Patience, Live, authVars
<1>5. CASE SignOutPressed
  BY <1>2, <1>5 DEF SignOutPressed, Patience, Live
<1>6. ASSUME NEW kind \in {"create", "signIn"}, NEW email \in Emails, NEW password \in Text,
             CallAuth(kind, email, Trim(password)), UNCHANGED answers,
             screen' \in {"signUp", "loading"}
      PROVE  Patience'
  <2>1. /\ asked' = email
        /\ \E call \in Call : call.email = email /\ calls' = calls \cup {call}
    BY <1>2, <1>6, OneMoreCall, TrimTyped DEF IInv
  <2> QED
    BY <1>2, <1>6, <2>1 DEF Patience, Live
<1>7. CASE SignUpTapped
  <2>1. screen = "signUp" /\ UNCHANGED <<answers, screen>>
    BY <1>7 DEF SignUpTapped
  <2>2. \/ UNCHANGED calls
        \/ \E email \in Emails, password \in Text : CallAuth("create", email, Trim(password))
    BY <1>7 DEF SignUpTapped
  <2>3. CASE UNCHANGED calls
    BY <1>2, <2>1, <2>3 DEF Patience, Live
  <2> QED
    BY <1>6, <2>1, <2>2, <2>3
<1>8. CASE LoginTapped
  BY <1>6, <1>8 DEF LoginTapped
<1>9. CASE Relaunch
  <2>1. /\ calls' = {[call EXCEPT !.form = 0] : call \in OnTheirWay} /\ answers' = <<>>
        /\ screen' = "main"
    BY <1>9 DEF Relaunch
  <2>2. \A call \in OnTheirWay : call \in Call
    BY DEF OnTheirWay, IInv, TypeOK
  <2>3. \A call \in calls' : ~Live(call)
    BY <2>1, <2>2 DEF Call, Live
  <2> QED
    BY <2>1, <2>3 DEF Patience
<1> QED
  BY <1>3, <1>4, <1>5, <1>7, <1>8, <1>9 DEF User

LEMMA PatienceQueue ==
  ASSUME IInv, Patience, MainQueue
  PROVE  Patience'
<1>1. CASE CreateAnswered
  BY <1>1 DEF CreateAnswered, Arrived, TransitionToHome, AddProfile, NoProfile, Patience, Live
<1>2. CASE SignInAnswered
  BY <1>2 DEF SignInAnswered, Arrived, Patience, Live, storeVars
<1>3. CASE LoadingDismissed
  BY <1>3 DEF LoadingDismissed, NoProfile, Patience, Live, authVars
<1> QED
  BY <1>1, <1>2, <1>3 DEF MainQueue

LEMMA PatienceNetwork ==
  ASSUME IInv, Patience, Network
  PROVE  Patience'
<1>1. CASE Serve
  <2>1. PICK call \in calls :
          /\ calls' = (calls \ {call}) \cup {[call EXCEPT !.verdict = VerdictOn(call)]}
          /\ UNCHANGED <<answers, current, screen, profile, asked, patient>>
    BY <1>1 DEF Serve, screenVars
  <2> DEFINE served == [call EXCEPT !.verdict = VerdictOn(call)]
  <2>2. served.form = call.form /\ served.email = call.email
    BY DEF IInv, TypeOK, Call
  <2> HIDE DEF served
  <2>3. calls' = (calls \ {call}) \cup {served}
    BY <2>1 DEF served
  <2> QED
    BY <2>1, <2>2, <2>3 DEF Patience, Live
<1>2. CASE Answer
  <2>1. PICK call \in calls, ok \in BOOLEAN :
          /\ calls' = calls \ {call}
          /\ answers' = IF call.form = 0 THEN answers ELSE Append(answers, AnswerTo(call, ok))
          /\ current' = IF ok /\ call.form # 0 THEN call.email ELSE current
          /\ UNCHANGED <<screen, profile, asked, patient>>
    BY <1>2 DEF Answer, screenVars
  <2>2. CASE call.form = 0
    BY <2>1, <2>2 DEF Patience, Live
  <2>3. CASE call.form # 0 /\ patient
    <3> DEFINE answer == AnswerTo(call, ok)
    <3>1. /\ answers = <<>> /\ call.email = asked /\ screen \in {"signUp", "loading"}
          /\ \A c \in calls' : ~Live(c)
      BY <2>1, <2>3 DEF Patience, Live
    <3>2. answers' = Append(<<>>, answer) /\ answer.ok = ok
      BY <2>1, <2>3, <3>1 DEF AnswerTo
    <3> HIDE DEF answer
    <3>3. answers' = <<answer>>
      BY <3>2
    <3>4. Tail(answers') = <<>> /\ Head(answers') = answer
      BY <3>3
    <3> QED
      BY <2>1, <2>3, <3>1, <3>2, <3>4 DEF Patience
  <2>4. CASE ~patient
    BY <2>1, <2>4 DEF Patience
  <2> QED
    BY <2>2, <2>3, <2>4
<1>3. CASE NamesArrive
  <2>1. profile'.uid = profile.uid
    BY <1>3 DEF NamesArrive, IInv, TypeOK
  <2> QED
    BY <1>3, <2>1 DEF NamesArrive, Patience, Live, authVars
<1>4. CASE ProfileSettles
  BY <1>4 DEF ProfileSettles, Patience, Live, authVars, screenVars
<1> QED
  BY <1>1, <1>2, <1>3, <1>4 DEF Network

LEMMA PatienceStep ==
  ASSUME IInv, Patience, [Next]_vars
  PROVE  Patience'
<1>1. CASE UNCHANGED vars
  BY <1>1 DEF Patience, Live, vars, authVars, screenVars
<1> QED
  BY <1>1, PatienceUser, PatienceQueue, PatienceNetwork DEF Next

-----------------------------------------------------------------------------
(* Counting in sequences *)

Hits(s, T) == {i \in DOMAIN s : s[i] \in T}

LEMMA HitsFinite ==
  ASSUME NEW S, NEW s \in Seq(S), NEW T
  PROVE  IsFiniteSet(Hits(s, T)) /\ Cardinality(Hits(s, T)) \in Nat
<1>1. Len(s) \in Nat /\ DOMAIN s = 1 .. Len(s)
  BY LenProperties
<1>2. IsFiniteSet(1 .. Len(s)) /\ Hits(s, T) \in SUBSET (1 .. Len(s))
  BY <1>1, FS_Interval DEF Hits
<1> QED
  BY <1>2, FS_Subset, FS_CardinalityType

LEMMA HitsAppend ==
  ASSUME NEW S, NEW s \in Seq(S), NEW x \in S, NEW T
  PROVE  Cardinality(Hits(Append(s, x), T)) = Cardinality(Hits(s, T)) + (IF x \in T THEN 1 ELSE 0)
<1> DEFINE n == Len(s)
           t == Append(s, x)
<1>1. n \in Nat /\ DOMAIN s = 1 .. n
  BY LenProperties
<1>2. /\ t \in Seq(S) /\ Len(t) = n + 1 /\ t[n + 1] = x
      /\ \A i \in 1 .. n : t[i] = s[i]
  BY AppendProperties
<1>3. DOMAIN t = 1 .. n + 1
  BY <1>2, LenProperties
<1> HIDE DEF n, t
<1>4. IsFiniteSet(Hits(s, T)) /\ Cardinality(Hits(s, T)) \in Nat
  BY HitsFinite
<1>7. n + 1 \notin Hits(s, T)
  BY <1>1 DEF Hits
<1>5. CASE x \in T
  <2>1. Hits(t, T) = Hits(s, T) \cup {n + 1}
    BY <1>1, <1>2, <1>3, <1>5 DEF Hits
  <2> QED
    BY <1>4, <1>5, <1>7, <2>1, FS_AddElement DEF t
<1>6. CASE x \notin T
  <2>1. Hits(t, T) = Hits(s, T)
    BY <1>1, <1>2, <1>3, <1>6 DEF Hits
  <2> QED
    BY <1>4, <1>6, <2>1 DEF t
<1> QED
  BY <1>5, <1>6

\* r is s without its element i.
LEMMA HitsWithout ==
  ASSUME NEW S, NEW s \in Seq(S), NEW i \in DOMAIN s, NEW r \in Seq(S), NEW T,
         Len(r) = Len(s) - 1,
         \A j \in 1 .. Len(r) : j < i => r[j] = s[j],
         \A j \in 1 .. Len(r) : i <= j => r[j] = s[j + 1]
  PROVE  Cardinality(Hits(s, T)) = Cardinality(Hits(r, T)) + (IF s[i] \in T THEN 1 ELSE 0)
<1> DEFINE n == Len(s)
           Old(j) == IF j < i THEN j ELSE j + 1
           old == [j \in Hits(r, T) |-> Old(j)]
           rest == Hits(s, T) \ {i}
<1>1. n \in Nat /\ DOMAIN s = 1 .. n /\ i \in 1 .. n
  BY LenProperties
<1>2. DOMAIN r = 1 .. n - 1
  BY <1>1, LenProperties
<1>3. \A j \in 1 .. n - 1 : Old(j) \in 1 .. n /\ Old(j) # i /\ r[j] = s[Old(j)]
  BY <1>1
<1>4. \A j, k \in 1 .. n - 1 : Old(j) = Old(k) => j = k
  BY <1>1
<1>5. \A k \in (1 .. n) \ {i} : \E j \in 1 .. n - 1 : k = Old(j)
  <2>1. ASSUME NEW k \in 1 .. n, k # i PROVE \E j \in 1 .. n - 1 : k = Old(j)
    <3>1. CASE k < i
      BY <1>1, <2>1, <3>1
    <3>2. CASE k > i
      <4>1. k - 1 \in 1 .. n - 1 /\ k = Old(k - 1)
        BY <1>1, <2>1, <3>2
      <4> QED
        BY <4>1
    <3> QED
      BY <1>1, <2>1, <3>1, <3>2
  <2> QED
    BY <2>1
<1> HIDE DEF n, Old
<1>6. old \in [Hits(r, T) -> rest]
  BY <1>1, <1>2, <1>3 DEF Hits
<1>7. \A j, k \in Hits(r, T) : old[j] = old[k] => j = k
  BY <1>2, <1>4 DEF Hits
<1>8. \A k \in rest : \E j \in Hits(r, T) : old[j] = k
  <2>1. ASSUME NEW k \in rest PROVE \E j \in Hits(r, T) : old[j] = k
    <3>1. PICK j \in 1 .. n - 1 : k = Old(j)
      BY <1>1, <1>5, <2>1 DEF Hits
    <3>2. j \in Hits(r, T)
      BY <1>2, <1>3, <2>1, <3>1 DEF Hits
    <3> QED
      BY <3>1, <3>2
  <2> QED
    BY <2>1
<1> HIDE DEF old, rest
<1>9. old \in Bijection(Hits(r, T), rest)
  BY <1>6, <1>7, <1>8, Fun_IsBij
<1>10. /\ IsFiniteSet(Hits(r, T)) /\ Cardinality(Hits(r, T)) \in Nat
       /\ IsFiniteSet(Hits(s, T)) /\ Cardinality(Hits(s, T)) \in Nat
  BY HitsFinite
<1>11. Cardinality(rest) = Cardinality(Hits(r, T))
  BY <1>9, <1>10, FS_Bijection DEF ExistsBijection
<1>12. Cardinality(rest) =
         IF i \in Hits(s, T) THEN Cardinality(Hits(s, T)) - 1 ELSE Cardinality(Hits(s, T))
  BY <1>10, FS_RemoveElement DEF rest
<1>13. i \in Hits(s, T) <=> s[i] \in T
  BY DEF Hits
<1> QED
  BY <1>10, <1>11, <1>12, <1>13

LEMMA HitsRemoveAt ==
  ASSUME NEW S, NEW s \in Seq(S), NEW i \in DOMAIN s, NEW T
  PROVE  Cardinality(Hits(s, T)) =
           Cardinality(Hits(RemoveAt(s, i), T)) + (IF s[i] \in T THEN 1 ELSE 0)
<1> DEFINE n == Len(s)
           a == SubSeq(s, 1, i - 1)
           b == SubSeq(s, i + 1, n)
<1>1. /\ n \in Nat /\ DOMAIN s = 1 .. n /\ i \in 1 .. n
      /\ \A j \in 1 .. n : s[j] \in S
  BY LenProperties, ElementOfSeq
<1>2. /\ a \in Seq(S) /\ Len(a) = i - 1
      /\ \A j \in 1 .. i - 1 : a[j] = s[j]
  BY <1>1, SubSeqProperties
<1>3. /\ b \in Seq(S) /\ Len(b) = n - i
      /\ \A j \in 1 .. n - i : b[j] = s[i + j]
  <2>1. \A j \in i + 1 .. n : s[j] \in S
    BY <1>1
  <2>2. /\ b \in Seq(S) /\ Len(b) = IF i + 1 <= n THEN n - (i + 1) + 1 ELSE 0
        /\ \A j \in 1 .. n - (i + 1) + 1 : b[j] = s[i + 1 + j - 1]
    BY <1>1, <2>1, SubSeqProperties
  <2>3. (IF i + 1 <= n THEN n - (i + 1) + 1 ELSE 0) = n - i /\ n - (i + 1) + 1 = n - i
    BY <1>1
  <2>4. \A j \in 1 .. n - i : i + 1 + j - 1 = i + j
    BY <1>1
  <2> QED
    BY <2>2, <2>3, <2>4
<1>4. RemoveAt(s, i) = a \o b
  BY DEF RemoveAt
<1> HIDE DEF n, a, b
<1>5. /\ a \o b \in Seq(S) /\ Len(a \o b) = n - 1
      /\ \A j \in 1 .. n - 1 : (a \o b)[j] = IF j <= i - 1 THEN a[j] ELSE b[j - (i - 1)]
  <2>1. /\ a \o b \in Seq(S) /\ Len(a \o b) = Len(a) + Len(b)
        /\ \A j \in 1 .. Len(a) + Len(b) :
             (a \o b)[j] = IF j <= Len(a) THEN a[j] ELSE b[j - Len(a)]
    BY <1>2, <1>3, ConcatProperties
  <2>2. Len(a) + Len(b) = n - 1 /\ Len(a) = i - 1
    BY <1>1, <1>2, <1>3
  <2> QED
    BY <2>1, <2>2
<1>6. \A j \in 1 .. n - 1 : (a \o b)[j] = IF j < i THEN s[j] ELSE s[j + 1]
  <2>1. ASSUME NEW j \in 1 .. n - 1, j < i PROVE (a \o b)[j] = s[j]
    BY <1>1, <1>2, <1>5, <2>1
  <2>2. ASSUME NEW j \in 1 .. n - 1, ~(j < i) PROVE (a \o b)[j] = s[j + 1]
    <3>1. j - (i - 1) \in 1 .. n - i /\ i + (j - (i - 1)) = j + 1
      BY <1>1, <2>2
    <3>2. (a \o b)[j] = b[j - (i - 1)]
      BY <1>1, <1>5, <2>2
    <3>3. b[j - (i - 1)] = s[i + (j - (i - 1))]
      BY <1>3, <3>1
    <3> QED
      BY <3>1, <3>2, <3>3
  <2> QED
    BY <2>1, <2>2
<1> DEFINE r == RemoveAt(s, i)
<1>7. r \in Seq(S) /\ Len(r) = Len(s) - 1
  BY <1>4, <1>5 DEF n
<1>8. /\ \A j \in 1 .. Len(r) : j < i => r[j] = s[j]
      /\ \A j \in 1 .. Len(r) : i <= j => r[j] = s[j + 1]
  <2>1. Len(r) = n - 1 /\ \A j \in 1 .. n - 1 : r[j] = IF j < i THEN s[j] ELSE s[j + 1]
    BY <1>4, <1>5, <1>6
  <2>2. \A j \in 1 .. n - 1 : i <= j => ~(j < i)
    BY <1>1
  <2> QED
    BY <2>1, <2>2
<1> HIDE DEF r
<1>9. Cardinality(Hits(s, T)) = Cardinality(Hits(r, T)) + (IF s[i] \in T THEN 1 ELSE 0)
  <2>1. s \in Seq(S) /\ i \in DOMAIN s
    OBVIOUS
  <2> QED
    BY ONLY <1>7, <1>8, <2>1, HitsWithout, SMTT(20)
<1> QED
  BY <1>9 DEF r

LEMMA HitsTail ==
  ASSUME NEW S, NEW s \in Seq(S), s # <<>>, NEW T
  PROVE  Cardinality(Hits(s, T)) =
           Cardinality(Hits(Tail(s), T)) + (IF Head(s) \in T THEN 1 ELSE 0)
<1>1. /\ Head(s) = s[1] /\ Tail(s) \in Seq(S) /\ Len(Tail(s)) = Len(s) - 1
      /\ \A j \in 1 .. Len(Tail(s)) : Tail(s)[j] = s[j + 1]
  BY HeadTailProperties
<1>2. 1 \in DOMAIN s
  BY <1>1, EmptySeq, LenProperties
<1> DEFINE r == Tail(s)
<1>3. Len(r) \in Nat
  BY <1>1, LenProperties
<1>4. /\ \A j \in 1 .. Len(r) : j < 1 => r[j] = s[j]
      /\ \A j \in 1 .. Len(r) : 1 <= j => r[j] = s[j + 1]
  BY <1>1, <1>3
<1>5. r \in Seq(S) /\ Len(r) = Len(s) - 1
  BY <1>1
<1> HIDE DEF r
<1>6. Cardinality(Hits(s, T)) = Cardinality(Hits(r, T)) + (IF s[1] \in T THEN 1 ELSE 0)
  BY <1>2, <1>4, <1>5, HitsWithout
<1> QED
  BY <1>1, <1>6 DEF r

-----------------------------------------------------------------------------
(* One profile for every account *)

ProfileWrite == [queue : Users, uid : Emails]
WritesOf(email) == {w \in ProfileWrite : w.uid = email}
SuccessesOf(email) == {a \in AnswerOf : a.kind = "create" /\ a.ok /\ a.email = email}

Queued(email) == Cardinality(Hits(queued, WritesOf(email)))
Heard(email) == Cardinality(Hits(answers, SuccessesOf(email)))
CreatedOf(email) == {call \in calls : Created(call) /\ call.email = email}
Unheard(email) == Cardinality(CreatedOf(email))

Expected(email) == IF accounts[email] # NoAccount /\ email \notin lost THEN 1 ELSE 0

\* A profile is stored, queued, heard of or not heard of yet.
OneProfile ==
  /\ IsFiniteSet(calls)
  /\ \A email \in lost : accounts[email] # NoAccount
  /\ \A email \in Emails :
       stored[email] + Queued(email) + Heard(email) + Unheard(email) = Expected(email)

LEMMA Naturals ==
  ASSUME TypeOK, IsFiniteSet(calls), NEW email \in Emails
  PROVE  /\ stored[email] \in Nat /\ Queued(email) \in Nat
         /\ Heard(email) \in Nat /\ Unheard(email) \in Nat
         /\ IsFiniteSet(CreatedOf(email))
         /\ Heard(email) = 0 <=> Hits(answers, SuccessesOf(email)) = {}
         /\ Unheard(email) = 0 <=> CreatedOf(email) = {}
<1>1. queued \in Seq(ProfileWrite) /\ answers \in Seq(AnswerOf) /\ stored[email] \in Nat
  BY DEF TypeOK, ProfileWrite
<1>2. /\ Queued(email) \in Nat /\ Heard(email) \in Nat
      /\ IsFiniteSet(Hits(answers, SuccessesOf(email)))
  BY <1>1, HitsFinite DEF Queued, Heard
<1>3. CreatedOf(email) \in SUBSET calls
  BY DEF CreatedOf
<1>4. IsFiniteSet(CreatedOf(email)) /\ Unheard(email) \in Nat
  BY <1>3, FS_Subset, FS_CardinalityType DEF Unheard
<1>5. Heard(email) = 0 <=> Hits(answers, SuccessesOf(email)) = {}
  BY <1>2, FS_EmptySet DEF Heard
<1>6. Unheard(email) = 0 <=> CreatedOf(email) = {}
  BY <1>4, FS_EmptySet DEF Unheard
<1> QED
  BY <1>1, <1>2, <1>4, <1>5, <1>6

\* Nothing happens to the profiles.
LEMMA ProfilesStay ==
  ASSUME OneProfile, UNCHANGED <<accounts, queued, stored, answers, lost>>, IsFiniteSet(calls'),
         \A email \in Emails : CreatedOf(email)' = CreatedOf(email)
  PROVE  OneProfile'
BY DEF OneProfile, Queued, Heard, Unheard, Expected

LEMMA ProfilesCall ==
  ASSUME IInv, OneProfile, UNCHANGED <<accounts, queued, stored, answers, lost>>,
         NEW kind \in {"create", "signIn"}, NEW email \in Emails, NEW password \in Text,
         CallAuth(kind, email, Trim(password))
  PROVE  OneProfile'
<1>1. PICK call \in Call : call.verdict = "none" /\ calls' = calls \cup {call}
  BY OneMoreCall, TrimTyped DEF IInv
<1>2. IsFiniteSet(calls')
  BY <1>1, FS_AddElement DEF OneProfile
<1>3. \A e \in Emails : CreatedOf(e)' = CreatedOf(e)
  BY <1>1 DEF CreatedOf, Created
<1> QED
  BY <1>2, <1>3, ProfilesStay

LEMMA ProfilesServe ==
  ASSUME IInv, OneProfile, Serve
  PROVE  OneProfile'
<1>1. PICK call \in calls :
        /\ call.verdict = "none"
        /\ calls' = (calls \ {call}) \cup {[call EXCEPT !.verdict = VerdictOn(call)]}
        /\ accounts' = IF call.kind = "create" /\ VerdictOn(call) = "ok"
                         THEN [accounts EXCEPT ![call.email] = call.password]
                         ELSE accounts
        /\ UNCHANGED <<answers, queued, stored, lost>>
  BY DEF Serve, storeVars
<1>2. /\ call \in Call /\ call.email \in Emails /\ call.kind \in {"create", "signIn"}
      /\ call.password \in Text
      /\ accounts \in [Emails -> Text \cup {NoAccount}]
  BY Typed DEF IInv, TypeOK, Call
<1> DEFINE served == [call EXCEPT !.verdict = VerdictOn(call)]
<1>3. /\ served.verdict = VerdictOn(call) /\ served.email = call.email
      /\ served.kind = call.kind
  BY <1>2 DEF Call
<1>4. calls' = (calls \ {call}) \cup {served}
  BY <1>1
<1>5. IsFiniteSet(calls')
  BY <1>4, FS_AddElement, FS_RemoveElement DEF OneProfile
<1> HIDE DEF served
<1>6. CASE ~(call.kind = "create" /\ VerdictOn(call) = "ok")
  <2>1. \A e \in Emails : CreatedOf(e)' = CreatedOf(e)
    BY <1>1, <1>3, <1>4, <1>6 DEF CreatedOf, Created
  <2> QED
    BY <1>1, <1>5, <1>6, <2>1, ProfilesStay
<1>7. CASE call.kind = "create" /\ VerdictOn(call) = "ok"
  <2>1. accounts[call.email] = NoAccount
    BY <1>2, <1>7 DEF VerdictOn
  <2>2. accounts' = [accounts EXCEPT ![call.email] = call.password]
    BY <1>1, <1>7
  <2>3. accounts'[call.email] # NoAccount /\ call.email \notin lost
    BY <1>2, <2>1, <2>2, AccountsAssumption DEF OneProfile, Text
  <2>4. ASSUME NEW e \in Emails, e # call.email
        PROVE  CreatedOf(e)' = CreatedOf(e) /\ Expected(e)' = Expected(e)
    BY <1>1, <1>2, <1>3, <1>4, <2>2, <2>4 DEF CreatedOf, Created, Expected
  <2>5. Expected(call.email) = 0 /\ Expected(call.email)' = 1
    BY <1>1, <2>1, <2>3 DEF Expected
  <2>6. /\ stored[call.email] = 0 /\ Queued(call.email) = 0
        /\ Heard(call.email) = 0 /\ CreatedOf(call.email) = {}
    <3> DEFINE e == call.email
    <3>1. e \in Emails
      BY <1>2
    <3>2. stored[e] + Queued(e) + Heard(e) + Unheard(e) = 0
      BY <2>5, <3>1 DEF OneProfile
    <3>3. /\ stored[e] \in Nat /\ Queued(e) \in Nat
          /\ Heard(e) \in Nat /\ Unheard(e) \in Nat
          /\ Unheard(e) = 0 <=> CreatedOf(e) = {}
      BY <3>1, Naturals DEF OneProfile, IInv
    <3>4. \A a, b, c, d \in Nat : a + b + c + d = 0 => a = 0 /\ b = 0 /\ c = 0 /\ d = 0
      OBVIOUS
    <3> HIDE DEF e
    <3>5. stored[e] = 0 /\ Queued(e) = 0 /\ Heard(e) = 0 /\ Unheard(e) = 0
      BY ONLY <3>2, <3>3, <3>4
    <3> QED
      BY <3>3, <3>5 DEF e
  <2>7. CreatedOf(call.email)' = {served}
    BY <1>3, <1>4, <1>7, <2>6 DEF CreatedOf, Created
  <2>8. Unheard(call.email)' = 1
    BY <2>7, FS_Singleton DEF Unheard
  <2>9. \A e \in Emails : UNCHANGED <<stored[e], Queued(e), Heard(e)>>
    BY <1>1 DEF Queued, Heard
  <2>10. \A e \in Emails : e # call.email => Unheard(e)' = Unheard(e)
    BY <2>4 DEF Unheard
  <2>11. \A e \in Emails :
           (stored[e] + Queued(e) + Heard(e) + Unheard(e))' = Expected(e)'
    <3>1. ASSUME NEW e \in Emails, e # call.email
          PROVE  (stored[e] + Queued(e) + Heard(e) + Unheard(e))' = Expected(e)'
      BY <2>4, <2>9, <2>10, <3>1 DEF OneProfile
    <3>2. (stored[call.email] + Queued(call.email) + Heard(call.email)
             + Unheard(call.email))' = 1
      BY <1>2, <2>6, <2>8, <2>9
    <3> QED
      BY <2>5, <3>1, <3>2
  <2>12. \A e \in lost' : accounts'[e] # NoAccount
    BY <1>1, <1>2, <2>2, <2>3 DEF OneProfile, IInv, TypeOK
  <2> QED
    BY <1>5, <2>11, <2>12 DEF OneProfile
<1> QED
  BY <1>6, <1>7

LEMMA ProfilesAnswer ==
  ASSUME IInv, OneProfile, Answer
  PROVE  OneProfile'
<1>1. PICK call \in calls, ok \in BOOLEAN :
        /\ ok => call.verdict = "ok"
        /\ calls' = calls \ {call}
        /\ answers' = IF call.form = 0 THEN answers ELSE Append(answers, AnswerTo(call, ok))
        /\ lost' = IF Created(call) /\ ~(ok /\ call.form # 0) THEN lost \cup {call.email} ELSE lost
        /\ UNCHANGED <<accounts, queued, stored>>
  BY DEF Answer, storeVars
<1>2. /\ call \in Call /\ call.email \in Emails /\ call.kind \in {"create", "signIn"}
      /\ call.form \in 0 .. MaxForms /\ answers \in Seq(AnswerOf)
  BY Typed DEF IInv, TypeOK, Call
<1> DEFINE answer == AnswerTo(call, ok)
           made == Created(call)
           reported == made /\ ok /\ call.form # 0
<1>3. /\ call.form # 0 => answer \in AnswerOf
      /\ answer.kind = call.kind /\ answer.email = call.email /\ answer.ok = ok
  BY <1>2, AccountsAssumption DEF AnswerTo, AnswerOf
<1>4. answers' = IF call.form = 0 THEN answers ELSE Append(answers, answer)
  BY <1>1
<1> HIDE DEF answer
<1>5. IsFiniteSet(calls')
  BY <1>1, FS_RemoveElement DEF OneProfile
<1>6. ASSUME NEW e \in Emails
      PROVE  Unheard(e)' = Unheard(e) - (IF made /\ e = call.email THEN 1 ELSE 0)
  <2>1. CreatedOf(e)' = CreatedOf(e) \ {call}
    BY <1>1 DEF CreatedOf, Created
  <2>2. call \in CreatedOf(e) <=> made /\ e = call.email
    BY DEF CreatedOf
  <2>3. IsFiniteSet(CreatedOf(e)) /\ Unheard(e) \in Nat
    BY Naturals DEF IInv, OneProfile
  <2>4. Cardinality(CreatedOf(e) \ {call}) =
          IF call \in CreatedOf(e) THEN Cardinality(CreatedOf(e)) - 1 ELSE Cardinality(CreatedOf(e))
    BY <2>3, FS_RemoveElement
  <2>5. Unheard(e)' = Cardinality(CreatedOf(e) \ {call})
    BY <2>1 DEF Unheard
  <2> QED
    BY <2>2, <2>3, <2>4, <2>5 DEF Unheard
<1>7. ASSUME NEW e \in Emails
      PROVE  Heard(e)' = Heard(e) + (IF reported /\ e = call.email THEN 1 ELSE 0)
  <2>1. Heard(e) \in Nat
    BY Naturals DEF IInv, OneProfile
  <2>2. CASE call.form = 0
    BY <1>4, <2>1, <2>2 DEF Heard
  <2>3. CASE call.form # 0
    <3>1. Heard(e)' = Heard(e) + (IF answer \in SuccessesOf(e) THEN 1 ELSE 0)
      BY <1>2, <1>3, <1>4, <2>3, HitsAppend DEF Heard
    <3>2. answer \in SuccessesOf(e) <=> reported /\ e = call.email
      BY <1>1, <1>3, <2>3 DEF SuccessesOf, Created
    <3> QED
      BY <3>1, <3>2
  <2> QED
    BY <2>2, <2>3
<1>8. lost' = IF made /\ ~reported THEN lost \cup {call.email} ELSE lost
  BY <1>1
<1>9. made => Expected(call.email) = 1
  <2>1. made => call \in CreatedOf(call.email)
    BY DEF CreatedOf
  <2>2. made => Unheard(call.email) # 0
    BY <1>2, <2>1, Naturals DEF IInv, OneProfile
  <2>3. Expected(call.email) \in {0, 1}
    BY DEF Expected
  <2> QED
    BY <1>2, <2>2, <2>3, Naturals DEF IInv, OneProfile
<1>10. \A e \in Emails :
         Expected(e)' = IF made /\ ~reported /\ e = call.email THEN 0 ELSE Expected(e)
  BY <1>1, <1>8 DEF Expected
<1>11. \A e \in lost' : accounts'[e] # NoAccount
  BY <1>1, <1>8, <1>9 DEF OneProfile, Expected
<1> HIDE DEF made, reported
<1>12. reported => made
  BY DEF reported
<1>13. ASSUME NEW e \in Emails
       PROVE  (stored[e] + Queued(e) + Heard(e) + Unheard(e))' = Expected(e)'
  <2>1. stored'[e] = stored[e] /\ Queued(e)' = Queued(e)
    BY <1>1 DEF Queued
  <2>2. /\ stored[e] \in Nat /\ Queued(e) \in Nat /\ Heard(e) \in Nat /\ Unheard(e) \in Nat
        /\ stored[e] + Queued(e) + Heard(e) + Unheard(e) = Expected(e)
    BY Naturals DEF IInv, OneProfile
  <2>3. CASE e = call.email
    BY <1>6, <1>7, <1>9, <1>10, <1>12, <2>1, <2>2, <2>3
  <2>4. CASE e # call.email
    BY <1>6, <1>7, <1>10, <2>1, <2>2, <2>4
  <2> QED
    BY <2>3, <2>4
<1> QED
  BY <1>5, <1>11, <1>13 DEF OneProfile

LEMMA ProfilesCallback ==
  ASSUME IInv, OneProfile, CreateAnswered \/ SignInAnswered
  PROVE  OneProfile'
<1> DEFINE answer == Head(answers)
           success == answer.kind = "create" /\ answer.ok
<1>1. /\ answers # <<>> /\ answers' = Tail(answers) /\ answers \in Seq(AnswerOf)
      /\ UNCHANGED <<accounts, calls, stored, lost>>
  BY DEF CreateAnswered, SignInAnswered, Arrived, IInv, TypeOK, storeVars
<1>2. answer \in AnswerOf /\ answer.email \in Emails
  BY <1>1, RestOfAnswers DEF AnswerOf
<1>3. ASSUME NEW e \in Emails
      PROVE  Heard(e) = Heard(e)' + (IF success /\ e = answer.email THEN 1 ELSE 0)
  <2>1. Heard(e) = Heard(e)' + (IF answer \in SuccessesOf(e) THEN 1 ELSE 0)
    BY <1>1, HitsTail DEF Heard
  <2>2. answer \in SuccessesOf(e) <=> success /\ e = answer.email
    BY <1>2 DEF SuccessesOf
  <2> QED
    BY <2>1, <2>2
<1>4. ASSUME NEW e \in Emails
      PROVE  Queued(e)' = Queued(e) + (IF success /\ e = answer.email THEN 1 ELSE 0)
  <2>1. Queued(e) \in Nat
    BY Naturals DEF IInv, OneProfile
  <2>2. CASE success
    <3>1. PICK user \in {answer.email, current} :
            queued' = Append(queued, [queue |-> user, uid |-> answer.email])
      BY <2>2 DEF CreateAnswered, SignInAnswered, Arrived, AddProfile
    <3> DEFINE write == [queue |-> user, uid |-> answer.email]
    <3>2. write \in ProfileWrite /\ queued \in Seq(ProfileWrite) /\ write.uid = answer.email
      BY <1>2 DEF IInv, TypeOK, ProfileWrite, Users
    <3>3. queued' = Append(queued, write)
      BY <3>1
    <3> HIDE DEF write
    <3>4. Queued(e)' = Queued(e) + (IF write \in WritesOf(e) THEN 1 ELSE 0)
      BY <3>2, <3>3, HitsAppend DEF Queued
    <3>5. write \in WritesOf(e) <=> e = answer.email
      BY <3>2 DEF WritesOf
    <3> QED
      BY <2>2, <3>4, <3>5
  <2>3. CASE ~success
    <3>1. queued' = queued
      BY <2>3 DEF CreateAnswered, SignInAnswered, Arrived, storeVars
    <3> QED
      BY <2>1, <2>3, <3>1 DEF Queued
  <2> QED
    BY <2>2, <2>3
<1> HIDE DEF success, answer
<1>5. ASSUME NEW e \in Emails
      PROVE  (stored[e] + Queued(e) + Heard(e) + Unheard(e))' = Expected(e)'
  <2>1. stored'[e] = stored[e] /\ Unheard(e)' = Unheard(e) /\ Expected(e)' = Expected(e)
    BY <1>1 DEF Unheard, CreatedOf, Created, Expected
  <2>2. /\ stored[e] \in Nat /\ Queued(e) \in Nat /\ Heard(e) \in Nat /\ Unheard(e) \in Nat
        /\ stored[e] + Queued(e) + Heard(e) + Unheard(e) = Expected(e)
    BY Naturals DEF IInv, OneProfile
  <2>3. Heard(e)' \in Nat
    <3>1. answers' \in Seq(AnswerOf)
      BY <1>1, RestOfAnswers
    <3> QED
      BY <3>1, HitsFinite DEF Heard
  <2> QED
    BY <1>3, <1>4, <2>1, <2>2, <2>3
<1> QED
  BY <1>1, <1>5 DEF OneProfile

LEMMA ProfilesSettle ==
  ASSUME IInv, OneProfile, ProfileSettles
  PROVE  OneProfile'
<1>1. PICK i \in DOMAIN queued :
        /\ queued' = RemoveAt(queued, i)
        /\ \/ stored' = [stored EXCEPT ![queued[i].uid] = @ + 1] /\ UNCHANGED lost
           \/ lost' = lost \cup {queued[i].uid} /\ UNCHANGED stored
        /\ UNCHANGED <<accounts, calls, answers>>
  BY DEF ProfileSettles, authVars
<1> DEFINE uid == queued[i].uid
<1>2. /\ queued \in Seq(ProfileWrite) /\ queued[i] \in ProfileWrite /\ uid \in Emails
      /\ stored \in [Emails -> Nat]
  <2>1. queued \in Seq(ProfileWrite) /\ stored \in [Emails -> Nat]
    BY DEF IInv, TypeOK, ProfileWrite
  <2>2. queued[i] \in ProfileWrite
    BY <2>1, ElementOfSeq, LenProperties
  <2> QED
    BY <2>1, <2>2 DEF ProfileWrite
<1>3. ASSUME NEW e \in Emails
      PROVE  Queued(e) = Queued(e)' + (IF e = uid THEN 1 ELSE 0)
  <2>1. Queued(e) = Queued(e)' + (IF queued[i] \in WritesOf(e) THEN 1 ELSE 0)
    BY <1>1, <1>2, HitsRemoveAt DEF Queued
  <2>2. queued[i] \in WritesOf(e) <=> e = uid
    BY <1>2 DEF WritesOf
  <2> QED
    BY <2>1, <2>2
<1>4. queued' \in Seq(ProfileWrite)
  BY <1>1, <1>2, RemoveAtInSeq
<1>5. \A e \in Emails :
        /\ Queued(e)' \in Nat /\ Heard(e)' = Heard(e) /\ Unheard(e)' = Unheard(e)
        /\ stored[e] \in Nat /\ Heard(e) \in Nat /\ Unheard(e) \in Nat
        /\ stored[e] + Queued(e) + Heard(e) + Unheard(e) = Expected(e)
        /\ Expected(e) \in {0, 1}
  <2>1. \A e \in Emails : Queued(e)' \in Nat
    BY <1>4, HitsFinite DEF Queued
  <2>2. \A e \in Emails : Heard(e)' = Heard(e) /\ Unheard(e)' = Unheard(e)
    BY <1>1 DEF Heard, Unheard, CreatedOf, Created
  <2> QED
    BY <2>1, <2>2, Naturals DEF IInv, OneProfile, Expected
<1> HIDE DEF uid
<1>6. Expected(uid) = 1
  BY <1>2, <1>3, <1>5
<1>7. CASE stored' = [stored EXCEPT ![uid] = @ + 1] /\ UNCHANGED lost
  <2>1. \A e \in Emails : Expected(e)' = Expected(e)
    BY <1>1, <1>7 DEF Expected
  <2>2. \A e \in Emails : stored'[e] = stored[e] + (IF e = uid THEN 1 ELSE 0)
    BY <1>2, <1>7
  <2>3. \A e \in Emails :
          (stored[e] + Queued(e) + Heard(e) + Unheard(e))' = Expected(e)'
    BY <1>3, <1>5, <2>1, <2>2
  <2> QED
    BY <1>1, <1>7, <2>3 DEF OneProfile
<1>8. CASE lost' = lost \cup {uid} /\ UNCHANGED stored
  <2>1. \A e \in Emails : Expected(e)' = IF e = uid THEN 0 ELSE Expected(e)
    BY <1>1, <1>8 DEF Expected
  <2>2. \A e \in Emails :
          (stored[e] + Queued(e) + Heard(e) + Unheard(e))' = Expected(e)'
    <3>1. ASSUME NEW e \in Emails, e = uid
          PROVE  (stored[e] + Queued(e) + Heard(e) + Unheard(e))' = Expected(e)'
      BY <1>3, <1>5, <1>6, <1>8, <2>1, <3>1
    <3>2. ASSUME NEW e \in Emails, e # uid
          PROVE  (stored[e] + Queued(e) + Heard(e) + Unheard(e))' = Expected(e)'
      BY <1>3, <1>5, <1>8, <2>1, <3>2
    <3> QED
      BY <3>1, <3>2
  <2>3. \A e \in lost' : accounts'[e] # NoAccount
    BY <1>1, <1>6, <1>8 DEF OneProfile, Expected
  <2> QED
    BY <1>1, <2>2, <2>3 DEF OneProfile
<1> QED
  BY <1>1, <1>7, <1>8 DEF uid

LEMMA ProfilesRelaunch ==
  ASSUME IInv, OneProfile, Relaunch
  PROVE  OneProfile'
<1>1. /\ calls' = {[call EXCEPT !.form = 0] : call \in OnTheirWay} /\ answers' = <<>>
      /\ lost' = lost \cup CreatedUnheard
      /\ UNCHANGED <<accounts, queued, stored>>
  BY DEF Relaunch, storeVars
<1>2. IsFiniteSet(calls')
  <2>1. OnTheirWay \in SUBSET calls
    BY DEF OnTheirWay
  <2>2. IsFiniteSet(OnTheirWay)
    BY <2>1, FS_Subset DEF OneProfile
  <2> DEFINE again == [call \in OnTheirWay |-> [call EXCEPT !.form = 0]]
  <2>3. again \in Surjection(OnTheirWay, calls')
    BY <1>1, Fun_IsSurj
  <2> QED
    BY <2>2, <2>3, FS_Surjection
<1>3. \A call \in calls' : call.verdict = "none"
  <2>1. \A call \in OnTheirWay : call \in Call /\ call.verdict = "none"
    BY DEF OnTheirWay, IInv, TypeOK
  <2> QED
    BY <1>1, <2>1 DEF Call
<1>4. ASSUME NEW e \in Emails
      PROVE  Heard(e)' = 0 /\ Unheard(e)' = 0
  <2>1. Hits(answers', SuccessesOf(e)) = {}
    BY <1>1 DEF Hits
  <2>2. CreatedOf(e)' = {}
    BY <1>3 DEF CreatedOf, Created
  <2> QED
    BY <2>1, <2>2, FS_EmptySet DEF Heard, Unheard
<1>5. ASSUME NEW e \in Emails
      PROVE  e \in CreatedUnheard <=> Heard(e) # 0 \/ Unheard(e) # 0
  <2>1. (\E i \in DOMAIN answers : answers[i] \in SuccessesOf(e)) <=> Heard(e) # 0
    BY Naturals DEF Hits, IInv, OneProfile
  <2>2. (\E call \in calls : Created(call) /\ call.email = e) <=> Unheard(e) # 0
    BY Naturals DEF CreatedOf, IInv, OneProfile
  <2>3. \A i \in DOMAIN answers : answers[i] \in AnswerOf
    BY Typed DEF IInv
  <2>4. \A i \in DOMAIN answers :
          answers[i] \in SuccessesOf(e) <=>
            answers[i].kind = "create" /\ answers[i].ok /\ answers[i].email = e
    BY <2>3 DEF SuccessesOf
  <2> QED
    BY <2>1, <2>2, <2>4 DEF CreatedUnheard
<1>6. \A e \in Emails : UNCHANGED <<stored[e], Queued(e)>>
  BY <1>1 DEF Queued
<1>7. ASSUME NEW e \in Emails
      PROVE  /\ (stored[e] + Queued(e) + Heard(e) + Unheard(e))' = Expected(e)'
             /\ e \in CreatedUnheard => accounts[e] # NoAccount
  <2>1. /\ stored[e] \in Nat /\ Queued(e) \in Nat /\ Heard(e) \in Nat /\ Unheard(e) \in Nat
        /\ stored[e] + Queued(e) + Heard(e) + Unheard(e) = Expected(e)
        /\ Expected(e) \in {0, 1}
    BY Naturals DEF IInv, OneProfile, Expected
  <2>2. CASE e \in CreatedUnheard
    <3>1. /\ Expected(e) = 1 /\ stored[e] = 0 /\ Queued(e) = 0
      BY <1>5, <2>1, <2>2
    <3>2. Expected(e)' = 0
      BY <1>1, <2>2 DEF Expected
    <3>3. accounts[e] # NoAccount
      BY <3>1 DEF Expected
    <3> QED
      BY <1>4, <1>6, <3>1, <3>2, <3>3
  <2>3. CASE e \notin CreatedUnheard
    <3>1. Heard(e) = 0 /\ Unheard(e) = 0
      BY <1>5, <2>3
    <3>2. Expected(e)' = Expected(e)
      BY <1>1, <2>3 DEF Expected
    <3> QED
      BY <1>4, <1>6, <2>1, <2>3, <3>1, <3>2
  <2> QED
    BY <2>2, <2>3
<1>8. CreatedUnheard \subseteq Emails
  BY Typed DEF CreatedUnheard, IInv
<1> QED
  BY <1>1, <1>2, <1>7, <1>8 DEF OneProfile

LEMMA ProfilesStep ==
  ASSUME IInv, OneProfile, [Next]_vars
  PROVE  OneProfile'
<1>1. CASE SignUpTapped
  <2>1. UNCHANGED <<accounts, queued, stored, answers, lost>>
    BY <1>1 DEF SignUpTapped, storeVars
  <2>2. \/ UNCHANGED calls
        \/ \E email \in Emails, password \in Text : CallAuth("create", email, Trim(password))
    BY <1>1 DEF SignUpTapped
  <2>3. CASE UNCHANGED calls
    BY <2>1, <2>3, ProfilesStay DEF CreatedOf, Created, OneProfile
  <2> QED
    BY <2>1, <2>2, <2>3, ProfilesCall
<1>2. CASE LoginTapped
  <2>1. /\ UNCHANGED <<accounts, queued, stored, answers, lost>>
        /\ \E email \in Emails, password \in Text : CallAuth("signIn", email, Trim(password))
    BY <1>2 DEF LoginTapped, storeVars
  <2> QED
    BY <2>1, ProfilesCall
<1>3. CASE OpenSignUp \/ OpenLogin \/ Back \/ OpenProfile \/ SignOutPressed \/ LoadingDismissed
           \/ NamesArrive \/ UNCHANGED vars
  <2>1. UNCHANGED <<accounts, calls, queued, stored, answers, lost>>
    BY <1>3 DEF OpenSignUp, OpenLogin, OpenForm, Back, OpenProfile, SignOutPressed,
                LoadingDismissed, NamesArrive, vars, authVars, storeVars
  <2>2. IsFiniteSet(calls') /\ \A e \in Emails : CreatedOf(e)' = CreatedOf(e)
    BY <2>1 DEF CreatedOf, Created, OneProfile
  <2> QED
    BY <2>1, <2>2, ProfilesStay
<1> QED
  BY <1>1, <1>2, <1>3, ProfilesServe, ProfilesAnswer, ProfilesCallback, ProfilesSettle,
     ProfilesRelaunch DEF Next, User, MainQueue, Network

-----------------------------------------------------------------------------
(* Theorems *)

\* Every reachable state of the accounts has its type.
THEOREM TypeCorrect == Spec => []TypeOK
<1>1. IInv => TypeOK
  BY DEF IInv
<1> QED
  BY InitIInv, Preserved, <1>1, PTL DEF Spec

\* transitionToHome and the dismissal of the loading screen never show the tabs while
\* nobody is signed in, however late an answer comes and whatever the user did meanwhile.
THEOREM TabsBelongToSomebody == Spec => []HomeHasUser
<1>1. IInv => HomeHasUser
  BY DEF IInv, UserBehindHome, HomeHasUser
<1> QED
  BY InitIInv, Preserved, <1>1, PTL DEF Spec

\* Every account has exactly one profile document, written or on its way, unless a step
\* between its creation and the write failed (signUpTapped).
THEOREM OneProfileEach == Spec => []ProfilesMatchAccounts
<1>1. ASSUME Init PROVE OneProfile
  <2>1. IsFiniteSet(calls) /\ \A email \in lost : accounts[email] # NoAccount
    BY <1>1, FS_EmptySet DEF Init
  <2>2. ASSUME NEW email \in Emails
        PROVE  stored[email] = 0 /\ Queued(email) = 0 /\ Heard(email) = 0 /\ Unheard(email) = 0
    <3>1. /\ Hits(queued, WritesOf(email)) = {} /\ Hits(answers, SuccessesOf(email)) = {}
          /\ CreatedOf(email) = {} /\ stored[email] = 0
      BY <1>1 DEF Init, Hits, CreatedOf
    <3> QED
      BY <3>1, FS_EmptySet DEF Queued, Heard, Unheard
  <2>3. \A email \in Emails : Expected(email) = 0
    BY <1>1 DEF Init, Expected
  <2> QED
    BY <2>1, <2>2, <2>3 DEF OneProfile
<1>2. ASSUME IInv, OneProfile PROVE ProfilesMatchAccounts
  <2>1. ASSUME NEW email \in Emails
        PROVE  ProfilesOf(email) = Expected(email)
    <3>1. \A i \in DOMAIN queued : queued[i] \in ProfileWrite
      <4>1. queued \in Seq(ProfileWrite)
        BY <1>2 DEF IInv, TypeOK, ProfileWrite
      <4> QED
        BY <4>1, ElementOfSeq, LenProperties
    <3>2. {i \in DOMAIN queued : queued[i].uid = email} = Hits(queued, WritesOf(email))
      BY <3>1 DEF Hits, WritesOf
    <3>3. \A i \in DOMAIN answers : answers[i] \in AnswerOf
      BY <1>2, Typed DEF IInv
    <3>4. {i \in DOMAIN answers :
             answers[i].kind = "create" /\ answers[i].ok /\ answers[i].email = email}
            = Hits(answers, SuccessesOf(email))
      BY <3>3 DEF Hits, SuccessesOf
    <3>5. ProfilesOf(email) = stored[email] + Queued(email) + Heard(email) + Unheard(email)
      BY <3>2, <3>4 DEF ProfilesOf, Count, Queued, Heard, Unheard, CreatedOf
    <3> QED
      BY <1>2, <3>5 DEF OneProfile
  <2> QED
    BY <2>1 DEF ProfilesMatchAccounts, Expected
<1> QED
  BY InitIInv, Preserved, ProfilesStep, <1>1, <1>2, PTL DEF Spec

\* For somebody who waits for every answer, the tabs and the Profile tab are those of the
\* account asked for last (loginTapped, signUpTapped, fetchUserInfo).
THEOREM PatientUserIsThemselves == Spec => []PatientUserIsCurrent
<1>1. Init => Patience
  BY DEF Init, Patience
<1>2. Patience => PatientUserIsCurrent
  BY DEF Patience, PatientUserIsCurrent
<1> QED
  BY InitIInv, Preserved, PatienceStep, <1>1, <1>2, PTL DEF Spec

\* A password is never refused for its blanks, whenever they were typed: sign-up and
\* login trim alike (signUpTapped, loginTapped).
THEOREM BlanksNeverRefused == Spec => []AcceptsItsPassword
<1>1. Init => Trimmed
  BY DEF Init, Trimmed
<1>2. ASSUME IInv, Trimmed PROVE AcceptsItsPassword
  <2>1. ASSUME NEW call \in calls, call.verdict = "wrongPassword"
        PROVE  call.password.core # accounts[call.email].core
    <3>1. call.password \in Text /\ call.email \in Emails
      BY <1>2, Typed DEF IInv
    <3>2. accounts[call.email] \in Text /\ accounts[call.email] # call.password
      BY <1>2, <2>1, <3>1 DEF IInv, TypeOK, Trimmed
    <3>3. accounts[call.email].padded = FALSE /\ call.password.padded = FALSE
      BY <1>2, <2>1, <3>1, <3>2 DEF Trimmed, Text
    <3> QED
      BY <3>1, <3>2, <3>3, SameCore
  <2> QED
    BY <2>1 DEF AcceptsItsPassword
<1> QED
  BY InitIInv, Preserved, TrimmedStep, <1>1, <1>2, PTL DEF Spec

=============================================================================
