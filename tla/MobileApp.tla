----------------------------- MODULE MobileApp ------------------------------
(***************************************************************************)
(* The mobile app: its API client, and its screens over a client that      *)
(* answers or fails.  The screens share no state but the session: a        *)
(* behaviour is that of the client or of one screen, and `mode' tells of   *)
(* which.                                                                  *)
(***************************************************************************)
EXTENDS Integers, Sequences, FiniteSets, MobileClient

CONSTANTS MaxDays, MaxPresses, Notes, MaxLoads, Pages, MaxSwitches,
          MaxSubmits, MaxScreens, Phones, MaxSaves, MaxUploads,
          MaxPasswords, MaxLaunches,  \* see the modules of the screens
          FirstNumber                 \* the phone number before anything is typed

VARIABLES mode,
          day, rows, today, loads, press, presses, missed,
          there, unread, shown, load, loaded, refreshing, marks,
          shownPages, nextUrl, firsts, mores, isLoading, isLoadingMore, failed, switches,
          booked, stack, submission,
          record, pictures, employee, phone, pictureUrl, saving, upload, unheard, saves, uploads,
          account, had, kept, user, mustChangePassword, entry, change, leaving,
          passwordSaved, seen, unknown, next, launches

CheckIn == INSTANCE CheckInScreen
Dashboard == INSTANCE DashboardScreen
History == INSTANCE HistoryScreen
Leaves == INSTANCE LeaveScreens
Profile == INSTANCE ProfileScreen
Entry == INSTANCE SignInScreens

\* There is room on the stack for a list per submission, and a first page of records.
ASSUME MobileAppAssumption ==
    /\ MaxDays \in Nat \ {0} /\ MaxPresses \in Nat
    /\ IsFiniteSet(Notes) /\ MaxLoads \in Nat \ {0}
    /\ Pages \in Nat \ {0} /\ MaxSwitches \in Nat
    /\ MaxSubmits \in Nat /\ MaxScreens \in Nat /\ MaxSubmits < MaxScreens
    /\ MaxSaves \in Nat /\ MaxUploads \in Nat
    /\ MaxPasswords \in Nat /\ MaxLaunches \in Nat

checkInVars == <<day, rows, today, loads, press, presses, missed>>
dashboardVars == <<there, unread, shown, load, loaded, refreshing, marks>>
historyVars == <<shownPages, nextUrl, firsts, mores, isLoading, isLoadingMore, failed>>
leaveVars == <<booked, stack, submission>>
profileVars ==
    <<record, pictures, employee, phone, pictureUrl, saving, upload, unheard, saves, uploads>>
signInVars ==
    <<account, had, kept, user, mustChangePassword, entry, change, leaving, passwordSaved,
      seen, unknown, next, launches>>
vars == <<mode, clientVars, checkInVars, dashboardVars, historyVars, switches, leaveVars,
          profileVars, signInVars>>

Init ==
    /\ mode \in {"client", "checkIn", "dashboard", "history", "leave", "profile", "signIn"}
    /\ ClientInit /\ CheckIn!CheckInInit /\ Dashboard!DashboardInit
    /\ History!HistoryInit /\ Leaves!LeaveScreensInit /\ Profile!ProfileInit
    /\ Entry!SignInInit
    /\ mode = "dashboard" \/ there = {}
    /\ mode = "leave" \/ stack = <<Leaves!RequestForm>>
    /\ mode = "profile" \/ phone = FirstNumber
    /\ mode = "signIn" \/ (kept /\ ~account.must)

Next ==
    /\ mode' = mode
    /\ \/ /\ mode = "client" /\ ClientNext
          /\ UNCHANGED <<checkInVars, dashboardVars, historyVars, switches, leaveVars,
                         profileVars, signInVars>>
       \/ /\ mode = "checkIn" /\ CheckIn!CheckInNext
          /\ UNCHANGED <<clientVars, dashboardVars, historyVars, switches, leaveVars,
                         profileVars, signInVars>>
       \/ /\ mode = "dashboard" /\ Dashboard!DashboardNext
          /\ UNCHANGED <<clientVars, checkInVars, historyVars, switches, leaveVars,
                         profileVars, signInVars>>
       \/ /\ mode = "history" /\ History!HistoryNext
          /\ UNCHANGED <<clientVars, checkInVars, dashboardVars, leaveVars, profileVars,
                         signInVars>>
       \/ /\ mode = "leave" /\ Leaves!LeaveScreensNext
          /\ UNCHANGED <<clientVars, checkInVars, dashboardVars, historyVars, profileVars,
                         signInVars>>
       \/ /\ mode = "profile" /\ Profile!ProfileNext
          /\ UNCHANGED <<clientVars, checkInVars, dashboardVars, historyVars, switches,
                         leaveVars, signInVars>>
       \/ /\ mode = "signIn" /\ Entry!SignInNext
          /\ UNCHANGED <<clientVars, checkInVars, dashboardVars, historyVars, switches,
                         leaveVars, profileVars>>
       \* The bounds of a screen are reached: no deadlock.
       \/ mode # "client" /\ UNCHANGED vars

\* Requests are answered or fail, timers fire and callbacks run, in whichever mode
\* they can be due; the user, the picker and the positioning owe nothing.
Fairness ==
    /\ ClientFairness
    /\ WF_checkInVars(mode = "checkIn" /\ CheckIn!Loads)
    /\ WF_checkInVars(mode = "checkIn" /\ CheckIn!Ends)
    /\ WF_dashboardVars(mode = "dashboard" /\ Dashboard!Answers)
    /\ WF_historyVars(mode = "history" /\ History!HistoryAnswers)
    /\ \A n \in 1..MaxSubmits : WF_leaveVars(mode = "leave" /\ Leaves!Submission(n))
    /\ WF_profileVars(mode = "profile" /\ Profile!PhoneAnswers)
    /\ WF_profileVars(mode = "profile" /\ Profile!PictureAnswers)
    /\ WF_signInVars(mode = "signIn" /\ Entry!SignInAnswers)
    /\ WF_signInVars(mode = "signIn" /\ Entry!SettingsAnswers)
    /\ WF_signInVars(mode = "signIn" /\ Entry!LoggedOut)

Spec == Init /\ [][Next]_vars /\ Fairness

-----------------------------------------------------------------------------
TypeOK ==
    /\ ClientTypeOK /\ CheckIn!CheckInTypeOK /\ Dashboard!DashboardTypeOK
    /\ History!HistoryTypeOK /\ Leaves!LeaveScreensTypeOK /\ Profile!ProfileTypeOK
    /\ Entry!SignInTypeOK

\* The handlers of the screens: what a screen shows agrees with the server, whichever
\* answers are late, lost or fail: the attendance of today and its button, the badge
\* of the dashboard, the pages of the history, the list that a leave request opens,
\* the phone number and the picture, and whether the password must be changed.
ScreensAgree ==
    /\ CheckIn!ScreenAgrees /\ Dashboard!CountIsNatural /\ History!PagesInOrder
    /\ Leaves!SubmittedIsListed /\ Profile!ProfileAgrees
    /\ Entry!PasswordsAgree

\* The `finally' blocks of AuthContext and of the screens: the splash screen, every
\* spinner and every button that is busy come to an end, whichever requests fail and
\* even when no position is found.
NothingSpins ==
    /\ LaunchEnds
    /\ mode = "checkIn" => CheckIn!EveryPressEnds
    /\ mode = "dashboard" => Dashboard!LoadEnds
    /\ mode = "history" => History!HistoryLoads
    /\ mode = "leave" => Leaves!SubmitEnds
    /\ mode = "profile" => Profile!ProfileEnds
    /\ mode = "signIn" => Entry!SignInEnds
=============================================================================
