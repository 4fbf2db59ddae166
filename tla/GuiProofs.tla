------------------------------ MODULE GuiProofs ------------------------------
(***************************************************************************)
(* The GUI's flags and selection, for any videos, lists of formats and     *)
(* number of commands that overlap.                                        *)
(***************************************************************************)
EXTENDS Gui, TLAPS

IInv == TypeOK /\ BusyMeansWorking /\ SelectionOfInfo

---------------------------------------------------------------------------
LEMMA FirstOrNone == {0, 1} \subseteq 0..MaxShown \cup {1}
<1>1. MaxShown \in Nat
  BY FormatAssumption
<1> QED BY <1>1

LEMMA InitIInv == Init => IInv
<1> SUFFICES ASSUME Init PROVE IInv
  OBVIOUS
<1>1. TypeOK
  BY FirstOrNone DEF Init, TypeOK, Nothing
<1> QED BY <1>1 DEF Init, IInv, BusyMeansWorking, SelectionOfInfo, Nothing

\* A step that starts no command, ends none and selects nothing.
LEMMA FieldsOnly ==
  ASSUME IInv, TypeOK', UNCHANGED <<fetches, downloads, is_fetching, is_downloading,
                                    video_info, selected_format, clicked>>
  PROVE  IInv'
BY DEF IInv, BusyMeansWorking, SelectionOfInfo, IsButton, Buttons, Formats

LEMMA StepIInv == IInv /\ [Next]_vars => IInv'
<1> SUFFICES ASSUME IInv, [Next]_vars PROVE IInv'
  OBVIOUS
<1> USE DEF input
<1>1. ASSUME NEW u \in Url \cup {NoUrl}, EditUrl(u) PROVE IInv'
  BY <1>1, FieldsOnly DEF EditUrl, IInv, TypeOK
<1>2. ASSUME NEW k \in Cookie \cup {NoCookie}, EditCookie(k) PROVE IInv'
  BY <1>2, FieldsOnly DEF EditCookie, IInv, TypeOK
<1>3. CASE FetchRefused \/ DownloadRefused \/ ClearError
  BY <1>3, FieldsOnly DEF FetchRefused, DownloadRefused, ClearError, SetError, IInv, TypeOK
<1>4. CASE SaveCookie \/ SaveFails
  BY <1>4, FieldsOnly DEF SaveCookie, SaveFails, IInv, TypeOK
<1>5. CASE Restart
  <2>1. TypeOK'
    BY <1>5, FirstOrNone DEF Restart, IInv, TypeOK, Nothing
  <2> QED BY <1>5, <2>1 DEF Restart, IInv, BusyMeansWorking, SelectionOfInfo, Nothing
<1>6. ASSUME NEW s \in Slot, FetchInfo(s) PROVE IInv'
  <2>1. TypeOK'
    BY <1>6 DEF FetchInfo, IInv, TypeOK
  <2>2. fetches'[s] # NoUrl
    BY <1>6, UrlAssumption DEF FetchInfo, IInv, TypeOK
  <2> QED BY <1>6, <2>1, <2>2 DEF FetchInfo, IInv, BusyMeansWorking, SelectionOfInfo, IsButton,
          Buttons, Formats
<1>7. ASSUME NEW s \in Slot, InfoFetched(s) PROVE IInv'
  <2>1. TypeOK'
    BY <1>7, FirstOrNone DEF InfoFetched, IInv, TypeOK
  <2> QED BY <1>7, <2>1 DEF InfoFetched, IInv, BusyMeansWorking, SelectionOfInfo, IsButton,
          Buttons, Formats
<1>8. ASSUME NEW s \in Slot, FetchFails(s) PROVE IInv'
  <2>1. TypeOK'
    BY <1>8 DEF FetchFails, IInv, TypeOK
  <2> QED BY <1>8, <2>1 DEF FetchFails, IInv, BusyMeansWorking, SelectionOfInfo, IsButton, Buttons, Formats
<1>9. ASSUME NEW s \in Slot, StartDownload(s) PROVE IInv'
  <2>1. /\ downloads' = [downloads EXCEPT ![s] = downloads'[s]]
        /\ downloads'[s].url \in Url /\ downloads'[s].info = video_info
        /\ downloads'[s].clicked = clicked
    BY <1>9 DEF StartDownload, IInv, TypeOK
  <2>2. TypeOK'
    BY <1>9, <2>1 DEF StartDownload, IInv, TypeOK
  <2>3. downloads'[s] # Nothing
    BY <2>1, UrlAssumption DEF Nothing
  <2>4. BusyMeansWorking'
    BY <1>9, <2>3 DEF StartDownload, IInv, BusyMeansWorking
  <2>5. ASSUME NEW k \in Slot, downloads'[k].clicked # NoFormat
        PROVE  IsButton(downloads'[k].info, downloads'[k].clicked)
    <3>1. CASE k = s
      <4>1. clicked # NoFormat
        BY <2>1, <2>5, <3>1
      <4>2. IsButton(video_info, clicked)
        BY <1>9, <4>1 DEF StartDownload, IInv, SelectionOfInfo, IsButton
      <4> QED BY <2>1, <3>1, <4>2
    <3>2. CASE k # s
      <4>1. downloads'[k] = downloads[k]
        BY <2>1, <3>2 DEF IInv, TypeOK
      <4> QED BY <2>5, <4>1 DEF IInv, SelectionOfInfo
    <3> QED BY <3>1, <3>2
  <2>6. SelectionOfInfo'
    <3>1. UNCHANGED <<video_info, selected_format, clicked>>
      BY <1>9 DEF StartDownload
    <3> QED BY <2>5, <3>1 DEF IInv, SelectionOfInfo, IsButton, Buttons, Formats
  <2> QED BY <2>2, <2>4, <2>6 DEF IInv
<1>10. ASSUME NEW s \in Slot, NEW ok \in BOOLEAN, DownloadCompleted(s, ok) PROVE IInv'
  <2>1. TypeOK'
    BY <1>10 DEF DownloadCompleted, IInv, TypeOK, Nothing
  <2>2. \A k \in Slot : downloads'[k] = Nothing \/ downloads'[k] = downloads[k]
    BY <1>10 DEF DownloadCompleted, IInv, TypeOK
  <2>3. SelectionOfInfo'
    <3>1. UNCHANGED <<video_info, selected_format, clicked>>
      BY <1>10 DEF DownloadCompleted
    <3> QED BY <2>2, <3>1 DEF IInv, SelectionOfInfo, IsButton, Buttons, Formats, Nothing
  <2> QED BY <1>10, <2>1, <2>3 DEF DownloadCompleted, IInv, BusyMeansWorking
<1>11. ASSUME NEW i \in 1..MaxShown, SelectFormat(i) PROVE IInv'
  <2>1. TypeOK'
    BY <1>11, FormatAssumption DEF SelectFormat, IInv, TypeOK
  <2>2. SelectionOfInfo'
    BY <1>11 DEF SelectFormat, IInv, SelectionOfInfo, IsButton, Buttons, Formats
  <2> QED BY <1>11, <2>1, <2>2 DEF SelectFormat, IInv, BusyMeansWorking
<1>12. CASE UNCHANGED vars
  BY <1>12, FieldsOnly DEF vars, IInv, TypeOK
<1> QED
  BY <1>1, <1>2, <1>3, <1>4, <1>5, <1>6, <1>7, <1>8, <1>9, <1>10, <1>11, <1>12 DEF Next

LEMMA Inductive == Spec => []IInv
  BY InitIInv, StepIInv, PTL DEF Spec

---------------------------------------------------------------------------
\* The types.
THEOREM TypeCorrect == Spec => []TypeOK
<1>1. IInv => TypeOK
  BY DEF IInv
<1> QED BY <1>1, Inductive, PTL

\* BusyMeansWorking: however many fetches and downloads overlap, a flag that is
\* set has a command running whose report clears it (update).
THEOREM BusyMeansWorkingCorrect == Spec => []BusyMeansWorking
<1>1. IInv => BusyMeansWorking
  BY DEF IInv
<1> QED BY <1>1, Inductive, PTL

\* SelectionOfInfo: in whatever order fetches that overlap report, the selected
\* index is one of the info that is shown (InfoFetched, SelectFormat).
THEOREM SelectionOfInfoCorrect == Spec => []SelectionOfInfo
<1>1. IInv => SelectionOfInfo
  BY DEF IInv
<1> QED BY <1>1, Inductive, PTL
=============================================================================
