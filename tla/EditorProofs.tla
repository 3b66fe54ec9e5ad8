---------------------------- MODULE EditorProofs ----------------------------
(***************************************************************************)
(* The editor's properties, for all rows, samples and dictionaries.        *)
(***************************************************************************)
EXTENDS Editor, ProfileProofs

-----------------------------------------------------------------------------
(* Facts about the rows.                                                   *)

LEMMA SpinKeyList ==
    SpinKeys = {"port", "tunnel-mtu", "fragment-size", "keysize", "proxy-port",
                "mssfix", "ping", "ping-restart", "reneg-seconds",
                "connect-timeout", "override-log-level"}
BY DEF SpinKeys, SpinMax

LEMMA RowKinds == WIDGET_DATA_KEYS = TextKeys \cup SpinKeys \cup SwitchKeys
BY SpinKeyList
   DEF WIDGET_DATA_KEYS, TextKeys, ComboKeys, PickerKeys, EntryKeys, SwitchKeys

LEMMA AllWired == TextKeys \cup SpinKeys \cup SwitchKeys \cup SecretKeys = Wired
BY DEF Wired, TextKeys

LEMMA SpinMaxValues ==
    \A k \in SpinKeys : SpinMax[k] \in {6, 65535, TIMER_SECS_MAX}
BY DEF SpinKeys, SpinMax

LEMMA Printable ==
    ASSUME NEW n \in DOMAIN Decimal
    PROVE  Decimal[n] \in Strings /\ Decimal[n] # ""
BY StringAssumption

LEMMA ClampedNumber ==
    ASSUME NEW d, NEW k \in SpinKeys
    PROVE  LoadSpin(d)[k] \in DOMAIN Decimal /\ LoadSpin(d)[k] \in 0..SpinMax[k]
<1> DEFINE n == parse_int_default(d, k)
           max == SpinMax[k]
<1>1. max \in {6, 65535, TIMER_SECS_MAX} BY SpinMaxValues
<1>2. max \in Nat BY <1>1 DEF TIMER_SECS_MAX
<1>3. n = 0 \/ \E v \in DOMAIN Number : n = Number[v] BY DEF parse_int_default
<1>4. n \in Int
  <2>1. \A v \in DOMAIN Number : Number[v] \in Int BY StringAssumption, Zenon
  <2> QED BY <1>3, <2>1
<1>5. NumberRow(max) BY <1>1, EditorAssumption
<1>6. LoadSpin(d)[k] = Clamp(n, max) BY DEF LoadSpin
<1> HIDE DEF n, max
<1>7. Clamp(n, max) \in 0..max BY <1>2, <1>4 DEF Clamp
<1>8. Clamp(n, max) \in DOMAIN Decimal
  <2>1. CASE n = 0 BY <2>1, <1>2, <1>5 DEF Clamp, NumberRow
  <2>2. CASE \E v \in DOMAIN Number : n = Number[v]
    BY <2>2, <1>5 DEF Clamp, NumberRow
  <2> QED BY <1>3, <2>1, <2>2
<1> QED BY <1>6, <1>7, <1>8 DEF max

LEMMA LoadedTypes ==
    ASSUME NEW d, IsItems(d)
    PROVE  /\ LoadText(d) \in [TextKeys -> Strings]
           /\ LoadSpin(d) \in [SpinKeys -> DOMAIN Decimal]
           /\ LoadSwitch(d) \in [SwitchKeys -> BOOLEAN]
<1>1. LoadText(d) \in [TextKeys -> Strings]
  BY StringAssumption DEF LoadText, IsItems, Has
<1>2. LoadSpin(d) \in [SpinKeys -> DOMAIN Decimal] BY ClampedNumber DEF LoadSpin
<1>3. LoadSwitch(d) \in [SwitchKeys -> BOOLEAN] BY DEF LoadSwitch, Yes, Is
<1> QED BY <1>1, <1>2, <1>3

(* What Apply writes for a row of the dialog is a string.                  *)
LEMMA WrittenString ==
    ASSUME EditorTypeOK, NEW k \in WIDGET_DATA_KEYS
    PROVE  Written(k) \in Strings
<1>1. "" \in Strings /\ "yes" \in Strings BY StringAssumption
<1>2. text \in [TextKeys -> Strings] BY DEF EditorTypeOK
<1>3. ASSUME NEW x \in SpinKeys PROVE Decimal[spin[x]] \in Strings
  <2>1. spin[x] \in DOMAIN Decimal BY DEF EditorTypeOK
  <2> QED BY <2>1, Printable
<1>4. "mssfix" \in SpinKeys BY SpinKeyList
<1>5. CASE k \in TextKeys BY <1>1, <1>2, <1>5 DEF Written
<1>6. CASE k \notin TextKeys
  BY <1>1, <1>3, <1>4, <1>6 DEF Written, int_or_empty, yes_or_empty
<1> QED BY <1>5, <1>6

LEMMA SavedItems ==
    ASSUME EditorTypeOK
    PROVE  IsItems(Saved)
<1> DEFINE flags == {FlagKey(s) : s \in Stored}
           own == {k \in WIDGET_DATA_KEYS : Written(k) # ""}
           foreign == (DOMAIN data \cup DOMAIN initial) \ WIDGET_DATA_KEYS
<1>1. DOMAIN Saved = own \cup foreign \cup flags BY DEF Saved
<1>2. \A k \in DOMAIN Saved :
        Saved[k] = IF k \in own THEN Written(k)
                   ELSE IF k \in flags THEN AgentOwned
                   ELSE IF k \in DOMAIN initial THEN initial[k] ELSE data[k]
  BY DEF Saved
<1>3. \A k \in own : Written(k) \in Strings /\ Written(k) # ""
  BY WrittenString, Zenon
<1>5. AgentOwned \in Strings /\ AgentOwned # "" BY StringAssumption DEF AgentOwned
<1>6. \A k \in foreign : /\ k \in DOMAIN initial => initial[k] \in Strings /\ initial[k] # ""
                         /\ k \in DOMAIN data => data[k] \in Strings /\ data[k] # ""
  BY DEF EditorTypeOK, IsItems
<1> HIDE DEF own, flags
<1>7. SUFFICES ASSUME NEW k \in DOMAIN Saved
               PROVE  Saved[k] \in Strings /\ Saved[k] # ""
  BY DEF IsItems
<1>8. CASE k \in own BY <1>2, <1>3, <1>7, <1>8
<1>9. CASE k \notin own /\ k \in flags BY <1>2, <1>5, <1>7, <1>9
<1>10. CASE k \notin own /\ k \notin flags
  <2>1. k \in foreign BY <1>1, <1>7, <1>10
  <2>2. Saved[k] = IF k \in DOMAIN initial THEN initial[k] ELSE data[k]
    BY <1>2, <1>7, <1>10
  <2> QED BY <1>6, <2>1, <2>2
<1> QED BY <1>8, <1>9, <1>10

-----------------------------------------------------------------------------
(* The inductive invariant.                                                *)

(* The rows that no longer show what was loaded.                           *)
Differs ==
    {k \in TextKeys : text[k] # LoadText(initial)[k]}
      \cup {k \in SpinKeys : spin[k] # LoadSpin(initial)[k]}
      \cup {k \in SwitchKeys : switch[k] # LoadSwitch(initial)[k]}
      \cup {s \in SecretKeys : typed[s] # ""}

RowOfOpenEditor == pickerRow = "current" => open

(* Between opening and closing, the connection and the snapshot agree on   *)
(* the foreign items they share, but for flags Apply has set.              *)
SnapshotFresh ==
    open => \A k \in (DOMAIN data \cap DOMAIN initial) \ WIDGET_DATA_KEYS :
              \/ data[k] = initial[k]
              \/ \E s \in SecretKeys \cap touched : k = FlagKey(s)

EInv ==
    /\ EditorTypeOK
    /\ RowOfOpenEditor
    /\ OnlyUserEdits
    /\ SnapshotFresh
    /\ SavedProfileComplete

LEMMA OnlyUserEditsIs ==
    OnlyUserEdits <=>
      /\ "orphan" \notin announced
      /\ open => Differs \subseteq touched /\ (Differs # {} => "current" \in announced)
BY Zenon DEF OnlyUserEdits, Differs

EStart == IsItems(data) /\ IsItems(secrets) /\ EditorInit /\ edits \in 0..MaxEdits

LEMMA EInvInit == EStart => EInv
<1> SUFFICES ASSUME EStart PROVE EInv OBVIOUS
<1> USE DEF EStart, EditorInit
<1>1. EditorTypeOK
  <2>1. IsItems(initial) BY DEF IsItems, NoItems
  <2>2. text \in [TextKeys -> Strings] /\ typed \in [SecretKeys -> Strings]
    BY StringAssumption DEF BlankText, BlankTyped
  <2>3. /\ spin \in [SpinKeys -> DOMAIN Decimal]
        /\ \A k \in SpinKeys : spin[k] \in 0..SpinMax[k]
    <3>1. 0 \in DOMAIN Decimal BY EditorAssumption DEF NumberRow
    <3>2. \A k \in SpinKeys : SpinMax[k] \in Nat BY SpinMaxValues DEF TIMER_SECS_MAX
    <3>3. spin = [k \in SpinKeys |-> 0] BY DEF BlankSpin
    <3> QED BY <3>1, <3>2, <3>3
  <2>4. switch \in [SwitchKeys -> BOOLEAN] BY DEF BlankSwitch
  <2> QED BY <2>1, <2>2, <2>3, <2>4 DEF EditorTypeOK
<1> QED BY <1>1 DEF EInv, RowOfOpenEditor, OnlyUserEdits, SnapshotFresh, SavedProfileComplete

-----------------------------------------------------------------------------
(* The rows a user touches are rows of the dialog.                         *)
LEMMA SampleRows ==
    /\ \A e \in TextSamples : e[1] \in TextKeys /\ e[2] \in Strings
    /\ \A e \in SpinSamples : e[1] \in SpinKeys /\ e[2] \in Int
    /\ SwitchSamples \subseteq SwitchKeys
    /\ \A e \in SecretSamples : e[1] \in SecretKeys /\ e[2] \in Strings
    /\ PickerSamples \subseteq PickerKeys
BY EditorAssumption

LEMMA EditCounted ==
    ASSUME EditorTypeOK, CanEdit
    PROVE  open /\ edits' \in 0..MaxEdits
BY EditorAssumption DEF EditorTypeOK, CanEdit

(* A touched row of the dialog announces itself on its own editor.         *)
LEMMA ChangedAnnounces ==
    ASSUME NEW k \in TextKeys \cup SpinKeys \cup SwitchKeys \cup SecretKeys,
           Changed(k)
    PROVE  /\ announced' = announced \cup {"current"}
           /\ touched' = touched \cup {k}
<1>1. k \in Wired BY AllWired
<1>2. {"current"} \cap {"current"} = {"current"} OBVIOUS
<1> QED BY <1>1, <1>2 DEF Changed, emit_changed

(* A returning file chooser fills the row it was opened for or none, and   *)
(* nothing is emitted for the row of a freed editor.                       *)
LEMMA ReturnCases ==
    ASSUME NEW p, PickerReturn(p), picker \in TextKeys
    PROVE  \/ text' = text /\ touched' = touched /\ announced' = announced
           \/ /\ pickerRow = "current"
              /\ text' = [text EXCEPT ![picker] = p]
              /\ touched' = touched \cup {picker}
              /\ announced' = announced \cup {"current"}
<1>1. CASE pickerRow = "current" /\ p # text[picker]
  <2>1. text' = [text EXCEPT ![picker] = p] /\ Changed(picker)
    BY <1>1 DEF PickerReturn
  <2> QED BY <1>1, <2>1, ChangedAnnounces
<1>2. CASE pickerRow = "orphan"
  <2>1. emit_changed("orphan") /\ text' = text /\ touched' = touched
    BY <1>2 DEF PickerReturn
  <2>2. {"orphan"} \cap {"current"} = {} OBVIOUS
  <2> QED BY <2>1, <2>2 DEF emit_changed
<1>3. CASE ~(pickerRow = "current" /\ p # text[picker]) /\ pickerRow # "orphan"
  BY <1>3 DEF PickerReturn
<1> QED BY <1>1, <1>2, <1>3

LEMMA TypeStep == EditorTypeOK /\ [EditorNext]_editorVars => EditorTypeOK'
<1> SUFFICES ASSUME EditorTypeOK, [EditorNext]_editorVars PROVE EditorTypeOK' OBVIOUS
<1>1. CASE OpenEditor
  <2>1. IsItems(data) BY DEF EditorTypeOK
  <2>2. /\ text' \in [TextKeys -> Strings]
        /\ spin' \in [SpinKeys -> DOMAIN Decimal]
        /\ switch' \in [SwitchKeys -> BOOLEAN]
    BY <1>1, <2>1, LoadedTypes DEF OpenEditor
  <2>3. \A k \in SpinKeys : spin'[k] \in 0..SpinMax[k]
    BY <1>1, ClampedNumber DEF OpenEditor
  <2>4. typed' \in [SecretKeys -> Strings]
    BY <1>1, StringAssumption DEF OpenEditor, BlankTyped
  <2>5. IsItems(initial') /\ IsItems(data') /\ IsItems(secrets')
    BY <1>1 DEF OpenEditor, EditorTypeOK
  <2> QED BY <1>1, <2>2, <2>3, <2>4, <2>5 DEF OpenEditor, EditorTypeOK, IsItems
<1>2. ASSUME NEW e \in TextSamples, EditText(e[1], e[2]) PROVE EditorTypeOK'
  <2>1. e[1] \in TextKeys /\ e[2] \in Strings BY SampleRows
  <2>2. announced' = announced \cup {"current"} /\ touched' = touched \cup {e[1]}
    BY <1>2, <2>1, ChangedAnnounces DEF EditText
  <2>3. edits' \in 0..MaxEdits BY <1>2, EditCounted DEF EditText
  <2>4. text' \in [TextKeys -> Strings] BY <1>2, <2>1 DEF EditText, EditorTypeOK
  <2>5. touched' \subseteq WIDGET_DATA_KEYS \cup SecretKeys
    BY <2>1, <2>2, RowKinds DEF EditorTypeOK
  <2> QED BY <1>2, <2>2, <2>3, <2>4, <2>5 DEF EditText, EditorTypeOK, IsItems
<1>3. ASSUME NEW e \in SpinSamples, EditSpin(e[1], e[2]) PROVE EditorTypeOK'
  <2>1. e[1] \in SpinKeys BY SampleRows
  <2>2. announced' = announced \cup {"current"} /\ touched' = touched \cup {e[1]}
    BY <1>3, <2>1, ChangedAnnounces DEF EditSpin
  <2>3. edits' \in 0..MaxEdits BY <1>3, EditCounted DEF EditSpin
  <2>4. /\ spin' \in [SpinKeys -> DOMAIN Decimal]
        /\ \A k \in SpinKeys : spin'[k] \in 0..SpinMax[k]
    BY <1>3, <2>1 DEF EditSpin, EditorTypeOK
  <2>5. touched' \subseteq WIDGET_DATA_KEYS \cup SecretKeys
    BY <2>1, <2>2, RowKinds DEF EditorTypeOK
  <2> QED BY <1>3, <2>2, <2>3, <2>4, <2>5 DEF EditSpin, EditorTypeOK, IsItems
<1>4. ASSUME NEW k \in SwitchSamples, EditSwitch(k) PROVE EditorTypeOK'
  <2>1. k \in SwitchKeys BY SampleRows
  <2>2. announced' = announced \cup {"current"} /\ touched' = touched \cup {k}
    BY <1>4, <2>1, ChangedAnnounces DEF EditSwitch
  <2>3. edits' \in 0..MaxEdits BY <1>4, EditCounted DEF EditSwitch
  <2>4. switch' \in [SwitchKeys -> BOOLEAN] BY <1>4, <2>1 DEF EditSwitch, EditorTypeOK
  <2>5. touched' \subseteq WIDGET_DATA_KEYS \cup SecretKeys
    BY <2>1, <2>2, RowKinds DEF EditorTypeOK
  <2> QED BY <1>4, <2>2, <2>3, <2>4, <2>5 DEF EditSwitch, EditorTypeOK, IsItems
<1>5. ASSUME NEW e \in SecretSamples, TypeSecret(e[1], e[2]) PROVE EditorTypeOK'
  <2>1. e[1] \in SecretKeys /\ e[2] \in Strings BY SampleRows
  <2>2. announced' = announced \cup {"current"} /\ touched' = touched \cup {e[1]}
    BY <1>5, <2>1, ChangedAnnounces DEF TypeSecret
  <2>3. edits' \in 0..MaxEdits BY <1>5, EditCounted DEF TypeSecret
  <2>4. typed' \in [SecretKeys -> Strings] BY <1>5, <2>1 DEF TypeSecret, EditorTypeOK
  <2>5. touched' \subseteq WIDGET_DATA_KEYS \cup SecretKeys
    BY <2>1, <2>2 DEF EditorTypeOK
  <2> QED BY <1>5, <2>2, <2>3, <2>4, <2>5 DEF TypeSecret, EditorTypeOK, IsItems
<1>6. ASSUME NEW k \in PickerSamples, OpenPicker(k) PROVE EditorTypeOK'
  <2>1. k \in PickerKeys BY SampleRows
  <2>2. edits' \in 0..MaxEdits BY <1>6, EditCounted DEF OpenPicker
  <2> QED BY <1>6, <2>1, <2>2 DEF OpenPicker, EditorTypeOK, IsItems
<1>7. ASSUME NEW p \in Paths, PickerReturn(p) PROVE EditorTypeOK'
  <2>1. p \in Strings BY EditorAssumption
  <2>2. picker \in TextKeys BY <1>7 DEF PickerReturn, EditorTypeOK, TextKeys
  <2>3. \/ text' = text /\ touched' = touched /\ announced' = announced
        \/ /\ text' = [text EXCEPT ![picker] = p]
           /\ touched' = touched \cup {picker}
           /\ announced' = announced \cup {"current"}
    BY <1>7, <2>2, ReturnCases
  <2>4. text' \in [TextKeys -> Strings] BY <2>1, <2>2, <2>3 DEF EditorTypeOK
  <2>5. touched' \subseteq WIDGET_DATA_KEYS \cup SecretKeys
    BY <2>2, <2>3, RowKinds DEF EditorTypeOK
  <2>6. announced' \subseteq {"current", "orphan"} BY <2>3 DEF EditorTypeOK
  <2> QED BY <1>7, <2>4, <2>5, <2>6 DEF PickerReturn, EditorTypeOK, IsItems
<1>8. CASE PickerCancel BY <1>8 DEF PickerCancel, EditorTypeOK, IsItems
<1>9. CASE Apply
  <2>1. IsItems(data') BY <1>9, SavedItems DEF Apply
  <2>2. IsItems(secrets')
    BY <1>9 DEF Apply, EditorTypeOK, IsItems, Stored
  <2> QED BY <1>9, <2>1, <2>2 DEF Apply, EditorTypeOK, IsItems
<1>10. CASE CloseEditor
  <2>1. text' \in [TextKeys -> Strings] /\ typed' \in [SecretKeys -> Strings]
    BY <1>10, StringAssumption DEF CloseEditor, BlankText, BlankTyped
  <2>2. /\ spin' \in [SpinKeys -> DOMAIN Decimal]
        /\ \A k \in SpinKeys : spin'[k] \in 0..SpinMax[k]
    <3>1. 0 \in DOMAIN Decimal BY EditorAssumption DEF NumberRow
    <3>2. \A k \in SpinKeys : SpinMax[k] \in Nat BY SpinMaxValues DEF TIMER_SECS_MAX
    <3>3. spin' = [k \in SpinKeys |-> 0] BY <1>10 DEF CloseEditor, BlankSpin
    <3> QED BY <3>1, <3>2, <3>3
  <2>3. switch' \in [SwitchKeys -> BOOLEAN] BY <1>10 DEF CloseEditor, BlankSwitch
  <2>4. IsItems(initial') BY <1>10 DEF CloseEditor, IsItems, NoItems
  <2>5. pickerRow' \in {"current", "orphan", "gone"}
    BY <1>10 DEF CloseEditor, EditorTypeOK
  <2> QED BY <1>10, <2>1, <2>2, <2>3, <2>4, <2>5 DEF CloseEditor, EditorTypeOK, IsItems
<1>11. CASE UNCHANGED editorVars BY <1>11 DEF editorVars, EditorTypeOK, IsItems
<1> QED BY <1>1, <1>2, <1>3, <1>4, <1>5, <1>6, <1>7, <1>8, <1>9, <1>10, <1>11
  DEF EditorNext

LEMMA RowStep ==
    EditorTypeOK /\ RowOfOpenEditor /\ [EditorNext]_editorVars => RowOfOpenEditor'
BY DEF RowOfOpenEditor, EditorNext, editorVars, OpenEditor, EditText, EditSpin,
       EditSwitch, TypeSecret, OpenPicker, PickerReturn, PickerCancel, Apply,
       CloseEditor, CanEdit

(* A change of one row adds at most that row to those that differ.         *)
LEMMA OneRowDiffers ==
    ASSUME NEW k,
           initial' = initial,
           Differs' \subseteq Differs \cup {k},
           OnlyUserEdits, open, open',
           announced' = announced \cup {"current"},
           touched' = touched \cup {k}
    PROVE  OnlyUserEdits'
<1>1. "orphan" \notin announced /\ Differs \subseteq touched BY OnlyUserEditsIs
<1>2. /\ "orphan" \notin announced'
      /\ Differs' \subseteq touched' /\ "current" \in announced'
  BY <1>1
<1> QED BY <1>2, Zenon DEF OnlyUserEdits, Differs

LEMMA EditsStep ==
    EditorTypeOK /\ RowOfOpenEditor /\ OnlyUserEdits /\ [EditorNext]_editorVars
      => OnlyUserEdits'
<1> SUFFICES ASSUME EditorTypeOK, RowOfOpenEditor, OnlyUserEdits,
                    [EditorNext]_editorVars
             PROVE  OnlyUserEdits'
  OBVIOUS
<1>1. ASSUME UNCHANGED <<open, initial, text, spin, switch, typed, announced, touched>>
      PROVE  OnlyUserEdits'
  BY <1>1 DEF OnlyUserEdits
<1>2. CASE OpenEditor
  <2>1. /\ text' = LoadText(initial') /\ spin' = LoadSpin(initial')
        /\ switch' = LoadSwitch(initial') /\ announced' = {}
        /\ typed' = BlankTyped
    BY <1>2 DEF OpenEditor
  <2>2. \A s \in SecretKeys : typed'[s] = "" BY <2>1 DEF BlankTyped
  <2>3. Differs' = {} BY <2>1, <2>2 DEF Differs
  <2> QED BY <2>1, <2>3 DEF OnlyUserEdits, Differs
<1>3. ASSUME NEW e \in TextSamples, EditText(e[1], e[2]) PROVE OnlyUserEdits'
  <2>1. e[1] \in TextKeys BY SampleRows
  <2>2. announced' = announced \cup {"current"} /\ touched' = touched \cup {e[1]}
    BY <1>3, <2>1, ChangedAnnounces DEF EditText
  <2>3. Differs' \subseteq Differs \cup {e[1]}
    BY <1>3, <2>1 DEF EditText, EditorTypeOK, Differs
  <2> QED BY <1>3, <2>2, <2>3, OneRowDiffers DEF EditText, CanEdit
<1>4. ASSUME NEW e \in SpinSamples, EditSpin(e[1], e[2]) PROVE OnlyUserEdits'
  <2>1. e[1] \in SpinKeys BY SampleRows
  <2>2. announced' = announced \cup {"current"} /\ touched' = touched \cup {e[1]}
    BY <1>4, <2>1, ChangedAnnounces DEF EditSpin
  <2>3. Differs' \subseteq Differs \cup {e[1]}
    BY <1>4, <2>1 DEF EditSpin, EditorTypeOK, Differs
  <2> QED BY <1>4, <2>2, <2>3, OneRowDiffers DEF EditSpin, CanEdit
<1>5. ASSUME NEW k \in SwitchSamples, EditSwitch(k) PROVE OnlyUserEdits'
  <2>1. k \in SwitchKeys BY SampleRows
  <2>2. announced' = announced \cup {"current"} /\ touched' = touched \cup {k}
    BY <1>5, <2>1, ChangedAnnounces DEF EditSwitch
  <2>3. Differs' \subseteq Differs \cup {k}
    BY <1>5, <2>1 DEF EditSwitch, EditorTypeOK, Differs
  <2> QED BY <1>5, <2>2, <2>3, OneRowDiffers DEF EditSwitch, CanEdit
<1>6. ASSUME NEW e \in SecretSamples, TypeSecret(e[1], e[2]) PROVE OnlyUserEdits'
  <2>1. e[1] \in SecretKeys BY SampleRows
  <2>2. announced' = announced \cup {"current"} /\ touched' = touched \cup {e[1]}
    BY <1>6, <2>1, ChangedAnnounces DEF TypeSecret
  <2>3. Differs' \subseteq Differs \cup {e[1]}
    BY <1>6, <2>1 DEF TypeSecret, EditorTypeOK, Differs
  <2> QED BY <1>6, <2>2, <2>3, OneRowDiffers DEF TypeSecret, CanEdit
<1>7. ASSUME NEW k \in PickerSamples, OpenPicker(k) PROVE OnlyUserEdits'
  BY <1>1, <1>7 DEF OpenPicker
<1>8. ASSUME NEW p \in Paths, PickerReturn(p) PROVE OnlyUserEdits'
  <2>1. picker \in TextKeys BY <1>8 DEF PickerReturn, EditorTypeOK, TextKeys
  <2>2. UNCHANGED <<open, initial, spin, switch, typed>> BY <1>8 DEF PickerReturn
  <2>3. CASE text' = text /\ touched' = touched /\ announced' = announced
    BY <1>1, <2>2, <2>3
  <2>4. CASE /\ pickerRow = "current"
             /\ text' = [text EXCEPT ![picker] = p]
             /\ touched' = touched \cup {picker}
             /\ announced' = announced \cup {"current"}
    <3>1. open /\ open' BY <2>2, <2>4 DEF RowOfOpenEditor
    <3>2. Differs' \subseteq Differs \cup {picker}
      BY <2>1, <2>2, <2>4 DEF EditorTypeOK, Differs
    <3> QED BY <2>2, <2>4, <3>1, <3>2, OneRowDiffers
  <2> QED BY <1>8, <2>1, <2>3, <2>4, ReturnCases
<1>9. CASE PickerCancel BY <1>1, <1>9 DEF PickerCancel
<1>10. CASE Apply BY <1>1, <1>10 DEF Apply
<1>11. CASE CloseEditor BY <1>11 DEF CloseEditor, OnlyUserEdits
<1>12. CASE UNCHANGED editorVars BY <1>1, <1>12 DEF editorVars
<1> QED BY <1>2, <1>3, <1>4, <1>5, <1>6, <1>7, <1>8, <1>9, <1>10, <1>11, <1>12
  DEF EditorNext

-----------------------------------------------------------------------------
(* What Apply leaves in vpn.data.                                          *)
LEMMA SavedIs ==
    /\ \A k \in WIDGET_DATA_KEYS : Written(k) # "" => Has(Saved, k) /\ Saved[k] = Written(k)
    /\ \A k \in WIDGET_DATA_KEYS :
         Written(k) = "" /\ Has(Saved, k) => Saved[k] = AgentOwned
    /\ \A k \in (DOMAIN data \cup DOMAIN initial) \ WIDGET_DATA_KEYS :
         /\ Has(Saved, k)
         /\ \/ \E s \in Stored : k = FlagKey(s)
            \/ Saved[k] = IF k \in DOMAIN initial THEN initial[k] ELSE data[k]
<1> DEFINE flags == {FlagKey(s) : s \in Stored}
           own == {k \in WIDGET_DATA_KEYS : Written(k) # ""}
           foreign == (DOMAIN data \cup DOMAIN initial) \ WIDGET_DATA_KEYS
<1>1. DOMAIN Saved = own \cup foreign \cup flags BY DEF Saved
<1>2. \A k \in DOMAIN Saved :
        Saved[k] = IF k \in own THEN Written(k)
                   ELSE IF k \in flags THEN AgentOwned
                   ELSE IF k \in DOMAIN initial THEN initial[k] ELSE data[k]
  BY DEF Saved
<1>3. \A k \in flags : \E s \in Stored : k = FlagKey(s) OBVIOUS
<1>4. /\ \A k \in WIDGET_DATA_KEYS : k \in own <=> Written(k) # ""
      /\ \A k \in own : k \in WIDGET_DATA_KEYS
      /\ \A k \in foreign : k \notin WIDGET_DATA_KEYS
  OBVIOUS
<1> HIDE DEF flags, own, foreign
<1>5. \A k \in WIDGET_DATA_KEYS : Written(k) # "" => Has(Saved, k) /\ Saved[k] = Written(k)
  BY <1>1, <1>2, <1>4 DEF Has
<1>6. \A k \in WIDGET_DATA_KEYS : Written(k) = "" /\ Has(Saved, k) => Saved[k] = AgentOwned
  BY <1>1, <1>2, <1>4 DEF Has
<1>7. \A k \in foreign : /\ Has(Saved, k)
                         /\ \/ \E s \in Stored : k = FlagKey(s)
                            \/ Saved[k] = IF k \in DOMAIN initial THEN initial[k] ELSE data[k]
  BY <1>1, <1>2, <1>3, <1>4 DEF Has
<1> QED BY <1>5, <1>6, <1>7 DEF foreign

LEMMA StoredTouched ==
    ASSUME OnlyUserEdits, open
    PROVE  Stored \subseteq SecretKeys \cap touched
<1>1. Differs \subseteq touched BY OnlyUserEditsIs
<1>2. \A s \in SecretKeys : typed[s] # "" => s \in Differs BY DEF Differs
<1> QED BY <1>1, <1>2 DEF Stored

LEMMA FreshStep ==
    OnlyUserEdits /\ SnapshotFresh /\ [EditorNext]_editorVars => SnapshotFresh'
<1> SUFFICES ASSUME OnlyUserEdits, SnapshotFresh, [EditorNext]_editorVars
             PROVE  SnapshotFresh'
  OBVIOUS
<1>1. ASSUME UNCHANGED <<open, data, initial>>, touched \subseteq touched'
      PROVE  SnapshotFresh'
  BY <1>1 DEF SnapshotFresh
<1>2. CASE OpenEditor BY <1>2 DEF OpenEditor, SnapshotFresh
<1>3. ASSUME NEW e \in TextSamples, EditText(e[1], e[2]) PROVE SnapshotFresh'
  BY <1>1, <1>3 DEF EditText, Changed
<1>4. ASSUME NEW e \in SpinSamples, EditSpin(e[1], e[2]) PROVE SnapshotFresh'
  BY <1>1, <1>4 DEF EditSpin, Changed
<1>5. ASSUME NEW k \in SwitchSamples, EditSwitch(k) PROVE SnapshotFresh'
  BY <1>1, <1>5 DEF EditSwitch, Changed
<1>6. ASSUME NEW e \in SecretSamples, TypeSecret(e[1], e[2]) PROVE SnapshotFresh'
  BY <1>1, <1>6 DEF TypeSecret, Changed
<1>7. ASSUME NEW k \in PickerSamples, OpenPicker(k) PROVE SnapshotFresh'
  BY <1>1, <1>7 DEF OpenPicker
<1>8. ASSUME NEW p \in Paths, PickerReturn(p) PROVE SnapshotFresh'
  BY <1>1, <1>8 DEF PickerReturn, Changed
<1>9. CASE PickerCancel BY <1>1, <1>9 DEF PickerCancel
<1>10. CASE Apply
  <2>1. /\ open /\ data' = Saved
        /\ initial' = initial /\ touched' = touched
    BY <1>10 DEF Apply
  <2>2. Stored \subseteq SecretKeys \cap touched BY <2>1, StoredTouched
  <2>3. ASSUME NEW k \in (DOMAIN data' \cap DOMAIN initial') \ WIDGET_DATA_KEYS
        PROVE  data'[k] = initial'[k] \/ \E s \in SecretKeys \cap touched' : k = FlagKey(s)
    <3>1. k \in (DOMAIN data \cup DOMAIN initial) \ WIDGET_DATA_KEYS /\ k \in DOMAIN initial
      BY <2>1, <2>3
    <3>2. (\E s \in Stored : k = FlagKey(s)) \/ Saved[k] = initial[k]
      BY <3>1, SavedIs
    <3> QED BY <2>1, <2>2, <3>2
  <2> QED BY <2>3 DEF SnapshotFresh
<1>11. CASE CloseEditor BY <1>11 DEF CloseEditor, SnapshotFresh
<1>12. CASE UNCHANGED editorVars BY <1>1, <1>12 DEF editorVars
<1> QED BY <1>2, <1>3, <1>4, <1>5, <1>6, <1>7, <1>8, <1>9, <1>10, <1>11, <1>12
  DEF EditorNext

-----------------------------------------------------------------------------
(* The gate of Apply and the profile of the service, side by side.         *)
LEMMA AppliedIsComplete ==
    ASSUME EditorTypeOK, validate_required_fields
    PROVE  LET lines == build_profile_string(Saved).lines
               Has1(name) == \E l \in lines : l[1] = name
           IN  /\ build_profile_ok(Saved)
               /\ NeedsUserCert(Saved) =>
                    Has1("pkcs12") \/ (Has1("ca") /\ Has1("cert") /\ Has1("key"))
               /\ IsPasswordLike(Saved) => Has1("auth-user-pass") /\ Has(Saved, "username")
               /\ IsStaticKey(Saved) => Has1("secret")
<1> DEFINE d == Saved
           ct == text["connection-type"]
           lines == build_profile_string(d).lines
           Has1(name) == \E l \in lines : l[1] = name
<1>1. /\ {"connection-type", "remote", "ca", "cert", "key", "username", "static-key"}
           \subseteq TextKeys
  BY DEF TextKeys, ComboKeys, PickerKeys, EntryKeys
<1>2. TextKeys \subseteq WIDGET_DATA_KEYS BY RowKinds
<1>3. \A k \in TextKeys : Applicable(ct, k) => Written(k) = text[k] BY DEF Written
<1>4. \A k \in TextKeys : Applicable(ct, k) /\ text[k] # "" => Has(d, k) /\ d[k] = text[k]
  BY <1>2, <1>3, SavedIs
<1>5. Applicable(ct, "connection-type") /\ Applicable(ct, "remote") BY DEF Applicable
<1>6. Has(d, "connection-type") => d["connection-type"] = ct \/ d["connection-type"] = "1"
  <2>1. CASE ct # "" BY <1>1, <1>4, <1>5, <2>1
  <2>2. CASE ct = ""
    <3>1. Written("connection-type") = "" BY <1>1, <1>3, <1>5, <2>2
    <3> QED BY <1>1, <1>2, <3>1, SavedIs DEF AgentOwned
  <2> QED BY <2>1, <2>2
<1>7. lines = BuildFlags(d) \cup BuildCredentials(d)
              \cup line_str(d, BuildStrings) \cup line_int(d, BuildNumbers)
              \cup BuildCompression(d) \cup BuildMssfix(d)
              \cup BuildDevice(d) \cup BuildTls(d) \cup BuildProxy(d)
              \cup BuildTail
  BY DEF build_profile_string, Profile
<1>8. BuildCredentials(d) \subseteq lines BY <1>7
<1> HIDE DEF d, ct, lines
<1>9. build_profile_ok(d)
  BY <1>1, <1>4, <1>5 DEF build_profile_ok, validate_required_fields
<1>10. ASSUME NeedsUserCert(d)
       PROVE  Has1("pkcs12") \/ (Has1("ca") /\ Has1("cert") /\ Has1("key"))
  <2>1. needs_user_cert(ct) /\ tls_like(ct)
    BY <1>6, <1>10 DEF NeedsUserCert, needs_user_cert, tls_like
  <2>2. \A k \in {"ca", "cert", "key"} : Applicable(ct, k) BY <2>1 DEF Applicable
  <2>3. text["ca"] # "" /\ text["cert"] # "" /\ text["key"] # ""
    BY <2>1 DEF validate_required_fields, ct
  <2>4. Has(d, "ca") /\ Has(d, "cert") /\ Has(d, "key") BY <1>1, <1>4, <2>2, <2>3
  <2>5. IsTlsLike(d) BY <1>10 DEF IsTlsLike, NeedsUserCert
  <2>6. CASE d["cert"] = d["key"] /\ d["cert"] \in Pkcs12
    <3>1. <<"pkcs12", d["cert"]>> \in BuildCredentials(d)
      BY <1>10, <2>4, <2>6 DEF BuildCredentials
    <3>2. <<"pkcs12", d["cert"]>>[1] = "pkcs12" OBVIOUS
    <3> QED BY <1>8, <3>1, <3>2
  <2>7. CASE ~(d["cert"] = d["key"] /\ d["cert"] \in Pkcs12)
    <3>1. \A k \in {"ca", "cert", "key"} : <<k, d[k]>> \in BuildCredentials(d)
      BY <1>10, <2>4, <2>5, <2>7 DEF BuildCredentials
    <3>2. \A k : <<k, d[k]>>[1] = k OBVIOUS
    <3> QED BY <1>8, <3>1, <3>2
  <2> QED BY <2>6, <2>7
<1>11. ASSUME IsPasswordLike(d) PROVE Has1("auth-user-pass") /\ Has(d, "username")
  <2>1. needs_password(ct) BY <1>6, <1>11 DEF IsPasswordLike, needs_password
  <2>2. Applicable(ct, "username") BY <2>1 DEF Applicable
  <2>3. text["username"] # "" BY <2>1 DEF validate_required_fields, ct
  <2>4. <<"auth-user-pass">> \in BuildCredentials(d) BY <1>11 DEF BuildCredentials
  <2>5. <<"auth-user-pass">>[1] = "auth-user-pass" OBVIOUS
  <2> QED BY <1>1, <1>4, <1>8, <2>2, <2>3, <2>4, <2>5
<1>12. ASSUME IsStaticKey(d) PROVE Has1("secret")
  <2>1. is_static_key(ct) BY <1>6, <1>12 DEF IsStaticKey, Is, Has, is_static_key
  <2>2. Applicable(ct, "static-key") BY <2>1 DEF Applicable
  <2>3. text["static-key"] # "" BY <2>1 DEF validate_required_fields, ct
  <2>4. Has(d, "static-key") BY <1>1, <1>4, <2>2, <2>3
  <2> DEFINE l == <<"secret", d["static-key"]>> \o Arg(d, "static-key-direction")
  <2>5. l \in BuildCredentials(d) BY <1>12, <2>4 DEF BuildCredentials
  <2>6. l[1] = "secret"
    <3>1. CASE Has(d, "static-key-direction")
      <4>1. l = <<"secret", d["static-key"], d["static-key-direction"]>>
        BY <3>1, Joined3 DEF Arg
      <4> QED BY <4>1
    <3>2. CASE ~Has(d, "static-key-direction")
      <4>1. l = <<"secret", d["static-key"]>> BY <3>2, JoinedNothing DEF Arg
      <4> QED BY <4>1
    <3> QED BY <3>1, <3>2
  <2> QED BY <1>8, <2>5, <2>6
<1> QED BY <1>9, <1>10, <1>11, <1>12 DEF d, lines

LEMMA CompleteStep ==
    EditorTypeOK /\ SavedProfileComplete /\ [EditorNext]_editorVars
      => SavedProfileComplete'
<1> SUFFICES ASSUME EditorTypeOK, SavedProfileComplete, [EditorNext]_editorVars
             PROVE  SavedProfileComplete'
  OBVIOUS
<1>1. CASE Apply
  <2>1. validate_required_fields /\ data' = Saved BY <1>1 DEF Apply
  <2> QED BY <2>1, AppliedIsComplete DEF SavedProfileComplete
<1>2. CASE UNCHANGED <<data, writer>> BY <1>2 DEF SavedProfileComplete
<1>3. Apply \/ UNCHANGED <<data, writer>>
  BY DEF EditorNext, editorVars, OpenEditor, EditText, EditSpin, EditSwitch, TypeSecret,
         OpenPicker, PickerReturn, PickerCancel, CloseEditor
<1> QED BY <1>1, <1>2, <1>3

-----------------------------------------------------------------------------
(* The inductive invariant holds in every state of an editor, from any     *)
(* connection it may be opened on: iface_update_connection, the signal     *)
(* handlers of the rows and the file choosers all preserve it.             *)
THEOREM EditorInvariance == EditorSpec => []EInv
<1>1. EInv /\ [EditorNext]_editorVars => EInv'
  BY TypeStep, RowStep, EditsStep, FreshStep, CompleteStep DEF EInv
<1> QED BY <1>1, EInvInit, PTL DEF EditorSpec, EStart

(* Every row always holds a value of its kind, within its bounds: what     *)
(* new_editor loads is clamped to the row, however large or small the      *)
(* stored number is.                                                       *)
THEOREM EditorTypeCorrect == EditorSpec => []EditorTypeOK
BY EditorInvariance, PTL DEF EInv

(* A row that no longer shows the stored value was changed by the user in  *)
(* this editor and announced (emit_changed); a chooser that outlived its   *)
(* editor changes nothing.                                                 *)
THEOREM RowsAreTheUsers == EditorSpec => []OnlyUserEdits
BY EditorInvariance, PTL DEF EInv

(* What the gate of Apply lets through, build_profile_string turns into a  *)
(* profile that has every credential of its connection type.               *)
THEOREM AppliedConnects == EditorSpec => []SavedProfileComplete
BY EditorInvariance, PTL DEF EInv

(* Whatever the editor writes, the exporter and the service's builder      *)
(* describe the same tunnel wherever they are comparable.                  *)
THEOREM EditorEmittersAgree == EditorSpec => []EmittersAgree
<1>1. EmittersAgree BY EmittersAlwaysAgree DEF EmittersAgree
<1> QED BY <1>1, PTL

LEMMA CarefulStep ==
    EInv /\ [EditorNext]_editorVars => [open /\ open' => ForeignKept]_editorVars
<1> SUFFICES ASSUME EInv, [EditorNext]_editorVars, open, editorVars' # editorVars
             PROVE  ForeignKept
  BY DEF editorVars
<1>1. CASE Apply
  <2>1. /\ data' = Saved
        /\ secrets' = [s \in DOMAIN secrets \cup Stored |->
                         IF s \in Stored THEN typed[s] ELSE secrets[s]]
    BY <1>1 DEF Apply
  <2>2. Stored \subseteq SecretKeys \cap touched BY StoredTouched DEF EInv
  <2>3. ASSUME NEW k \in DOMAIN data \ WIDGET_DATA_KEYS
        PROVE  /\ k \in DOMAIN data'
               /\ data'[k] = data[k] \/ \E s \in SecretKeys \cap touched : k = FlagKey(s)
    <3>1. /\ k \in DOMAIN Saved
          /\ \/ \E s \in Stored : k = FlagKey(s)
             \/ Saved[k] = IF k \in DOMAIN initial THEN initial[k] ELSE data[k]
      BY SavedIs DEF Has
    <3>2. k \in DOMAIN initial =>
            data[k] = initial[k] \/ \E s \in SecretKeys \cap touched : k = FlagKey(s)
      BY DEF EInv, SnapshotFresh
    <3> QED BY <2>1, <2>2, <3>1, <3>2
  <2>4. \A s \in DOMAIN secrets :
          s \in DOMAIN secrets' /\ (secrets'[s] = secrets[s] \/ typed[s] # "")
    BY <2>1 DEF Stored
  <2> QED BY <2>3, <2>4 DEF ForeignKept
<1>2. CASE UNCHANGED <<data, secrets>> BY <1>2 DEF ForeignKept
<1>3. Apply \/ UNCHANGED <<data, secrets>>
  BY DEF EditorNext, editorVars, OpenEditor, EditText, EditSpin, EditSwitch, TypeSecret,
         OpenPicker, PickerReturn, PickerCancel, CloseEditor
<1> QED BY <1>1, <1>2, <1>3

(* However often Apply is repeated in one editor, it keeps the items of    *)
(* vpn.data it does not show, but for the flags of a secret the user       *)
(* typed, and the stored secrets whose rows were left blank.               *)
THEOREM ApplyIsCareful == EditorSpec => ApplyKeepsForeign
BY CarefulStep, EditorInvariance, PTL DEF EditorSpec, ApplyKeepsForeign
=============================================================================
