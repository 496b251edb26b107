----------------------------- MODULE SettingsStore -----------------------------
(***************************************************************************)
(* What hooks promise about the settings of their unit: the changes a hook *)
(* makes are its own until it has succeeded; then the changes of each      *)
(* relation are applied in one step to whatever the relation's settings    *)
(* are by then.  The changes of a hook that fails are never applied.       *)
(***************************************************************************)
EXTENDS Naturals

CONSTANTS Relations, Keys, Values, Address, Unset, None

VARIABLES
    settings,   \* the unit's settings in each relation, None before it joined
    edits,      \* the changes the hook has made and that are not yet applied
    outcome     \* of the hook: None while it runs; "success" until all is applied

svars == <<settings, edits, outcome>>

\* What a hook may do to a key: give it a value or delete it (Unset).
Edit == [Keys -> Values \cup {Unset, None}]
NoEdit == [k \in Keys |-> None]
Blank  == [k \in Keys |-> Unset]

\* The settings s, which may not exist yet, with the changes e made to them.
Applied(e, s) ==
    [k \in Keys |-> IF e[k] # None THEN e[k] ELSE IF s = None THEN Unset ELSE s[k]]

\* The unit may have joined relations before its agent was started again.
Init ==
    /\ settings \in [Relations -> {None} \cup {[Blank EXCEPT ![Address] = a] : a \in Values}]
    /\ edits = [r \in Relations |-> NoEdit]
    /\ outcome = "failure"

\* The unit joins a relation, or joins it again with another address.
Joins(r) ==
    /\ \E a \in Values :
          settings' = [settings EXCEPT ![r] = Applied([NoEdit EXCEPT ![Address] = a], @)]
    /\ UNCHANGED <<edits, outcome>>

Edits(r) ==
    /\ \E e \in Edit : edits' = [edits EXCEPT ![r] = e]
    /\ UNCHANGED <<settings, outcome>>

\* What is left of a hook's commands may change more meanwhile.
Commits(r) ==
    /\ outcome = "success" /\ settings[r] # None
    /\ settings' = [settings EXCEPT ![r] = Applied(edits[r], @)]
    /\ \E e \in Edit : edits' = [edits EXCEPT ![r] = e]
    /\ UNCHANGED outcome

NoEdits == [r \in Relations |-> NoEdit]

Begins   == outcome # None /\ outcome' = None /\ edits' = NoEdits /\ UNCHANGED settings
Succeeds == outcome = None /\ outcome' = "success" /\ UNCHANGED <<settings, edits>>
Fails    == /\ outcome \in {None, "success"} /\ outcome' = "failure"
            /\ edits' = NoEdits /\ UNCHANGED settings
Ends     == /\ outcome = "success" /\ outcome' = "done"
            /\ edits' = NoEdits /\ UNCHANGED settings

Next ==
    \/ Begins \/ Succeeds \/ Fails \/ Ends
    \/ \E r \in Relations : Joins(r) \/ Edits(r) \/ Commits(r)

SettingsSpec == Init /\ [][Next]_svars
===============================================================================
