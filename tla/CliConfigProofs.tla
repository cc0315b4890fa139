--------------------------- MODULE CliConfigProofs ---------------------------
(***************************************************************************)
(* Theorems of CliConfig for any environment, any files, any keys and any  *)
(* number of overlapping wizards.                                          *)
(***************************************************************************)
EXTENDS CliConfig, TLAPS

-----------------------------------------------------------------------------
(* Settings and files.                                                     *)

LEMMA OverDomain ==
  ASSUME NEW f, NEW g
  PROVE  DOMAIN Over(f, g) = DOMAIN f \cup DOMAIN g
  BY DEF Over

LEMMA OverFirst ==
  ASSUME NEW f, NEW g, NEW v \in DOMAIN f
  PROVE  v \in DOMAIN Over(f, g) /\ Over(f, g)[v] = f[v]
  BY DEF Over

LEMMA OverSecond ==
  ASSUME NEW f, NEW g, NEW v \in DOMAIN g, v \notin DOMAIN f
  PROVE  v \in DOMAIN Over(f, g) /\ Over(f, g)[v] = g[v]
  BY DEF Over

LEMMA NoneLaw == DOMAIN None = {} /\ IsSettings(None)
  BY DEF None, IsSettings

LEMMA FileLaw ==
  /\ \A f : File(f).parses = TRUE /\ File(f).settings = f
  /\ Unreadable.parses = FALSE /\ Unreadable.settings = None
  BY DEF File, Unreadable

LEMMA ParsedLaw == (\A f : Parsed(File(f)) = f) /\ Parsed(Unreadable) = None
  BY DEF File, Unreadable, Parsed

LEMMA ParsedSettings ==
  ASSUME NEW file, IsSettings(file.settings)
  PROVE  IsSettings(Parsed(file))
  BY NoneLaw DEF Parsed

LEMMA ChosenLaw ==
  ASSUME NEW p \in Provider, NEW k
  PROVE  /\ IsSettings(Chosen(p, k))
         /\ {"LLM_PROVIDER", "LLM_MODEL"} \subseteq DOMAIN Chosen(p, k)
<1>1. EnvKey[p] \in Vars
  BY DEF Vars, KeyVars
<1>2. DOMAIN Chosen(p, k) = {"LLM_PROVIDER", "LLM_MODEL", EnvKey[p]}
  BY DEF Chosen
<1> QED
  BY <1>1, <1>2 DEF IsSettings, Vars

-----------------------------------------------------------------------------
(* The invariant.                                                          *)

\* The fields of a wizard.
IsWizard(x) ==
  /\ x = [pc |-> x.pc, alone |-> x.alone, map |-> x.map]
  /\ x.pc \in {"form", "open", "truncated", "over"}
  /\ x.alone \in BOOLEAN
  /\ IsSettings(x.map)
  /\ x.pc # "form" => {"LLM_PROVIDER", "LLM_MODEL"} \subseteq DOMAIN x.map

LEMMA MakeWizard ==
  ASSUME NEW pc \in {"form", "open", "truncated", "over"}, NEW alone \in BOOLEAN, NEW map,
         IsSettings(map), pc # "form" => {"LLM_PROVIDER", "LLM_MODEL"} \subseteq DOMAIN map
  PROVE  LET x == [pc |-> pc, alone |-> alone, map |-> map] IN
         IsWizard(x) /\ x.pc = pc /\ x.alone = alone /\ x.map = map
<1> DEFINE x == [pc |-> pc, alone |-> alone, map |-> map]
<1>1. x.pc = pc /\ x.alone = alone /\ x.map = map
  OBVIOUS
<1> HIDE DEF x
<1>2. x = [pc |-> x.pc, alone |-> x.alone, map |-> x.map]
  BY <1>1 DEF x
<1>3. IsWizard(x)
  BY <1>1, <1>2 DEF IsWizard
<1> QED
  BY <1>1, <1>3 DEF x

WizardInv == wizard = [w \in Wizard |-> wizard[w]] /\ \A w \in Wizard : IsWizard(wizard[w])

TypeInv ==
  /\ IsSettings(env) /\ IsSettings(local) /\ IsSettings(promised)
  /\ IsSettings(global.settings)
  /\ WizardInv

\* All promises are in these settings.
Keeps(f) == \A v \in DOMAIN promised : v \in DOMAIN f /\ f[v] = promised[v]

\* A wizard that nobody overlaps has read every promise, and writes into the file that it
\* has emptied itself.
AloneInv ==
  \A w \in Wizard :
    Active(w) /\ wizard[w].alone =>
      /\ \A y \in Wizard \ {w} : ~Active(y)
      /\ DOMAIN promised \subseteq DOMAIN wizard[w].map
      /\ wizard[w].pc = "truncated" => global = File(None)

KeptInv == Quiet => Keeps(Parsed(global))

Inv == TypeInv /\ AloneInv /\ KeptInv

LEMMA InitInv == Init => Inv
<1> SUFFICES ASSUME Init PROVE Inv
  OBVIOUS
<1>1. \A w \in Wizard : wizard[w] = [pc |-> "form", alone |-> TRUE, map |-> None]
  BY DEF Init
<1>2. WizardInv
  <2>1. wizard = [w \in Wizard |-> wizard[w]]
    BY DEF Init
  <2>2. ASSUME NEW w \in Wizard PROVE IsWizard(wizard[w])
    <3> DEFINE x == [pc |-> "form", alone |-> TRUE, map |-> None]
    <3>1. x.pc = "form" /\ x.alone = TRUE /\ x.map = None
      OBVIOUS
    <3>2. x = [pc |-> x.pc, alone |-> x.alone, map |-> x.map]
      OBVIOUS
    <3>3. wizard[w] = x
      BY <1>1
    <3> HIDE DEF x
    <3>4. x.alone \in BOOLEAN
      BY <3>1
    <3> QED
      BY <3>1, <3>2, <3>3, <3>4, NoneLaw DEF IsWizard
  <2> QED
    BY <2>1, <2>2 DEF WizardInv
<1>3. IsSettings(global.settings)
  BY SettingsAssumption, FileLaw, NoneLaw DEF Init
<1>4. TypeInv
  BY <1>2, <1>3, ParsedSettings, SettingsAssumption DEF Init, TypeInv
<1>5. AloneInv
  BY <1>1 DEF AloneInv, Active
<1>6. KeptInv
  BY DEF Init, KeptInv, Keeps
<1> QED
  BY <1>4, <1>5, <1>6 DEF Inv

-----------------------------------------------------------------------------
(* The steps.                                                              *)

\* Going on to another step leaves a wizard's map, and the other wizards, alone.
LEMMA StepWizard ==
  ASSUME WizardInv, NEW w \in Wizard, wizard[w].pc # "form", NEW pc \in {"truncated", "over"},
         wizard' = [wizard EXCEPT ![w].pc = pc]
  PROVE  /\ WizardInv'
         /\ wizard'[w].pc = pc /\ wizard'[w].map = wizard[w].map /\ wizard'[w].alone = wizard[w].alone
         /\ \A y \in Wizard \ {w} : wizard'[y] = wizard[y]
<1> DEFINE x == [wizard[w] EXCEPT !.pc = pc]
<1>1. /\ wizard[w] = [pc |-> wizard[w].pc, alone |-> wizard[w].alone, map |-> wizard[w].map]
      /\ IsWizard(wizard[w])
  BY DEF WizardInv, IsWizard
<1>2. x = [pc |-> pc, alone |-> wizard[w].alone, map |-> wizard[w].map]
  BY <1>1
<1>3. IsWizard(x) /\ x.pc = pc /\ x.map = wizard[w].map /\ x.alone = wizard[w].alone
  BY <1>1, <1>2 DEF IsWizard
<1>4. wizard' = [y \in Wizard |-> IF y = w THEN x ELSE wizard[y]]
  BY DEF WizardInv
<1>5. wizard'[w] = x /\ \A y \in Wizard \ {w} : wizard'[y] = wizard[y]
  BY <1>4
<1>6. WizardInv'
  <2>1. wizard' = [y \in Wizard |-> wizard'[y]]
    BY <1>4
  <2> QED
    BY <1>3, <1>5, <2>1 DEF WizardInv
<1> QED
  BY <1>3, <1>5, <1>6

\* What reading the file gives a wizard.
LEMMA ReadWizard ==
  ASSUME TypeInv, NEW w \in Wizard, Read(w)
  PROVE  \E p \in Offered, k \in Key :
           /\ wizard'[w].pc = "open" /\ wizard'[w].map = Updated(p, k)
           /\ wizard'[w].alone = (\A y \in Wizard \ {w} : ~Active(y))
           /\ \A y \in Wizard \ {w} : /\ wizard'[y].pc = wizard[y].pc
                                      /\ wizard'[y].map = wizard[y].map
                                      /\ wizard'[y].alone = (wizard[y].alone /\ ~Active(y))
           /\ WizardInv'
<1>1. PICK p \in Offered, k \in Key :
       wizard' = [x \in Wizard |->
                    IF x = w
                      THEN [pc |-> "open", map |-> Updated(p, k),
                            alone |-> \A y \in Wizard \ {w} : ~Active(y)]
                      ELSE [wizard[x] EXCEPT !.alone = @ /\ ~Active(x)]]
  BY DEF Read
<1>2. wizard'[w] = [pc |-> "open", map |-> Updated(p, k), alone |-> \A y \in Wizard \ {w} : ~Active(y)]
  BY <1>1
<1>3. IsSettings(Updated(p, k)) /\ {"LLM_PROVIDER", "LLM_MODEL"} \subseteq DOMAIN Updated(p, k)
  <2>1. IsSettings(Parsed(global))
    BY ParsedSettings DEF TypeInv
  <2>2. IsSettings(Chosen(p, k)) /\ {"LLM_PROVIDER", "LLM_MODEL"} \subseteq DOMAIN Chosen(p, k)
    BY OfferedAssumption, ChosenLaw
  <2>3. DOMAIN Updated(p, k) = DOMAIN Chosen(p, k) \cup DOMAIN Parsed(global)
    BY OverDomain DEF Updated
  <2> QED
    BY <2>1, <2>2, <2>3 DEF IsSettings
<1>4. /\ IsWizard(wizard'[w]) /\ wizard'[w].pc = "open" /\ wizard'[w].map = Updated(p, k)
      /\ wizard'[w].alone = (\A y \in Wizard \ {w} : ~Active(y))
  <2> DEFINE alone == \A y \in Wizard \ {w} : ~Active(y)
  <2>1. alone \in BOOLEAN
    OBVIOUS
  <2> HIDE DEF alone
  <2>2. wizard'[w] = [pc |-> "open", alone |-> alone, map |-> Updated(p, k)]
    BY <1>2 DEF alone
  <2>3. /\ IsWizard(wizard'[w]) /\ wizard'[w].pc = "open" /\ wizard'[w].map = Updated(p, k)
        /\ wizard'[w].alone = alone
    BY <1>3, <2>1, <2>2, MakeWizard
  <2> QED
    BY <2>3 DEF alone
<1>5. ASSUME NEW y \in Wizard \ {w}
      PROVE  wizard'[y] = [pc |-> wizard[y].pc, alone |-> wizard[y].alone /\ ~Active(y), map |-> wizard[y].map]
  <2>1. wizard[y] = [pc |-> wizard[y].pc, alone |-> wizard[y].alone, map |-> wizard[y].map]
    BY DEF TypeInv, WizardInv, IsWizard
  <2>2. wizard'[y] = [wizard[y] EXCEPT !.alone = wizard[y].alone /\ ~Active(y)]
    BY <1>1
  <2> QED
    BY <2>1, <2>2
<1>6. ASSUME NEW y \in Wizard \ {w}
      PROVE  /\ IsWizard(wizard'[y]) /\ wizard'[y].pc = wizard[y].pc /\ wizard'[y].map = wizard[y].map
             /\ wizard'[y].alone = (wizard[y].alone /\ ~Active(y))
  <2> DEFINE alone == wizard[y].alone /\ ~Active(y)
  <2>1. /\ wizard[y].pc \in {"form", "open", "truncated", "over"} /\ IsSettings(wizard[y].map)
        /\ wizard[y].pc # "form" => {"LLM_PROVIDER", "LLM_MODEL"} \subseteq DOMAIN wizard[y].map
    BY DEF TypeInv, WizardInv, IsWizard
  <2>2. alone \in BOOLEAN
    OBVIOUS
  <2>3. wizard'[y] = [pc |-> wizard[y].pc, alone |-> alone, map |-> wizard[y].map]
    BY <1>5
  <2> HIDE DEF alone
  <2>4. /\ IsWizard(wizard'[y]) /\ wizard'[y].pc = wizard[y].pc /\ wizard'[y].map = wizard[y].map
        /\ wizard'[y].alone = alone
    BY <2>1, <2>2, <2>3, MakeWizard
  <2> QED
    BY <2>4 DEF alone
<1>7. wizard' = [y \in Wizard |-> wizard'[y]]
  BY <1>1
<1>8. WizardInv'
  BY <1>4, <1>6, <1>7 DEF WizardInv
<1> QED
  BY <1>4, <1>6, <1>8
LEMMA ReadStep ==
  ASSUME Inv, NEW w \in Wizard, Read(w)
  PROVE  Inv'
<1>1. PICK p \in Offered, k \in Key :
           /\ wizard'[w].pc = "open" /\ wizard'[w].map = Updated(p, k)
           /\ wizard'[w].alone = (\A y \in Wizard \ {w} : ~Active(y))
           /\ \A y \in Wizard \ {w} : /\ wizard'[y].pc = wizard[y].pc
                                      /\ wizard'[y].map = wizard[y].map
                                      /\ wizard'[y].alone = (wizard[y].alone /\ ~Active(y))
           /\ WizardInv'
  BY ReadWizard DEF Inv
<1>2. wizard[w].pc = "form" /\ UNCHANGED <<env, local, global, promised>>
  BY DEF Read
<1>3. TypeInv'
  BY <1>1, <1>2 DEF Inv, TypeInv
<1>4. Quiet' <=> Quiet
  BY <1>1, <1>2 DEF Quiet
<1>5. KeptInv'
  BY <1>2, <1>4 DEF Inv, KeptInv, Keeps
<1>6. AloneInv'
  <2> SUFFICES ASSUME NEW x \in Wizard, Active(x)', wizard'[x].alone
               PROVE  /\ \A y \in Wizard \ {x} : ~Active(y)'
                      /\ DOMAIN promised \subseteq DOMAIN wizard'[x].map
                      /\ wizard'[x].pc = "truncated" => global = File(None)
    BY <1>2 DEF AloneInv
  <2>1. x = w
    BY <1>1 DEF Active
  <2>2. \A y \in Wizard \ {w} : ~Active(y)
    BY <1>1, <2>1
  <2>3. \A y \in Wizard \ {w} : ~Active(y)'
    BY <1>1, <2>2 DEF Active
  <2>4. Keeps(Parsed(global))
    BY <1>2, <2>2 DEF Inv, KeptInv, Quiet, Active
  <2>5. DOMAIN promised \subseteq DOMAIN Updated(p, k)
    <3>1. DOMAIN Updated(p, k) = DOMAIN Chosen(p, k) \cup DOMAIN Parsed(global)
      BY OverDomain DEF Updated
    <3> QED
      BY <2>4, <3>1 DEF Keeps
  <2> QED
    BY <1>1, <2>1, <2>3, <2>5
<1> QED
  BY <1>3, <1>5, <1>6 DEF Inv

LEMMA TruncateStep ==
  ASSUME Inv, NEW w \in Wizard, Truncate(w)
  PROVE  Inv'
<1>1. /\ wizard[w].pc = "open" /\ global' = File(None) /\ UNCHANGED <<env, local, promised>>
      /\ wizard' = [wizard EXCEPT ![w].pc = "truncated"]
  BY DEF Truncate
<1>2. /\ WizardInv'
      /\ wizard'[w].pc = "truncated" /\ wizard'[w].map = wizard[w].map /\ wizard'[w].alone = wizard[w].alone
      /\ \A y \in Wizard \ {w} : wizard'[y] = wizard[y]
  BY <1>1, StepWizard DEF Inv, TypeInv
<1>3. TypeInv'
  BY <1>1, <1>2, FileLaw, NoneLaw DEF Inv, TypeInv
<1>4. KeptInv'
  BY <1>2 DEF KeptInv, Quiet
<1>5. AloneInv'
  BY <1>1, <1>2 DEF Inv, AloneInv, Active
<1> QED
  BY <1>3, <1>4, <1>5 DEF Inv

LEMMA WriteMapStep ==
  ASSUME Inv, NEW w \in Wizard, WriteMap(w)
  PROVE  Inv'
<1> DEFINE map == wizard[w].map
<1>1. /\ wizard[w].pc = "truncated" /\ UNCHANGED <<env, local>>
      /\ wizard' = [wizard EXCEPT ![w].pc = "over"]
      /\ promised' = IF wizard[w].alone THEN Over(map, promised) ELSE None
  BY DEF WriteMap
<1>2. /\ WizardInv'
      /\ wizard'[w].pc = "over"
      /\ \A y \in Wizard \ {w} : wizard'[y] = wizard[y]
  BY <1>1, StepWizard DEF Inv, TypeInv
<1>3. IsSettings(map) /\ IsSettings(Parsed(global))
  BY ParsedSettings DEF Inv, TypeInv, WizardInv, IsWizard
<1>4. IsSettings(global'.settings)
  <2>1. CASE global' = File(map)
    BY <1>3, <2>1, FileLaw
  <2>2. CASE global' = Unreadable
    BY <2>2, FileLaw, NoneLaw
  <2>3. CASE \E T \in SUBSET DOMAIN Parsed(global) :
               global' = File([v \in DOMAIN map \cup T |->
                                 IF v \in T THEN Parsed(global)[v] ELSE map[v]])
    <3>1. PICK T \in SUBSET DOMAIN Parsed(global) :
               global' = File([v \in DOMAIN map \cup T |->
                                 IF v \in T THEN Parsed(global)[v] ELSE map[v]])
      BY <2>3
    <3> DEFINE mixed == [v \in DOMAIN map \cup T |-> IF v \in T THEN Parsed(global)[v] ELSE map[v]]
    <3>2. DOMAIN mixed = DOMAIN map \cup T
      OBVIOUS
    <3>3. IsSettings(mixed)
      BY <1>3, <3>2 DEF IsSettings
    <3>4. global'.settings = mixed
      BY <3>1, FileLaw
    <3> QED
      BY <3>3, <3>4
  <2> QED
    BY <2>1, <2>2, <2>3 DEF WriteMap
<1>5. CASE wizard[w].alone
  <2>1. /\ \A y \in Wizard \ {w} : ~Active(y)
        /\ DOMAIN promised \subseteq DOMAIN map
        /\ global = File(None)
    BY <1>1, <1>5 DEF Inv, AloneInv, Active
  <2>2. global' = File(map) /\ promised' = Over(map, promised)
    BY <1>1, <1>5, <2>1 DEF WriteMap
  <2>3. DOMAIN promised' = DOMAIN map /\ \A v \in DOMAIN map : promised'[v] = map[v]
    <3>1. DOMAIN Over(map, promised) = DOMAIN map \cup DOMAIN promised
      BY OverDomain
    <3>2. \A v \in DOMAIN map : Over(map, promised)[v] = map[v]
      BY OverFirst
    <3> QED
      BY <2>1, <2>2, <3>1, <3>2
  <2>4. KeptInv'
    <3>1. Parsed(global)' = map
      BY <2>2, ParsedLaw DEF Parsed
    <3> QED
      BY <2>3, <3>1 DEF KeptInv, Keeps
  <2>5. AloneInv'
    BY <1>2, <2>1 DEF AloneInv, Active
  <2>6. TypeInv'
    BY <1>1, <1>2, <1>3, <1>4, <2>3 DEF Inv, TypeInv, IsSettings
  <2> QED
    BY <2>4, <2>5, <2>6 DEF Inv
<1>6. CASE ~wizard[w].alone
  <2>1. DOMAIN promised' = {} /\ IsSettings(promised')
    BY <1>1, <1>6, NoneLaw
  <2>2. KeptInv'
    BY <2>1 DEF KeptInv, Keeps
  <2>3. AloneInv'
    <3>1. \A y \in Wizard \ {w} : Active(y) => ~wizard[y].alone
      BY <1>1 DEF Inv, AloneInv, Active
    <3> QED
      BY <1>2, <3>1 DEF AloneInv, Active
  <2>4. TypeInv'
    BY <1>1, <1>2, <1>4, <2>1 DEF Inv, TypeInv
  <2> QED
    BY <2>2, <2>3, <2>4 DEF Inv
<1> QED
  BY <1>5, <1>6

LEMMA DieStep ==
  ASSUME Inv, NEW w \in Wizard, Die(w)
  PROVE  Inv'
<1>1. /\ Active(w) /\ UNCHANGED <<env, local, global>>
      /\ wizard' = [wizard EXCEPT ![w].pc = "over"]
      /\ promised' = IF wizard[w].pc = "truncated" THEN None ELSE promised
  BY DEF Die
<1>2. /\ WizardInv'
      /\ wizard'[w].pc = "over"
      /\ \A y \in Wizard \ {w} : wizard'[y] = wizard[y]
  BY <1>1, StepWizard DEF Inv, TypeInv, Active
<1>3. TypeInv'
  BY <1>1, <1>2, NoneLaw DEF Inv, TypeInv
<1>4. AloneInv'
  <2>1. \A y \in Wizard \ {w} : Active(y) => ~wizard[y].alone
    BY <1>1 DEF Inv, AloneInv
  <2> QED
    BY <1>2, <2>1 DEF AloneInv, Active
<1>5. KeptInv'
  <2>1. CASE wizard[w].pc = "truncated"
    BY <1>1, <2>1, NoneLaw DEF KeptInv, Keeps
  <2>2. CASE wizard[w].pc # "truncated"
    <3>1. Quiet' => Quiet
      BY <1>2, <2>2 DEF Quiet
    <3> QED
      BY <1>1, <2>2, <3>1 DEF Inv, KeptInv, Keeps
  <2> QED
    BY <2>1, <2>2
<1> QED
  BY <1>3, <1>4, <1>5 DEF Inv

LEMMA StutterStep == Inv /\ UNCHANGED vars => Inv'
  BY DEF Inv, TypeInv, WizardInv, IsWizard, AloneInv, KeptInv, Keeps, Quiet, Active, vars

LEMMA NextInv == Inv /\ [Next]_vars => Inv'
  BY ReadStep, TruncateStep, WriteMapStep, DieStep, StutterStep DEF Next

-----------------------------------------------------------------------------
(* The theorems.                                                           *)

\* The invariant: while nobody is between emptying the file and writing it, the file has
\* every promise, and a wizard that nobody overlaps has them all in the map it writes.
THEOREM InvHolds == Spec => []Inv
  BY InitInv, NextInv, PTL DEF Spec

\* Whatever overlaps, only known variables get into the file, and each wizard writes the
\* provider with a model.
THEOREM TypeCorrect == Spec => []TypeOK
<1>1. Inv => TypeOK
  BY DEF Inv, TypeInv, WizardInv, IsWizard, TypeOK
<1> QED
  BY <1>1, InvHolds, PTL

\* The settings that the file had, or that a wizard was left alone to write, are those that
\* commands work with, for every environment, local file and sequence of wizards.
THEOREM ConfiguredSettingsAreUsed == Spec => []ConfiguredIsUsed
<1>1. Inv => ConfiguredIsUsed
  <2> SUFFICES ASSUME Inv, Quiet, NEW v \in DOMAIN promised \ DOMAIN env,
                      promised[v] \notin {Blank, Malformed}
               PROVE  Setting(v) = promised[v]
    BY DEF ConfiguredIsUsed
  <2>1. v \in DOMAIN Parsed(global) /\ Parsed(global)[v] = promised[v]
    BY DEF Inv, KeptInv, Keeps
  <2>2. /\ v \in DOMAIN Over(Parsed(global), local)
        /\ Over(Parsed(global), local)[v] = promised[v]
    <3>1. /\ v \in DOMAIN Over(Parsed(global), local)
          /\ Over(Parsed(global), local)[v] = Parsed(global)[v]
      BY <2>1, OverFirst
    <3> QED
      BY <2>1, <3>1
  <2>3. v \in DOMAIN Environment /\ Environment[v] = promised[v]
    <3> DEFINE files == Over(Parsed(global), local)
    <3>1. v \in DOMAIN files /\ files[v] = promised[v] /\ v \notin DOMAIN env
      BY <2>2
    <3> HIDE DEF files
    <3>2. v \in DOMAIN Over(env, files) /\ Over(env, files)[v] = files[v]
      BY <3>1, OverSecond
    <3> QED
      BY <3>1, <3>2 DEF Environment, files
  <2> QED
    BY <2>3 DEF Setting
<1> QED
  BY <1>1, InvHolds, PTL
=============================================================================
