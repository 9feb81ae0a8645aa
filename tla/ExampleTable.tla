----------------------------- MODULE ExampleTable -----------------------------
(***************************************************************************)
(* The app's one cFE table, "ExampleTable".  The buffers and the ground's  *)
(* table commands belong to the cFE table service, which is not in the     *)
(* repository; the service calls back BLINKER_APP_TblValidationFunc, and   *)
(* only the app's own CFE_TBL_Manage call carries out what the ground has  *)
(* requested.                                                              *)
(***************************************************************************)
EXTENDS Naturals

CONSTANTS
  TblElement1Max,  \* BLINKER_APP_TBL_ELEMENT_1_MAX
  Images,          \* the table images files may hold
  NoImage          \* an empty buffer

Image == [Int1 : Nat, Int2 : Nat]

ASSUME TblElement1MaxAssumption == TblElement1Max \in Nat
ASSUME ImagesAssumption == Images \subseteq Image /\ NoImage \notin Image

VARIABLES
  active,   \* the active buffer, what CFE_TBL_GetAddress points to
  working,  \* the inactive buffer, filled by the ground
  stage     \* how far the ground has got with the inactive buffer

tblVars == <<active, working, stage>>

Stages == {"unregistered", "empty", "loaded", "validating", "valid", "invalid", "pending"}

TblTypeOK ==
  /\ active \in Image \cup {NoImage}
  /\ working \in Image \cup {NoImage}
  /\ stage \in Stages

TblInit == active = NoImage /\ working = NoImage /\ stage = "unregistered"

(***************************************************************************)
(* Mutated form of the validation for the mutation runs: the bound         *)
(* itself is off by one.                                                   *)
(***************************************************************************)
TblValidationOffByOne(img) == ~ (img.Int1 > TblElement1Max + 1)

\* BLINKER_APP_TblValidationFunc returns CFE_SUCCESS.
TblValidationFunc(img) == ~ (img.Int1 > TblElement1Max)

(***************************************************************************)
(* Calls of the app.                                                       *)
(***************************************************************************)
TblRegister == stage' = "empty" /\ UNCHANGED <<active, working>>

\* The initial load from BLINKER_APP_TABLE_FILE: validated, then active.
TblLoad(img) ==
  /\ TblValidationFunc(img)
  /\ active' = img
  /\ UNCHANGED <<working, stage>>

\* CFE_TBL_Manage: a pending validation or a pending load is carried out.
TblManage ==
  \/ /\ stage = "validating"
     /\ stage' = IF TblValidationFunc(working) THEN "valid" ELSE "invalid"
     /\ UNCHANGED <<active, working>>
  \/ /\ stage = "pending"
     /\ active' = working
     /\ working' = NoImage
     /\ stage' = "empty"
  \/ /\ stage \notin {"validating", "pending"}
     /\ UNCHANGED tblVars

TblUnregister == active' = NoImage /\ working' = NoImage /\ stage' = "unregistered"

(***************************************************************************)
(* Table commands of the ground, run by the table service's own task.      *)
(***************************************************************************)
TblLoadCmd(img) ==
  /\ stage \in {"empty", "loaded", "valid", "invalid"}
  /\ working' = img
  /\ stage' = "loaded"
  /\ UNCHANGED active

TblValidateCmd ==
  /\ stage \in {"loaded", "valid", "invalid"}
  /\ stage' = "validating"
  /\ UNCHANGED <<active, working>>

\* Mutated: the service does not wait for the app to manage its table.
TblActivateAtOnce ==
  /\ stage = "valid"
  /\ active' = working /\ working' = NoImage /\ stage' = "empty"

TblActivateCmd ==
  /\ stage = "valid"
  /\ stage' = "pending"
  /\ UNCHANGED <<active, working>>
================================================================================
