--------------------------- MODULE Timezone_proofs ---------------------------
(***************************************************************************)
(* The zone of the host and of Gladys, for any set of zones.               *)
(***************************************************************************)
EXTENDS Timezone, TLAPS

LEMMA IInvInit == Init => IInv
  BY ZonesAssumption DEF Init, IInv, TypeOK, HostZones, GladysFollowsHost, LostOnlyUnread

LEMMA IInvStep == IInv /\ [Next]_vars => IInv'
<1> SUFFICES ASSUME IInv, [Next]_vars PROVE IInv'
  OBVIOUS
<1> USE ZonesAssumption DEF IInv, TypeOK, HostZones, GladysFollowsHost, LostOnlyUnread, Goto
<1>1. CASE Run
  BY <1>1 DEF Run
<1>2. CASE ReadHost \/ ReadHostFails
  BY <1>2 DEF ReadHost, ReadHostFails
<1>3. CASE Lookup
  BY <1>3 DEF Lookup
<1>4. CASE ListTimezones \/ ListTimezonesFails
  BY <1>4 DEF ListTimezones, ListTimezonesFails
<1>5. CASE SetTimezone \/ SetTimezoneFails
  BY <1>5 DEF SetTimezone, SetTimezoneFails
<1>6. CASE WriteEnv
  BY <1>6 DEF WriteEnv
<1>7. CASE ComposeUp
  BY <1>7 DEF ComposeUp
<1>8. CASE Cut
  BY <1>8 DEF Cut
<1>9. CASE UNCHANGED vars
  <2>1. TypeOK'
    BY <1>9 DEF vars
  <2>2. GladysFollowsHost' /\ LostOnlyUnread'
    BY <1>9 DEF vars, LostOnlyUnread
  <2>3. QED  BY <1>9, <2>1, <2>2 DEF vars
<1>10. QED  BY <1>1, <1>2, <1>3, <1>4, <1>5, <1>6, <1>7, <1>8, <1>9 DEF Next

LEMMA Invariance == Spec => []IInv
  BY IInvInit, IInvStep, PTL DEF Spec

(* Every variable keeps to its type: whatever the lookup answers, only a zone
   of the list, or UTC, gets to the host, to .env and to Gladys. *)
THEOREM TypeCorrect == Spec => []TypeOK
<1>1. IInv => TypeOK  BY DEF IInv
<1>2. QED  BY Invariance, <1>1, PTL

(* A run that has started Gladys leaves it in the zone of the host or in UTC,
   whatever failed and however many runs were cut before. *)
THEOREM ZonesAgree == Spec => []GladysFollowsHost
<1>1. IInv => GladysFollowsHost  BY DEF IInv
<1>2. QED  BY Invariance, <1>1, PTL

(* The failure of "timedatectl show" is the only way to lose the zone the host
   was installed with. *)
THEOREM ChoiceIsKept == Spec => []LostOnlyUnread
<1>1. IInv => LostOnlyUnread  BY DEF IInv
<1>2. QED  BY Invariance, <1>1, PTL
=============================================================================
