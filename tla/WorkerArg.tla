----------------------------- MODULE WorkerArg -----------------------------
(***************************************************************************)
(* The argument a subscriber worker is started with: the OID of its        *)
(* database and the handle of its DSM segment, two 32-bit numbers packed   *)
(* into one signed 64-bit number (src/utils.rs).  A PostgreSQL worker has  *)
(* one argument only, so this is all a worker knows of itself: were a bit  *)
(* of one half to reach the other, it would serve another database or      *)
(* attach to the queue of another worker.                                  *)
(*                                                                         *)
(* The width is a parameter: halves have twice Half values, 2^31 in the    *)
(* code, so that the highest bit of the high half is the sign.             *)
(***************************************************************************)
EXTENDS Integers

CONSTANT Half   (* Values of a half whose highest bit is not set. *)

ASSUME HalfAssumption == Half \in Nat \ {0}

Base == 2 * Half

U32 == 0 .. Base - 1
U64 == 0 .. Base * Base - 1
I64 == -(Half * Base) .. Half * Base - 1

(* `as i64` and `as u64` reinterpret the bits. *)
AsI64(v) == IF v < Half * Base THEN v ELSE v - Base * Base
MutAsU64(v) == IF v >= 0 THEN v ELSE -v
AsU64(v) == IF v >= 0 THEN v ELSE v + Base * Base

(* pack_oid_dsmh_to_i64: the low bits of the shifted half are 0, so `|`    *)
(* adds the other half.                                                    *)
Pack(oid, dsmh) == AsI64(oid * Base + dsmh)

(* unpack_i64_to_oid_dsmh: a shift of the unsigned number, and a mask.     *)
UnpackOid(value) == AsU64(value) \div Base
UnpackDsmh(value) == AsU64(value) % Base

-----------------------------------------------------------------------------

(* The worker reads the OID and the handle that the launcher has packed,   *)
(* and the packed value is an i64.                                         *)
RoundTrip(oid, dsmh) ==
  /\ Pack(oid, dsmh) \in I64
  /\ UnpackOid(Pack(oid, dsmh)) = oid
  /\ UnpackDsmh(Pack(oid, dsmh)) = dsmh

ArgRoundTrip == \A oid, dsmh \in U32 : RoundTrip(oid, dsmh)
=============================================================================
