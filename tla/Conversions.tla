------------------------------ MODULE Conversions ------------------------------
(***************************************************************************)
(* The pure parts of message conversion: SOME/IP request ids and the       *)
(* mapping between uProtocol status codes and SOME/IP return codes.        *)
(***************************************************************************)
EXTENDS Integers

CONSTANT HalfWord    \* number of values of a u16 (65536 in the code)

ASSUME HalfWordAssumption == HalfWord \in Nat /\ HalfWord > 1

U16 == 0 .. (HalfWord - 1)

\* The client id in the upper, the session id in the lower half.
create_request_id(client_id, session_id) == client_id * HalfWord + session_id

\* Mutants: the halves swapped; the lower half not truncated.
split_u32_to_u16_swapped(value) == <<value % HalfWord, value \div HalfWord>>
split_u32_to_u16_untruncated(value) == <<value \div HalfWord, value>>

split_u32_to_u16(value) == <<value \div HalfWord, value % HalfWord>>

NoStatus == "NoStatus"    \* a response without a commstatus

UCodes == {"OK", "CANCELLED", "UNKNOWN", "INVALID_ARGUMENT", "DEADLINE_EXCEEDED",
           "NOT_FOUND", "ALREADY_EXISTS", "PERMISSION_DENIED", "UNAUTHENTICATED",
           "RESOURCE_EXHAUSTED", "FAILED_PRECONDITION", "ABORTED", "OUT_OF_RANGE",
           "UNIMPLEMENTED", "INTERNAL", "UNAVAILABLE", "DATA_LOSS"}

ErrCodeOf == [OK |-> "E_OK",
              INVALID_ARGUMENT |-> "E_WRONG_MESSAGE_TYPE",
              DEADLINE_EXCEEDED |-> "E_TIMEOUT",
              NOT_FOUND |-> "E_UNKNOWN_SERVICE",
              UNAVAILABLE |-> "E_UNKNOWN_SERVICE",
              DATA_LOSS |-> "E_MALFORMED_MESSAGE",
              INTERNAL |-> "E_NOT_REACHABLE",
              UNKNOWN |-> "E_NOT_OK",
              FAILED_PRECONDITION |-> "E_WRONG_PROTOCOL_VERSION"]

ucode_to_vsomeip_err_code(ucode) ==
    IF ucode \in DOMAIN ErrCodeOf THEN ErrCodeOf[ucode] ELSE "E_NOT_OK"

UCodeOf == [E_OK |-> "OK",
            E_WRONG_MESSAGE_TYPE |-> "INVALID_ARGUMENT",
            E_UNKNOWN_METHOD |-> "INVALID_ARGUMENT",
            E_TIMEOUT |-> "DEADLINE_EXCEEDED",
            E_UNKNOWN_SERVICE |-> "NOT_FOUND",
            E_NOT_READY |-> "UNAVAILABLE",
            E_MALFORMED_MESSAGE |-> "DATA_LOSS",
            E_NOT_REACHABLE |-> "INTERNAL",
            E_NOT_OK |-> "UNKNOWN",
            E_WRONG_PROTOCOL_VERSION |-> "FAILED_PRECONDITION",
            E_WRONG_INTERFACE_VERSION |-> "FAILED_PRECONDITION"]

vsomeip_err_code_to_ucode(code) ==
    IF code \in DOMAIN UCodeOf THEN UCodeOf[code] ELSE "UNKNOWN"

\* Mutant: every response is an MT_RESPONSE.
ResponseWireNeverError(status) ==
    [type |-> "MT_RESPONSE",
     code |-> ucode_to_vsomeip_err_code(IF status = NoStatus THEN "OK" ELSE status)]

\* The message type and return code a response is sent with.
ResponseWire(status) ==
    IF status \in {NoStatus, "OK"}
    THEN [type |-> "MT_RESPONSE", code |-> ucode_to_vsomeip_err_code("OK")]
    ELSE [type |-> "MT_ERROR", code |-> ucode_to_vsomeip_err_code(status)]

\* The commstatus a received response is given: the return code counts only in
\* an MT_ERROR.
ResponseStatus(wire) ==
    IF wire.type = "MT_RESPONSE" THEN "OK" ELSE vsomeip_err_code_to_ucode(wire.code)

=============================================================================
