------------------------------- MODULE Library -------------------------------
(***************************************************************************)
(* What the virtual machine and the language it runs share: the error      *)
(* codes, and what is asked of the C library.                              *)
(***************************************************************************)
EXTENDS Bytecode

CONSTANTS
    FloatResult,   \* the members of Number a libm function may return
    FormatG(_),    \* sprintf("%g", n): Number -> Text
    Atof(_)        \* atof(s), a number for a Text

(* vm.h, ERR_... *)
ERR_NONE                 == 0
ERR_NEXT_WITHOUT_FOR     == 1
ERR_RETURN_WITHOUT_GOSUB == 3
ERR_OUT_OF_DATA          == 4
ERR_ILLEGAL_FUNCTION     == 5
ERR_OVERFLOW             == 6
ERR_UNDEFINED_LINE       == 8
ERR_SUBSCRIPT_RANGE      == 9
ERR_DIVISION_BY_ZERO     == 11
ERR_TYPE_MISMATCH        == 13
ERR_FOR_NEXT_MISMATCH    == 15
ERR_BAD_FILE_NUMBER      == 52
ERR_FILE_NOT_FOUND       == 53
ERR_DEVICE_IO            == 57

ErrorCode == {ERR_NONE, ERR_NEXT_WITHOUT_FOR, ERR_RETURN_WITHOUT_GOSUB,
              ERR_OUT_OF_DATA, ERR_ILLEGAL_FUNCTION, ERR_OVERFLOW,
              ERR_UNDEFINED_LINE, ERR_SUBSCRIPT_RANGE, ERR_DIVISION_BY_ZERO,
              ERR_TYPE_MISMATCH, ERR_FOR_NEXT_MISMATCH, ERR_BAD_FILE_NUMBER,
              ERR_FILE_NOT_FOUND, ERR_DEVICE_IO}

ASSUME NumberAssumption ==
    /\ Number \subseteq Int
    /\ ErrorCode \subseteq Number        \* ERR pushes the code as a number
    /\ FloatResult \subseteq Number
ASSUME FormatAssumption == \A n \in Number : FormatG(n) \in Text
=============================================================================
