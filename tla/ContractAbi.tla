----------------------------- MODULE ContractAbi -----------------------------
(***************************************************************************)
(* Clarity values and the types of a contract's functions:                   *)
(* packages/core/src/transactions/contract-abi.ts.                           *)
(*                                                                          *)
(* A type is [id, ...], with length, of, ok, error or members as it has them. *)
(* What the user typed is its text, the integer that BigInt makes of it, if   *)
(* any, and the principal that it names, if any.                             *)
(***************************************************************************)
EXTENDS ClarityValues

CONSTANT
    None    \* no integer, no principal

Sized == {"buffer", "string-ascii", "string-utf8"}

\* The spellings of truth values: code points.
TrueText == <<116, 114, 117, 101>>
FalseText == <<102, 97, 108, 115, 101>>
One == <<49>>
Zero == <<48>>

LowerCase(text) ==
    [i \in DOMAIN text |-> IF text[i] \in 65..90 THEN text[i] + 32 ELSE text[i]]

\* What a constructor makes of what it is given, if it does not throw.
Made(cv) == IF Accepts(cv) THEN Read(cv, <<>>) ELSE Throws

MadePrincipal(input) == IF input.principal = None THEN Throws ELSE Made(input.principal)

MadeContract(input) ==
    IF input.principal = None \/ input.principal.type # "PrincipalContract" THEN Throws
    ELSE Made(input.principal)

MadeInteger(input, type) ==
    IF input.number = None THEN Throws ELSE Made([type |-> type, value |-> input.number])

MadeBuffer(input) == Made([type |-> "Buffer", buffer |-> Utf8ToBytes(input.text)])

-----------------------------------------------------------------------------

\* encodeClarityValue
EncodeClarityValue(type, input) ==
    CASE type.id = "uint128" -> MadeInteger(input, "UInt")
      [] type.id = "int128" -> MadeInteger(input, "Int")
      [] type.id = "bool" /\ input.text \in {FalseText, Zero} -> Made([type |-> "BoolFalse"])
      [] type.id = "bool" /\ input.text \in {TrueText, One} -> Made([type |-> "BoolTrue"])
      [] type.id = "principal" -> MadePrincipal(input)
      [] type.id = "trait_reference" -> MadeContract(input)
      [] type.id = "none" -> Made([type |-> "OptionalNone"])
      [] type.id = "buffer" -> MadeBuffer(input)
      [] type.id = "string-ascii" -> Made([type |-> "StringASCII", data |-> input.text])
      [] type.id = "string-utf8" -> Made([type |-> "StringUTF8", data |-> input.text])
      [] OTHER -> Throws

\* A parseToCV whose limit is one of characters.
ParseToCVChars(input, type) ==
    IF type.id = "buffer" /\ Len(input.text) <= type.length THEN MadeBuffer(input) ELSE Throws

\* parseToCV
ParseToCV(input, type) ==
    CASE type.id = "uint128" -> MadeInteger(input, "UInt")
      [] type.id = "int128" -> MadeInteger(input, "Int")
      [] type.id = "bool" /\ LowerCase(input.text) = TrueText -> Made([type |-> "BoolTrue"])
      [] type.id = "bool" /\ LowerCase(input.text) = FalseText -> Made([type |-> "BoolFalse"])
      [] type.id = "principal" -> MadePrincipal(input)
      [] type.id = "buffer" /\ Len(Utf8ToBytes(input.text)) <= type.length -> MadeBuffer(input)
      [] OTHER -> Throws

\* matchType.  The members of a tuple that the type does not have are not looked at.
RECURSIVE MatchType(_, _)
MatchType(cv, type) ==
    CASE cv.type \in {"BoolTrue", "BoolFalse"} -> type.id = "bool"
      [] cv.type = "Int" -> type.id = "int128"
      [] cv.type = "UInt" -> type.id = "uint128"
      [] cv.type = "Buffer" -> type.id = "buffer" /\ type.length >= Len(cv.buffer)
      [] cv.type = "StringASCII" -> type.id = "string-ascii" /\ type.length >= Len(cv.data)
      [] cv.type = "StringUTF8" -> type.id = "string-utf8" /\ type.length >= Len(cv.data)
      [] cv.type = "OptionalNone" -> type.id \in {"none", "optional"}
      [] cv.type = "OptionalSome" -> type.id = "optional" /\ MatchType(cv.value, type.of)
      [] cv.type = "ResponseErr" -> type.id = "response" /\ MatchType(cv.value, type.error)
      [] cv.type = "ResponseOk" -> type.id = "response" /\ MatchType(cv.value, type.ok)
      [] cv.type = "PrincipalContract" -> type.id \in {"principal", "trait_reference"}
      [] cv.type = "PrincipalStandard" -> type.id = "principal"
      [] cv.type = "List" ->
            /\ type.id = "list" /\ type.length >= Len(cv.list)
            /\ \A i \in DOMAIN cv.list : MatchType(cv.list[i], type.of)
      [] cv.type = "Tuple" ->
            /\ type.id = "tuple"
            /\ \A name \in DOMAIN type.members :
                  name \in DOMAIN cv.data /\ MatchType(cv.data[name], type.members[name])

\* validateContractCall, of the arguments of a function that the contract has just once.
ValidateContractCall(functionArgs, types) ==
    /\ Len(functionArgs) = Len(types)
    /\ \A i \in DOMAIN types : MatchType(functionArgs[i], types[i])
=============================================================================
