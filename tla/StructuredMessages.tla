-------------------------- MODULE StructuredMessages --------------------------
(***************************************************************************)
(* Structured messages (SIP-018): what the client asks a wallet to sign, and *)
(* what a signature of it is verified against:                              *)
(* packages/core/src/connect/message-signing/structured-message.ts and       *)
(* verify.ts.                                                               *)
(*                                                                          *)
(* A hash is the bytes that are hashed.  The members of a domain go by their *)
(* first letters, which put them in the same order.                         *)
(***************************************************************************)
EXTENDS ClarityValues

CONSTANTS
    MainnetChain,   \* ChainID.Mainnet
    Unset           \* an option that is undefined

-----------------------------------------------------------------------------

MakeDomainTuple(domain, chainId) ==
    [type |-> "Tuple",
     data |-> <<110>> :> [type |-> "StringASCII", data |-> domain.name]
              @@ <<118>> :> [type |-> "StringASCII", data |-> domain.version]
              @@ <<99>> :> [type |-> "UInt", value |-> chainId]]

MakeStructuredDataHash(domainHash, messageHash) == <<"SIP018", domainHash, messageHash>>

\* What signStructuredMessage makes of the domain of its caller.
WithDefaults(domain, appName, networkChain) ==
    [name |-> IF domain.name = Unset THEN appName ELSE domain.name,
     version |-> IF domain.version = Unset THEN <<49>> ELSE domain.version,
     chainId |-> IF domain.chainId = Unset THEN networkChain ELSE domain.chainId]

\* A chain for which the network comes before the domain.
ChainOfNetwork(request) ==
    CASE request.network # Unset -> request.network
      [] request.network = Unset /\ request.domain.chainId # Unset -> request.domain.chainId
      [] OTHER -> MainnetChain

\* A network stands in for the chain of the domain.
ChainOf(request) ==
    CASE request.domain.chainId # Unset -> request.domain.chainId
      [] request.domain.chainId = Unset /\ request.network # Unset -> request.network
      [] OTHER -> MainnetChain

\* generateSignStructuredDataPayload.  The message is a value or the hex that cvToHex makes of
\* one.
StructuredPayload(request) ==
    [message |-> SerializeCV(request.message),
     domain |-> SerializeCV(MakeDomainTuple(request.domain, ChainOf(request)))]

\* What the wallet signs of a payload.
SignedHash(payload) == MakeStructuredDataHash(payload.domain, payload.message)

\* getStructuredDataHashes, which knows of no network; a message in hex is read and written again.
StructuredDataHash(message, isHex, domain) ==
    LET chainId == IF domain.chainId = Unset THEN MainnetChain ELSE domain.chainId
        value == IF isHex THEN DeserializeCV(Reader(SerializeCV(message), 0)) ELSE Read(message, <<>>)
    IN  Then(value, LAMBDA cv, rest :
          Read(MakeStructuredDataHash(SerializeCV(MakeDomainTuple(domain, chainId)), SerializeCV(cv)),
               rest))

\* verifyStructuredMessageSignature, of a signature of the payload by the key it is verified with.
\* The legacy prefix makes no difference to bytes that are hashed already.
VerifiesStructured(payload, message, isHex, domain) ==
    Then(StructuredDataHash(message, isHex, domain), LAMBDA hash, rest :
      Read(hash = SignedHash(payload), rest))
=============================================================================
