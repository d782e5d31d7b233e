------------------------------ MODULE AuthTokens ------------------------------
(***************************************************************************)
(* The tokens of a sign-in: the request that an application makes            *)
(* (packages/core/src/connect/authentication.ts), the response that a wallet *)
(* makes of it and what either may be verified with (wallet-sdk/auth), and   *)
(* the session that the application gets (connect/auth).                     *)
(*                                                                          *)
(* A token is a payload and the key that signed it, which is the one whose   *)
(* public key verifies it.  Times are in milliseconds, but those of payloads *)
(* in seconds.  A string of hex digits is its length and the bytes that      *)
(* hexToBytes makes of it; a url has port 0 where it names none or the one    *)
(* of its scheme, and says whether http:// or https:// is in its text.        *)
(***************************************************************************)
EXTENDS Ciphertexts

CONSTANTS
    Null,           \* null, undefined, and what a payload does not have
    Origin,         \* the origin of the application's page, a url
    SecondMs,       \* 1000
    MonthMs

ASSUME AuthTokensAssumption == SecondMs \in Nat \ {0} /\ MonthMs \in Nat /\ Null \notin Nat

-----------------------------------------------------------------------------
(* Who signs.                                                               *)

StxAddress(key) == [form |-> "c32", key |-> key]

\* c32ToB58, or the address as it is where that throws.
BtcAddress(address) == [form |-> "base58", key |-> address.key]

NoAddress == [form |-> "none", key |-> NoKey]

MakeDIDFromAddress(address) == [type |-> "btc-addr", address |-> address]

NoDID == [type |-> "none", address |-> NoAddress]

GetAddressFromDID(did) == IF did.type = "btc-addr" THEN did.address ELSE NoAddress

HasOneKey(token) == Len(token.payload.public_keys) = 1

DoSignaturesMatchPublicKeys(token) == token.payload.public_keys[1] = token.signer

DoPublicKeysMatchIssuer(token) ==
    StxAddress(token.payload.public_keys[1]) = GetAddressFromDID(token.payload.iss)

IsIssuanceDateValid(token, now) ==
    token.payload.iat \in {Null, 0} \/ now >= token.payload.iat * SecondMs

\* A check that takes seconds for milliseconds.
IsExpirationDateValidUnscaled(token, now) ==
    token.payload.exp \in {Null, 0} \/ now <= token.payload.exp

IsExpirationDateValid(token, now) ==
    token.payload.exp \in {Null, 0} \/ now <= token.payload.exp * SecondMs

-----------------------------------------------------------------------------
(* Requests.                                                                *)

\* generateAuthRequestPayload.  There is no issuer, no date and no manifest in it.
GenerateSignedAuthRequest(transitKey) ==
    [signer |-> transitKey,
     payload |-> [public_keys |-> <<transitKey>>, domain_name |-> Origin, redirect_uri |-> Origin,
                  manifest_uri |-> Null, iss |-> NoDID, iat |-> Null, exp |-> Null]]

PortOf(url) == IF url.port # 0 THEN url.port ELSE IF url.scheme = "https:" THEN 443 ELSE 80

IsSameOriginAbsoluteUrl(url1, url2) ==
    /\ url1 # Null /\ url2 # Null
    /\ url1.scheme = url2.scheme /\ url1.hostname = url2.hostname /\ PortOf(url1) = PortOf(url2)
    /\ url1.absolute /\ url2.absolute

IsManifestUriValid(token) ==
    IsSameOriginAbsoluteUrl(token.payload.domain_name, token.payload.manifest_uri)

IsRedirectUriValid(token) ==
    IsSameOriginAbsoluteUrl(token.payload.domain_name, token.payload.redirect_uri)

\* An unsecured token throws, and one of several keys or of none.
VerifyAuthRequest(token, now) ==
    IF token.signer = NoKey \/ ~HasOneKey(token) THEN Throws
    ELSE Read(/\ IsExpirationDateValid(token, now) /\ IsIssuanceDateValid(token, now)
              /\ DoSignaturesMatchPublicKeys(token) /\ DoPublicKeysMatchIssuer(token)
              /\ IsManifestUriValid(token) /\ IsRedirectUriValid(token), <<>>)

FetchAppManifest(token, answers) ==
    IF answers THEN Read([manifestURI |-> token.payload.manifest_uri], <<>>) ELSE Throws

VerifyAuthRequestAndLoadManifest(token, now, answers) ==
    Then(VerifyAuthRequest(token, now), LAMBDA valid, r :
      IF valid THEN FetchAppManifest(token, answers) ELSE Throws)

-----------------------------------------------------------------------------
(* Responses.                                                               *)

\* 0 is no time to expire at.
ExpiresAt(params) ==
    IF params.expiresAt \in {Null, 0} THEN params.madeAt + MonthMs ELSE params.expiresAt

NoText == [form |-> "none"]

EncryptPrivateKey(publicKey, text) ==
    IF text.length % 2 = 1 THEN Throws
    ELSE Read([form |-> "sealed",
               object |-> EncryptECIES(publicKey, text.bytes, FALSE, "hex").value], <<>>)

\* The core token is encrypted just when the app private key is.
MakeAuthResponse(params) ==
    LET seals == params.appPrivateKey # Null /\ params.transitPublicKey # Null
        payload(text) ==
            IF text = Null THEN Read(NoText, <<>>)
            ELSE IF seals THEN EncryptPrivateKey(params.transitPublicKey, text)
            ELSE Read([form |-> "clear", text |-> text], <<>>)
    IN  Then(payload(params.appPrivateKey), LAMBDA private_key, r :
          Then(payload(params.coreToken), LAMBDA core_token, rest :
            Read([signer |-> params.privateKey,
                  payload |-> [iat |-> params.madeAt \div SecondMs,
                               exp |-> ExpiresAt(params) \div SecondMs,
                               iss |-> MakeDIDFromAddress(StxAddress(params.privateKey)),
                               private_key |-> private_key,
                               public_keys |-> <<params.privateKey>>,
                               profile |-> params.profile,
                               username |-> params.username,
                               core_token |-> core_token,
                               hubUrl |-> IF params.appPrivateKey = Null THEN Null
                                          ELSE params.hubUrl]], rest)))

\* A lookup is the url that is asked, and the owner of the name or Null, where no owner is
\* answered or the answer is lost.
DoPublicKeysMatchUsername(token, lookup) ==
    \/ token.payload.username = Null
    \/ /\ lookup.url # Null /\ lookup.owner # Null
       /\ BtcAddress(lookup.owner) = GetAddressFromDID(token.payload.iss)

\* Of the name's lookup and those to fall back on, one that matches is enough.
VerifyAuthResponse(token, now, lookups) ==
    IF ~HasOneKey(token) THEN Throws
    ELSE Read(/\ IsExpirationDateValid(token, now) /\ IsIssuanceDateValid(token, now)
              /\ DoSignaturesMatchPublicKeys(token) /\ DoPublicKeysMatchIssuer(token)
              /\ \E i \in DOMAIN lookups : DoPublicKeysMatchUsername(token, lookups[i]), <<>>)

\* hexToJSON throws for a key in the clear; that and a failure to decrypt are logged.
AppPrivateKeyOf(private_key, transitPrivateKey) ==
    LET key == IF private_key.form = "sealed"
               THEN DecryptECIES(transitPrivateKey, private_key.object) ELSE Throws
    IN  IF key.ok THEN key.value ELSE Null

DecodeAuthResponse(token, transitPrivateKey) ==
    IF token.payload.profile = Null THEN Throws
    ELSE Read([addresses |-> token.payload.profile,
               appPrivateKey |-> AppPrivateKeyOf(token.payload.private_key, transitPrivateKey),
               hubUrl |-> token.payload.hubUrl,
               username |-> token.payload.username,
               identityAddress |-> GetAddressFromDID(token.payload.iss)], <<>>)

\* What authenticate gives, which tells onCancel where decoding throws.
Authenticate(token, transitPrivateKey) == DecodeAuthResponse(token, transitPrivateKey)
=============================================================================
