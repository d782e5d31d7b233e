----------------------------- MODULE TextProofs -----------------------------
(***************************************************************************)
(* Proofs about TextFormats, for any texts.                                 *)
(***************************************************************************)
EXTENDS TextFormats, SequenceTheorems, FiniteSetTheorems, TLAPS

-----------------------------------------------------------------------------
(* The machine.                                                             *)

\* What may be sent.
IsWritten(kind, content) ==
    \/ \E i \in DOMAIN Texts : kind = Texts[i].code /\ content = Texts[i].bytes
    \/ kind = "address" /\ \E i \in DOMAIN Addresses : content = Addresses[i]
    \/ kind = "token" /\ \E i \in DOMAIN Tokens : content = Tokens[i]
    \/ kind = "message" /\ \E i \in DOMAIN Messages : content = Messages[i]
    \/ kind = "signIn" /\ \E i \in DOMAIN SignIns :
          IsValid(SignIns[i]) /\ content = Stamped(SignIns[i], Now)
    \/ kind = "file" /\ \E i \in DOMAIN EncryptedFiles :
          MaySend(EncryptedFiles[i], MaxUploadBytes) /\ content = EncryptedFiles[i]
    \/ kind = "zone" /\ \E i \in DOMAIN Zones : content = Zones[i]
    \/ kind = "request" /\ \E i \in DOMAIN AuthRequests : content = AuthRequests[i]
    \/ kind = "response" /\ \E i \in DOMAIN AuthResponses :
          MakeAuthResponse(AuthResponses[i]).ok /\ content = AuthResponses[i]

\* Where there is no text yet nothing was read; a text is one that may be sent, was written
\* in its form, and is read by its reader if it is read at all.
WireInv ==
    /\ sent = Nothing => got = NotRead /\ hops = 0
    /\ sent.kind \in TextKinds =>
          /\ IsWritten(sent.kind, sent.content)
          /\ hops \in Nat
          /\ hops = 0 => wire = EncodeText(sent.kind, sent.content)
          /\ got = NotRead \/ got = Outcome(DecodeText(sent.kind, sent.content, wire))
          /\ sent.kind \in {"request", "response"} => hops = 0

LEMMA WritesWritten ==
    ASSUME WriteOneText
    PROVE  \E kind \in TextKinds : \E content :
              IsWritten(kind, content) /\ WriteAsText(kind, content)
<1> USE DEF WriteOneText
<1>1. CASE \E i \in DOMAIN Texts : WriteText(Texts[i])
  <2>1. PICK i \in DOMAIN Texts : WriteText(Texts[i])
    BY <1>1
  <2>2. Texts[i].code \in TextKinds /\ WriteAsText(Texts[i].code, Texts[i].bytes)
    BY <2>1, TextsAssumption DEF WriteText, TextKinds
  <2>3. IsWritten(Texts[i].code, Texts[i].bytes)
    BY DEF IsWritten
  <2> QED
    BY <2>2, <2>3
<1>2. CASE \E i \in DOMAIN Addresses : WriteAddress(Addresses[i])
  BY <1>2 DEF WriteAddress, IsWritten, TextKinds
<1>3. CASE \E i \in DOMAIN Tokens : WriteToken(Tokens[i])
  BY <1>3 DEF WriteToken, IsWritten, TextKinds
<1>4. CASE \E i \in DOMAIN Messages : WriteMessage(Messages[i])
  BY <1>4 DEF WriteMessage, IsWritten, TextKinds
<1>5. CASE \E i \in DOMAIN SignIns : WriteSignIn(SignIns[i])
  BY <1>5 DEF WriteSignIn, IsWritten, TextKinds
<1>6. CASE \E i \in DOMAIN EncryptedFiles : WriteFile(EncryptedFiles[i])
  BY <1>6 DEF WriteFile, IsWritten, TextKinds
<1>7. CASE \E i \in DOMAIN Zones : WriteZone(Zones[i])
  BY <1>7 DEF WriteZone, IsWritten, TextKinds
<1>8. CASE \E i \in DOMAIN AuthRequests : WriteAuthRequest(AuthRequests[i])
  BY <1>8 DEF WriteAuthRequest, IsWritten, TextKinds
<1>9. CASE \E i \in DOMAIN AuthResponses : WriteAuthResponse(AuthResponses[i])
  BY <1>9 DEF WriteAuthResponse, IsWritten, TextKinds
<1> QED
  BY <1>1, <1>2, <1>3, <1>4, <1>5, <1>6, <1>7, <1>8, <1>9

LEMMA NothingIsNoText == Nothing.kind \notin TextKinds
BY DEF Nothing, TextKinds

LEMMA WireHolds == TextSpec => []WireInv
<1>1. TextInit => WireInv
  BY NothingIsNoText DEF TextInit, WireInv
<1>2. ASSUME WireInv, [TextNext \/ Elsewhere]_textVars PROVE WireInv'
  <2>1. CASE WriteOneText
    <3>1. PICK kind \in TextKinds : \E content : IsWritten(kind, content) /\ WriteAsText(kind, content)
      BY <2>1, WritesWritten
    <3>2. PICK content : IsWritten(kind, content) /\ WriteAsText(kind, content)
      BY <3>1
    <3>3. /\ sent' = [kind |-> kind, content |-> content]
          /\ wire' = EncodeText(kind, content) /\ got' = got /\ hops' = hops
      BY <3>2 DEF WriteAsText, Write
    <3>4. sent'.kind = kind /\ sent'.content = content /\ sent' # Nothing
      BY <3>3, NothingIsNoText
    <3>5. got = NotRead /\ hops = 0
      BY <1>2, <2>1 DEF WireInv, WriteOneText
    <3> QED
      BY <3>2, <3>3, <3>4, <3>5 DEF WireInv
  <2>2. CASE ReadText
    BY <1>2, <2>2, NothingIsNoText DEF WireInv, ReadText, Reads
  <2>3. CASE RelayText
    BY <1>2, <2>3, NothingIsNoText DEF WireInv, RelayText, Relays
  <2>4. CASE Elsewhere
    BY <2>4 DEF WireInv, Elsewhere
  <2>5. CASE UNCHANGED textVars
    BY <1>2, <2>5 DEF WireInv, textVars
  <2> QED
    BY <1>2, <2>1, <2>2, <2>3, <2>4, <2>5 DEF TextNext
<1> QED
  BY <1>1, <1>2, PTL DEF TextSpec

-----------------------------------------------------------------------------
(* Requests to sign in, and responses.                                      *)

LEMMA Whole ==
    ASSUME NEW a \in Nat, NEW b \in Nat \ {0}
    PROVE  a \div b \in Nat /\ (a \div b) * b = a - (a % b) /\ (a \div b = 0 <=> a < b)
           /\ a % b \in 0..(b - 1)
OBVIOUS

LEMMA SameOrigin ==
    ASSUME NEW a, NEW b, a # Null => a.port \in Nat, b # Null => b.port \in Nat
    PROVE  IsSameOriginAbsoluteUrl(a, b) <=>
             a # Null /\ b # Null /\ a.absolute /\ b.absolute /\ OriginOf(a) = OriginOf(b)
BY DEF IsSameOriginAbsoluteUrl, OriginOf, PortOf

LEMMA OnlyElement ==
    ASSUME NEW T, NEW s \in Seq(T), NEW none, none \notin {s[i] : i \in DOMAIN s}, NEW x
    PROVE  (x # none /\ Len(s) = 1 /\ s[1] = x) <=> s = <<x>>
<1>1. ASSUME Len(s) = 1, s[1] = x PROVE s = <<x>>
  <2>1. s = [i \in 1..1 |-> s[i]]
    BY <1>1
  <2> QED
    BY <1>1, <2>1
<1>2. ASSUME s = <<x>> PROVE x # none /\ Len(s) = 1 /\ s[1] = x
  BY <1>2
<1> QED
  BY <1>1, <1>2

LEMMA OneSigner ==
    ASSUME NEW token, NEW keys, token.payload.public_keys \in Seq(keys),
           NoKey \notin {token.payload.public_keys[i] : i \in DOMAIN token.payload.public_keys}
    PROVE  (token.signer # NoKey /\ HasOneKey(token) /\ DoSignaturesMatchPublicKeys(token))
             <=> token.payload.public_keys = <<token.signer>>
<1>1. PICK s \in Seq(keys) : s = token.payload.public_keys
  OBVIOUS
<1>2. PICK x : x = token.signer
  OBVIOUS
<1>3. (x # NoKey /\ Len(s) = 1 /\ s[1] = x) <=> s = <<x>>
  <2>1. NoKey \notin {s[i] : i \in DOMAIN s}
    BY <1>1
  <2> QED
    BY ONLY <2>1, s \in Seq(keys), OnlyElement
<1> QED
  BY <1>1, <1>2, <1>3 DEF HasOneKey, DoSignaturesMatchPublicKeys

LEMMA IssuerDecided ==
    ASSUME NEW token, token.payload.public_keys = <<token.signer>>
    PROVE  DoPublicKeysMatchIssuer(token) <=>
             /\ token.payload.iss.type = "btc-addr"
             /\ token.payload.iss.address = StxAddress(token.signer)
<1>1. token.payload.public_keys[1] = token.signer
  OBVIOUS
<1>2. StxAddress(token.signer) # NoAddress
  <2>1. StxAddress(token.signer).form # NoAddress.form
    BY DEF StxAddress, NoAddress
  <2> QED
    BY <2>1
<1> QED
  BY <1>1, <1>2 DEF DoPublicKeysMatchIssuer, GetAddressFromDID

LEMMA DatesDecided ==
    ASSUME NEW token, NEW now \in Nat,
           token.payload.iat \in Nat \cup {Null}, token.payload.exp \in Nat \cup {Null}
    PROVE  /\ IsIssuanceDateValid(token, now) <=>
                (token.payload.iat # Null => token.payload.iat * SecondMs <= now)
           /\ IsExpirationDateValid(token, now) <=>
                (token.payload.exp \notin {Null, 0} => now <= token.payload.exp * SecondMs)
<1>1. PICK iat, exp : iat = token.payload.iat /\ exp = token.payload.exp
  OBVIOUS
<1>2. 0 * SecondMs = 0 /\ 0 <= now
  BY AuthTokensAssumption
<1>3. iat \in Nat => iat * SecondMs \in Nat
  BY AuthTokensAssumption
<1>4. (iat \in {Null, 0} \/ now >= iat * SecondMs) <=> (iat # Null => iat * SecondMs <= now)
  BY <1>1, <1>2, <1>3
<1>5. (exp \in {Null, 0} \/ now <= exp * SecondMs)
        <=> (exp \notin {Null, 0} => now <= exp * SecondMs)
  OBVIOUS
<1>6. IsIssuanceDateValid(token, now) <=> (iat \in {Null, 0} \/ now >= iat * SecondMs)
  BY <1>1 DEF IsIssuanceDateValid
<1>7. IsExpirationDateValid(token, now) <=> (exp \in {Null, 0} \/ now <= exp * SecondMs)
  BY <1>1 DEF IsExpirationDateValid
<1> QED
  BY <1>1, <1>4, <1>5, <1>6, <1>7

LEMMA OriginsDecided ==
    ASSUME NEW request, IsAuthRequest(request)
    PROVE  LET payload == request.token.payload
               urls == {payload.domain_name, payload.manifest_uri, payload.redirect_uri}
           IN  (IsManifestUriValid(request.token) /\ IsRedirectUriValid(request.token)) <=>
                 /\ Null \notin urls
                 /\ \A url \in urls : url.absolute /\ OriginOf(url) = OriginOf(payload.domain_name)
<1>1. PICK domain, manifest, redirect :
        /\ domain = request.token.payload.domain_name
        /\ manifest = request.token.payload.manifest_uri
        /\ redirect = request.token.payload.redirect_uri
  OBVIOUS
<1>2. /\ domain # Null => domain.port \in Nat
      /\ manifest # Null => manifest.port \in Nat
      /\ redirect # Null => redirect.port \in Nat
  BY <1>1 DEF IsAuthRequest
<1>3. /\ IsSameOriginAbsoluteUrl(domain, manifest) <=>
           domain # Null /\ manifest # Null /\ domain.absolute /\ manifest.absolute
             /\ OriginOf(domain) = OriginOf(manifest)
      /\ IsSameOriginAbsoluteUrl(domain, redirect) <=>
           domain # Null /\ redirect # Null /\ domain.absolute /\ redirect.absolute
             /\ OriginOf(domain) = OriginOf(redirect)
  BY <1>2, SameOrigin
<1> QED
  BY <1>1, <1>3 DEF IsManifestUriValid, IsRedirectUriValid

LEMMA RequestDecided ==
    ASSUME NEW request, IsAuthRequest(request)
    PROVE  VerifyAuthRequestAndLoadManifest(request.token, request.readAt, request.manifestAnswers).ok
             <=> RequestIsTaken(request)
<1> DEFINE token == request.token
           payload == token.payload
           urls == {payload.domain_name, payload.manifest_uri, payload.redirect_uri}
           signed == payload.public_keys = <<token.signer>>
           issued == payload.iss.type = "btc-addr" /\ payload.iss.address = StxAddress(token.signer)
           near == \A url \in urls : url.absolute /\ OriginOf(url) = OriginOf(payload.domain_name)
           early == payload.iat # Null => payload.iat * SecondMs <= request.readAt
           late == payload.exp \notin {Null, 0} => request.readAt <= payload.exp * SecondMs
           valid == /\ IsExpirationDateValid(token, request.readAt)
                    /\ IsIssuanceDateValid(token, request.readAt)
                    /\ DoSignaturesMatchPublicKeys(token) /\ DoPublicKeysMatchIssuer(token)
                    /\ IsManifestUriValid(token) /\ IsRedirectUriValid(token)
           single == token.signer # NoKey /\ HasOneKey(token)
           answers == request.manifestAnswers
<1>1. RequestIsTaken(request) <=>
        answers /\ Null \notin urls /\ signed /\ issued /\ near /\ early /\ late
  BY DEF RequestIsTaken
<1>2. (single /\ DoSignaturesMatchPublicKeys(token)) <=> signed
  <2>1. PICK keys : keys = {payload.public_keys[i] : i \in DOMAIN payload.public_keys}
    OBVIOUS
  <2>2. payload.public_keys \in Seq(keys) /\ NoKey \notin keys
    BY <2>1 DEF IsAuthRequest
  <2> QED
    BY <2>1, <2>2, OneSigner
<1>3. signed => (DoPublicKeysMatchIssuer(token) <=> issued)
  BY IssuerDecided
<1>4. (IsIssuanceDateValid(token, request.readAt) <=> early)
        /\ (IsExpirationDateValid(token, request.readAt) <=> late)
  BY DatesDecided DEF IsAuthRequest
<1>5. (IsManifestUriValid(token) /\ IsRedirectUriValid(token)) <=> Null \notin urls /\ near
  BY OriginsDecided
<1>6. VerifyAuthRequestAndLoadManifest(token, request.readAt, answers).ok <=>
        single /\ valid /\ answers
  <2>1. CASE ~single
    BY <2>1 DEF VerifyAuthRequestAndLoadManifest, VerifyAuthRequest, Then, Throws
  <2>2. CASE single
    <3>1. VerifyAuthRequest(token, request.readAt) = Read(valid, <<>>)
      BY <2>2 DEF VerifyAuthRequest
    <3>2. VerifyAuthRequest(token, request.readAt).ok
            /\ VerifyAuthRequest(token, request.readAt).value = valid
      BY <3>1 DEF Read
    <3> QED
      BY <2>2, <3>2 DEF VerifyAuthRequestAndLoadManifest, FetchAppManifest, Then, Throws, Read
  <2> QED
    BY <2>1, <2>2
<1> HIDE DEF signed, issued, near, early, late
<1> QED
  BY <1>1, <1>2, <1>3, <1>4, <1>5, <1>6

\* What putFile and a response encrypt, their reader decrypts with the same key and no other.
LEMMA Decrypted ==
    ASSUME NEW publicKey, NEW content, NEW wasString \in BOOLEAN, NEW encoding, NEW reader
    PROVE  LET object == EncryptECIES(publicKey, content, wasString, encoding).value
           IN  DecryptECIES(reader, object) =
                 IF reader # publicKey THEN Throws
                 ELSE Read(IF wasString THEN [type |-> "string", content |-> BytesToUtf8(content)]
                           ELSE [type |-> "bytes", content |-> content], <<>>)
<1> DEFINE object == EncryptECIES(publicKey, content, wasString, encoding).value
           secret == {Ephemeral, publicKey}
           cipherText == [secret |-> secret, plain |-> content]
           secretRead == {reader, Ephemeral}
<1>1. object = [iv |-> "iv", ephemeralPK |-> Ephemeral, cipherText |-> cipherText,
                mac |-> Mac(secret, "iv", Ephemeral, cipherText), wasString |-> wasString]
  BY DEF EncryptECIES, Json
<1>2. /\ "ephemeralPK" \in DOMAIN object /\ object.iv = "iv" /\ object.ephemeralPK = Ephemeral
      /\ object.cipherText = cipherText /\ object.mac = Mac(secret, "iv", Ephemeral, cipherText)
      /\ object.wasString = wasString /\ object.cipherText.plain = content
  BY <1>1
<1>3. secretRead = secret <=> reader = publicKey
  OBVIOUS
<1>4. Mac(secret, "iv", Ephemeral, cipherText) = Mac(secretRead, "iv", Ephemeral, cipherText)
        <=> secretRead = secret
  BY DEF Mac
<1> HIDE DEF object, secret, cipherText, secretRead
<1>5. DecryptECIES(reader, object) =
        IF object.mac # Mac(secretRead, object.iv, object.ephemeralPK, object.cipherText)
        THEN Throws
        ELSE Read(IF object.wasString
                  THEN [type |-> "string", content |-> BytesToUtf8(object.cipherText.plain)]
                  ELSE [type |-> "bytes", content |-> object.cipherText.plain], <<>>)
  BY <1>2 DEF DecryptECIES, secretRead
<1> QED
  BY <1>2, <1>3, <1>4, <1>5 DEF object

\* A part of a response: none, in the clear, or encrypted.
Part(text, params) ==
    IF text = Null THEN NoText
    ELSE IF params.appPrivateKey # Null /\ params.transitPublicKey # Null
    THEN [form |-> "sealed",
          object |-> EncryptECIES(params.transitPublicKey, text.bytes, FALSE, "hex").value]
    ELSE [form |-> "clear", text |-> text]

Response(params) ==
    [signer |-> params.privateKey,
     payload |-> [iat |-> params.madeAt \div SecondMs,
                  exp |-> ExpiresAt(params) \div SecondMs,
                  iss |-> MakeDIDFromAddress(StxAddress(params.privateKey)),
                  private_key |-> Part(params.appPrivateKey, params),
                  public_keys |-> <<params.privateKey>>,
                  profile |-> params.profile,
                  username |-> params.username,
                  core_token |-> Part(params.coreToken, params),
                  hubUrl |-> IF params.appPrivateKey = Null THEN Null ELSE params.hubUrl]]

LEMMA ResponseParts ==
    ASSUME NEW params, NEW token, token = Response(params)
    PROVE  /\ token.signer = params.privateKey
           /\ token.payload.iat = params.madeAt \div SecondMs
           /\ token.payload.exp = ExpiresAt(params) \div SecondMs
           /\ token.payload.iss = MakeDIDFromAddress(StxAddress(params.privateKey))
           /\ token.payload.private_key = Part(params.appPrivateKey, params)
           /\ token.payload.public_keys = <<params.privateKey>>
           /\ token.payload.profile = params.profile
           /\ token.payload.username = params.username
           /\ token.payload.core_token = Part(params.coreToken, params)
           /\ token.payload.hubUrl =
                 IF params.appPrivateKey = Null THEN Null ELSE params.hubUrl
BY Zenon DEF Response

LEMMA ResponseMade ==
    ASSUME NEW params, MakeAuthResponse(params).ok
    PROVE  MakeAuthResponse(params).value = Response(params)
<1> DEFINE seals == params.appPrivateKey # Null /\ params.transitPublicKey # Null
           payload(text) ==
             IF text = Null THEN Read(NoText, <<>>)
             ELSE IF seals THEN EncryptPrivateKey(params.transitPublicKey, text)
             ELSE Read([form |-> "clear", text |-> text], <<>>)
           made(private_key, core_token) ==
             [signer |-> params.privateKey,
              payload |-> [iat |-> params.madeAt \div SecondMs,
                           exp |-> ExpiresAt(params) \div SecondMs,
                           iss |-> MakeDIDFromAddress(StxAddress(params.privateKey)),
                           private_key |-> private_key,
                           public_keys |-> <<params.privateKey>>,
                           profile |-> params.profile,
                           username |-> params.username,
                           core_token |-> core_token,
                           hubUrl |-> IF params.appPrivateKey = Null THEN Null
                                      ELSE params.hubUrl]]
           key == payload(params.appPrivateKey)
           core == payload(params.coreToken)
<1>1. ASSUME NEW text, payload(text).ok PROVE payload(text).value = Part(text, params)
  <2>1. CASE text = Null
    BY <2>1 DEF Part, Read
  <2>2. CASE text # Null /\ ~seals
    BY <2>2 DEF Part, Read
  <2>3. CASE text # Null /\ seals
    <3>1. payload(text) = EncryptPrivateKey(params.transitPublicKey, text)
      BY <2>3
    <3>2. text.length % 2 # 1
      BY <1>1, <3>1 DEF EncryptPrivateKey, Throws
    <3> QED
      BY <2>3, <3>1, <3>2 DEF EncryptPrivateKey, Part, Read
  <2> QED
    BY <2>1, <2>2, <2>3
<1>2. MakeAuthResponse(params) =
        IF key.ok THEN IF core.ok THEN Read(made(key.value, core.value), core.reader) ELSE Throws
        ELSE Throws
  BY DEF MakeAuthResponse, Then
<1> HIDE DEF payload, key, core
<1>3. key.ok /\ core.ok
  BY <1>2 DEF Throws
<1>4. key.value = Part(params.appPrivateKey, params) /\ core.value = Part(params.coreToken, params)
  BY <1>1, <1>3 DEF key, core
<1>5. MakeAuthResponse(params).value = made(key.value, core.value)
  BY <1>2, <1>3 DEF Read
<1> QED
  BY <1>4, <1>5 DEF Response

\* A time in whole seconds, compared with one in milliseconds.
LEMMA SecondsCompared ==
    ASSUME NEW time \in Nat, NEW now \in Nat
    PROVE  /\ (time \div SecondMs \in {Null, 0} \/ now >= (time \div SecondMs) * SecondMs)
                <=> now >= time - (time % SecondMs)
           /\ (time \div SecondMs \in {Null, 0} \/ now <= (time \div SecondMs) * SecondMs)
                <=> time < SecondMs \/ now <= time - (time % SecondMs)
<1>0. SecondMs \in Nat \ {0}
  BY AuthTokensAssumption
<1>a. /\ time \div SecondMs \in Nat /\ (time \div SecondMs) * SecondMs = time - (time % SecondMs)
      /\ (time \div SecondMs = 0 <=> time < SecondMs) /\ time % SecondMs \in 0..(SecondMs - 1)
  BY ONLY <1>0, Whole, time \in Nat
<1>1. PICK seconds, rest : seconds = time \div SecondMs /\ rest = time % SecondMs
  OBVIOUS
<1>2. /\ seconds \in Nat /\ seconds * SecondMs = time - rest /\ (seconds = 0 <=> time < SecondMs)
      /\ rest \in Nat
  BY <1>0, <1>1, <1>a
<1>3. seconds # Null /\ SecondMs \in Nat
  BY <1>2, AuthTokensAssumption
<1>4. seconds = 0 => seconds * SecondMs = 0
  BY <1>3
<1> QED
  BY ONLY <1>1, <1>2, <1>3, <1>4, time \in Nat, now \in Nat

LEMMA ResponseVerified ==
    ASSUME NEW params, IsAuthResponse(params), MakeAuthResponse(params).ok
    PROVE  LET token == MakeAuthResponse(params).value
               expiry == ExpiresAt(params)
           IN  VerifyAuthResponse(token, params.readAt, params.lookups) =
                 Read(/\ params.username = Null
                      /\ params.readAt >= params.madeAt - (params.madeAt % SecondMs)
                      /\ expiry < SecondMs \/ params.readAt <= expiry - (expiry % SecondMs), <<>>)
<1> DEFINE token == MakeAuthResponse(params).value
           expiry == ExpiresAt(params)
<1>1. /\ token.signer = params.privateKey
      /\ token.payload.iat = params.madeAt \div SecondMs
      /\ token.payload.exp = expiry \div SecondMs
      /\ token.payload.iss = MakeDIDFromAddress(StxAddress(params.privateKey))
      /\ token.payload.public_keys = <<params.privateKey>>
      /\ token.payload.username = params.username
  BY ResponseMade, ResponseParts
<1> HIDE DEF token
<1>2. params.madeAt \in Nat /\ params.readAt \in Nat /\ expiry \in Nat
  BY AuthTokensAssumption DEF IsAuthResponse, ExpiresAt
<1> HIDE DEF expiry
<1>3. HasOneKey(token) /\ DoSignaturesMatchPublicKeys(token)
  BY <1>1 DEF HasOneKey, DoSignaturesMatchPublicKeys
<1>4. GetAddressFromDID(token.payload.iss) = StxAddress(params.privateKey)
  BY <1>1 DEF MakeDIDFromAddress, GetAddressFromDID
<1>5. DoPublicKeysMatchIssuer(token)
  BY <1>1, <1>4 DEF DoPublicKeysMatchIssuer
<1>6. IsIssuanceDateValid(token, params.readAt)
        <=> params.readAt >= params.madeAt - (params.madeAt % SecondMs)
  BY <1>1, <1>2, SecondsCompared DEF IsIssuanceDateValid
<1>7. IsExpirationDateValid(token, params.readAt)
        <=> expiry < SecondMs \/ params.readAt <= expiry - (expiry % SecondMs)
  BY <1>1, <1>2, SecondsCompared DEF IsExpirationDateValid
<1>8. (\E i \in DOMAIN params.lookups : DoPublicKeysMatchUsername(token, params.lookups[i]))
        <=> params.username = Null
  <2>1. ASSUME NEW address PROVE BtcAddress(address) # StxAddress(params.privateKey)
    <3>1. BtcAddress(address).form # StxAddress(params.privateKey).form
      BY DEF BtcAddress, StxAddress
    <3> QED
      BY <3>1
  <2>2. ASSUME NEW lookup
        PROVE  DoPublicKeysMatchUsername(token, lookup) <=> params.username = Null
    BY <1>1, <1>4, <2>1 DEF DoPublicKeysMatchUsername
  <2> QED
    BY <2>2 DEF IsAuthResponse
<1>9. VerifyAuthResponse(token, params.readAt, params.lookups) =
        Read(/\ IsExpirationDateValid(token, params.readAt)
             /\ IsIssuanceDateValid(token, params.readAt)
             /\ DoSignaturesMatchPublicKeys(token) /\ DoPublicKeysMatchIssuer(token)
             /\ \E i \in DOMAIN params.lookups :
                   DoPublicKeysMatchUsername(token, params.lookups[i]), <<>>)
  BY <1>3 DEF VerifyAuthResponse
<1> DEFINE valid == /\ IsExpirationDateValid(token, params.readAt)
                    /\ IsIssuanceDateValid(token, params.readAt)
                    /\ DoSignaturesMatchPublicKeys(token) /\ DoPublicKeysMatchIssuer(token)
                    /\ \E i \in DOMAIN params.lookups :
                          DoPublicKeysMatchUsername(token, params.lookups[i])
           expected == /\ params.username = Null
                       /\ params.readAt >= params.madeAt - (params.madeAt % SecondMs)
                       /\ expiry < SecondMs \/ params.readAt <= expiry - (expiry % SecondMs)
<1>10. valid = expected
  <2>1. valid \in BOOLEAN /\ expected \in BOOLEAN
    OBVIOUS
  <2>2. valid <=> expected
    BY <1>3, <1>5, <1>6, <1>7, <1>8
  <2> QED
    BY <2>1, <2>2
<1>11. VerifyAuthResponse(token, params.readAt, params.lookups) = Read(valid, <<>>)
  BY <1>9
<1> QED
  BY <1>10, <1>11 DEF token, expiry

LEMMA SessionDecoded ==
    ASSUME NEW params, IsAuthResponse(params), MakeAuthResponse(params).ok
    PROVE  LET token == MakeAuthResponse(params).value
               session == Authenticate(token, params.reader)
           IN  /\ session.ok <=> params.profile # Null
               /\ session.ok =>
                     /\ session.value.identityAddress = StxAddress(params.privateKey)
                     /\ session.value.hubUrl =
                           IF params.appPrivateKey = Null THEN Null ELSE params.hubUrl
                     /\ session.value.appPrivateKey =
                           IF params.appPrivateKey # Null
                              /\ params.transitPublicKey = params.reader
                           THEN [type |-> "bytes", content |-> params.appPrivateKey.bytes]
                           ELSE Null
               /\ params.transitPublicKey # Null =>
                     /\ token.payload.private_key.form # "clear"
                     /\ token.payload.core_token.form = "clear" <=>
                           params.coreToken # Null /\ params.appPrivateKey = Null
<1> DEFINE token == MakeAuthResponse(params).value
           session == Authenticate(token, params.reader)
           private_key == Part(params.appPrivateKey, params)
<1>1. /\ token.payload.private_key = private_key
      /\ token.payload.core_token = Part(params.coreToken, params)
      /\ token.payload.iss = MakeDIDFromAddress(StxAddress(params.privateKey))
      /\ token.payload.profile = params.profile
      /\ token.payload.hubUrl = IF params.appPrivateKey = Null THEN Null ELSE params.hubUrl
  BY ResponseMade, ResponseParts
<1> HIDE DEF token
<1>2. session.ok <=> params.profile # Null
  BY <1>1 DEF Authenticate, DecodeAuthResponse, Read, Throws
<1>3. params.profile # Null =>
        /\ session.value.identityAddress = StxAddress(params.privateKey)
        /\ session.value.hubUrl = token.payload.hubUrl
        /\ session.value.appPrivateKey = AppPrivateKeyOf(private_key, params.reader)
  BY <1>1 DEF Authenticate, DecodeAuthResponse, Read, GetAddressFromDID, MakeDIDFromAddress
<1>4. AppPrivateKeyOf(private_key, params.reader) =
        IF params.appPrivateKey # Null /\ params.transitPublicKey = params.reader
        THEN [type |-> "bytes", content |-> params.appPrivateKey.bytes] ELSE Null
  <2>1. CASE params.appPrivateKey = Null \/ params.transitPublicKey = Null
    <3>1. private_key.form # "sealed"
      BY <2>1 DEF Part, NoText
    <3>2. ~(params.appPrivateKey # Null /\ params.transitPublicKey = params.reader)
      BY <2>1 DEF IsAuthResponse
    <3> QED
      BY <3>1, <3>2 DEF AppPrivateKeyOf, Throws
  <2>2. CASE params.appPrivateKey # Null /\ params.transitPublicKey # Null
    <3> DEFINE object ==
                 EncryptECIES(params.transitPublicKey, params.appPrivateKey.bytes, FALSE, "hex").value
               key == DecryptECIES(params.reader, object)
    <3>1. private_key.form = "sealed" /\ private_key.object = object
      BY <2>2 DEF Part
    <3>2. key = IF params.reader # params.transitPublicKey THEN Throws
                ELSE Read([type |-> "bytes", content |-> params.appPrivateKey.bytes], <<>>)
      <4>1. PICK publicKey, content, wasString, reader, encoding :
              /\ publicKey = params.transitPublicKey /\ content = params.appPrivateKey.bytes
              /\ wasString = FALSE /\ reader = params.reader /\ encoding = "hex"
        OBVIOUS
      <4>2. wasString \in BOOLEAN
        BY <4>1
      <4>3. DecryptECIES(reader, EncryptECIES(publicKey, content, wasString, encoding).value) =
              IF reader # publicKey THEN Throws
              ELSE Read(IF wasString THEN [type |-> "string", content |-> BytesToUtf8(content)]
                        ELSE [type |-> "bytes", content |-> content], <<>>)
        BY ONLY <4>2, Decrypted
      <4> QED
        BY <4>1, <4>3 DEF key, object
    <3> HIDE DEF object, key, private_key
    <3>3. AppPrivateKeyOf(private_key, params.reader) = IF key.ok THEN key.value ELSE Null
      BY <3>1 DEF AppPrivateKeyOf, key
    <3> QED
      BY <2>2, <3>2, <3>3 DEF Read, Throws
  <2> QED
    BY <2>1, <2>2
<1>5. params.transitPublicKey # Null =>
        /\ private_key.form # "clear"
        /\ Part(params.coreToken, params).form = "clear" <=>
              params.coreToken # Null /\ params.appPrivateKey = Null
  BY DEF Part, NoText
<1> HIDE DEF session, private_key
<1>6. session.ok =>
         /\ session.value.identityAddress = StxAddress(params.privateKey)
         /\ session.value.hubUrl = IF params.appPrivateKey = Null THEN Null ELSE params.hubUrl
         /\ session.value.appPrivateKey =
              IF params.appPrivateKey # Null /\ params.transitPublicKey = params.reader
              THEN [type |-> "bytes", content |-> params.appPrivateKey.bytes] ELSE Null
  BY <1>1, <1>2, <1>3, <1>4
<1> QED
  BY <1>1, <1>2, <1>5, <1>6 DEF session, token

\* What is read was decoded of the wire.
LEMMA GotIsDecoded ==
    ASSUME WireInv, NEW kinds, kinds \subseteq TextKinds, HasRead(kinds)
    PROVE  /\ sent.kind \in kinds /\ IsWritten(sent.kind, sent.content) /\ hops \in Nat
           /\ hops = 0 => wire = EncodeText(sent.kind, sent.content)
           /\ sent.kind \in {"request", "response"} => hops = 0
           /\ got = Outcome(DecodeText(sent.kind, sent.content, wire))
BY DEF WireInv, HasRead, NotRead

\* A request is taken just when it should be, and a response is valid, gives the session and
\* hides the secrets that it should (connect/auth, wallet-sdk/auth).
THEOREM SignInTokensHold == TextSpec => []SignInTokensAgree
<1>1. ASSUME WireInv, HasRead({"request"}) PROVE got.ok <=> RequestIsTaken(sent.content)
  <2>1. /\ sent.kind = "request" /\ IsWritten("request", sent.content)
        /\ wire = EncodeText("request", sent.content)
        /\ got = Outcome(DecodeText("request", sent.content, wire))
    BY <1>1, GotIsDecoded DEF TextKinds
  <2>2. PICK i \in DOMAIN AuthRequests : sent.content = AuthRequests[i]
    BY <2>1, TextsAssumption DEF IsWritten
  <2>3. PICK request : request = sent.content /\ IsAuthRequest(request)
    BY <2>2, AuthAssumption
  <2>4. wire = request.token
    BY <2>1, <2>3 DEF EncodeText
  <2>5. DecodeText("request", request, wire) = VerifyAuthRequestAndLoadManifest(
          request.token, request.readAt, request.manifestAnswers)
    BY <2>4 DEF DecodeText
  <2>6. got.ok <=> DecodeText("request", request, wire).ok
    BY <2>1, <2>3 DEF Outcome
  <2> QED
    BY <2>3, <2>5, <2>6, RequestDecided
<1>2. ASSUME WireInv, HasRead({"response"})
      PROVE  LET params == sent.content
                 session == got.value.session
                 expiry == ExpiresAt(params)
             IN  /\ got.value.valid <=>
                       /\ params.username = Null
                       /\ params.readAt >= params.madeAt - (params.madeAt % SecondMs)
                       /\ expiry < SecondMs \/ params.readAt <= expiry - (expiry % SecondMs)
                 /\ session.ok <=> params.profile # Null
                 /\ session.ok =>
                       /\ session.value.identityAddress = StxAddress(params.privateKey)
                       /\ session.value.hubUrl =
                             IF params.appPrivateKey = Null THEN Null ELSE params.hubUrl
                       /\ session.value.appPrivateKey =
                             IF params.appPrivateKey # Null
                                /\ params.transitPublicKey = params.reader
                             THEN [type |-> "bytes", content |-> params.appPrivateKey.bytes]
                             ELSE Null
                 /\ params.transitPublicKey # Null =>
                       /\ wire.payload.private_key.form # "clear"
                       /\ wire.payload.core_token.form = "clear" <=>
                             params.coreToken # Null /\ params.appPrivateKey = Null
  <2>1. /\ sent.kind = "response" /\ IsWritten("response", sent.content)
        /\ wire = EncodeText("response", sent.content)
        /\ got = Outcome(DecodeText("response", sent.content, wire))
    BY <1>2, GotIsDecoded DEF TextKinds
  <2>2. PICK i \in DOMAIN AuthResponses :
          MakeAuthResponse(AuthResponses[i]).ok /\ sent.content = AuthResponses[i]
    BY <2>1, TextsAssumption DEF IsWritten
  <2>3. PICK params :
          params = sent.content /\ IsAuthResponse(params) /\ MakeAuthResponse(params).ok
    BY <2>2, AuthAssumption
  <2> DEFINE expiry == ExpiresAt(params)
             valid == /\ params.username = Null
                      /\ params.readAt >= params.madeAt - (params.madeAt % SecondMs)
                      /\ expiry < SecondMs \/ params.readAt <= expiry - (expiry % SecondMs)
             token == MakeAuthResponse(params).value
             session == Authenticate(token, params.reader)
  <2>4. wire = token
    BY <2>1, <2>3 DEF EncodeText
  <2>5. VerifyAuthResponse(token, params.readAt, params.lookups) = Read(valid, <<>>)
    BY <2>3, ResponseVerified
  <2> HIDE DEF valid, token
  <2>6. DecodeText("response", params, token) = Read([valid |-> valid, session |-> session], <<>>)
    <3>1. DecodeText("response", params, token) =
            Then(VerifyAuthResponse(token, params.readAt, params.lookups), LAMBDA v, r :
              Read([valid |-> v, session |-> Authenticate(token, params.reader)], r))
      BY DEF DecodeText
    <3> QED
      BY <2>5, <3>1 DEF Then, Read
  <2>7. got.value = [valid |-> valid, session |-> session]
    BY <2>1, <2>3, <2>4, <2>6 DEF Outcome, Read
  <2>8. got.value.valid = valid /\ got.value.session = session
    BY <2>7
  <2> QED
    BY <2>3, <2>4, <2>8, SessionDecoded DEF valid, token
<1>3. WireInv => SignInTokensAgree
  BY <1>1, <1>2 DEF SignInTokensAgree
<1> QED
  BY <1>3, WireHolds, PTL

-----------------------------------------------------------------------------
(* Bytes and strings.                                                       *)

LEMMA ConcatEmpty == Concat(<<>>) = <<>>
BY Joining!FoldEmpty DEF Concat

LEMMA ConcatAppend ==
    ASSUME NEW S, NEW pieces \in Seq(S), NEW piece \in S
    PROVE  Concat(Append(pieces, piece)) = Concat(pieces) \o piece
BY Joining!FoldAppend DEF Concat, Joined

LEMMA ConcatType ==
    ASSUME NEW S
    PROVE  \A pieces \in Seq(Seq(S)) : Concat(pieces) \in Seq(S)
<1> DEFINE T == {pieces \in Seq(Seq(S)) : Concat(pieces) \in Seq(S)}
<1>1. <<>> \in T
  <2>1. <<>> \in Seq(S) /\ <<>> \in Seq(Seq(S))
    OBVIOUS
  <2> QED
    BY <2>1, ConcatEmpty
<1>2. ASSUME NEW pieces \in Seq(Seq(S)), NEW piece \in Seq(S), pieces \in T
      PROVE  Append(pieces, piece) \in T
  <2>1. Concat(Append(pieces, piece)) = Concat(pieces) \o piece
    BY ConcatAppend
  <2>2. Concat(pieces) \o piece \in Seq(S) /\ Append(pieces, piece) \in Seq(Seq(S))
    <3>1. Concat(pieces) \in Seq(S)
      BY <1>2
    <3> HIDE DEF T
    <3> QED
      BY <3>1
  <2> QED
    BY <2>1, <2>2
<1>3. \A pieces \in Seq(Seq(S)) : pieces \in T
  <2> HIDE DEF T
  <2> QED
    BY <1>1, <1>2, Joining!SequenceInduction
<1> QED
  BY <1>3

\* The digits of a code point in base 64.
LEMMA Base64Digits ==
    ASSUME NEW c \in Nat, c < 65536
    PROVE  \E q, h, m, l \in Nat :
             /\ q = c \div 64 /\ h = c \div 4096 /\ m = (c \div 64) % 64 /\ l = c % 64
             /\ c = 64 * q + l /\ q = 64 * h + m
             /\ h <= 15 /\ m <= 63 /\ l <= 63
<1>1. PICK q, h, m, l : q = c \div 64 /\ h = q \div 64 /\ m = q % 64 /\ l = c % 64
  OBVIOUS
<1>2. q \in Nat /\ l \in Nat /\ l <= 63 /\ c = 64 * q + l
  BY <1>1
<1>3. h \in Nat /\ m \in Nat /\ m <= 63 /\ q = 64 * h + m
  BY <1>1, <1>2
<1>4. h = c \div 4096
  BY <1>1
<1>5. h <= 15
  BY <1>2, <1>3
<1> QED
  BY <1>1, <1>2, <1>3, <1>4, <1>5

LEMMA CodePointBytes ==
    ASSUME NEW c \in Characters
    PROVE  CodePointToBytes(c) \in Seq(0..255)
<1>1. c \in Nat /\ c < 65536
  BY DEF Characters
<1>2. PICK q, h, m, l \in Nat :
        /\ q = c \div 64 /\ h = c \div 4096 /\ m = (c \div 64) % 64 /\ l = c % 64
        /\ c = 64 * q + l /\ q = 64 * h + m
        /\ h <= 15 /\ m <= 63 /\ l <= 63
  BY <1>1, Base64Digits
<1>3. CASE c < 128
  BY <1>1, <1>3 DEF CodePointToBytes
<1>4. CASE 128 <= c /\ c < 2048
  <2>1. CodePointToBytes(c) = <<192 + q, 128 + l>>
    BY <1>1, <1>2, <1>4 DEF CodePointToBytes
  <2>2. 192 + q \in 0..255 /\ 128 + l \in 0..255
    BY <1>2, <1>4
  <2> QED
    BY <2>1, <2>2
<1>5. CASE 2048 <= c
  <2>1. CodePointToBytes(c) = <<224 + h, 128 + m, 128 + l>>
    BY <1>1, <1>2, <1>5 DEF CodePointToBytes
  <2>2. 224 + h \in 0..255 /\ 128 + m \in 0..255 /\ 128 + l \in 0..255
    BY <1>2
  <2> QED
    BY <2>1, <2>2
<1> QED
  BY <1>1, <1>3, <1>4, <1>5

LEMMA Utf8Empty == Utf8ToBytes(<<>>) = <<>>
BY ConcatEmpty DEF Utf8ToBytes

LEMMA Utf8Append ==
    ASSUME NEW string \in Seq(Characters), NEW c \in Characters
    PROVE  Utf8ToBytes(Append(string, c)) = Utf8ToBytes(string) \o CodePointToBytes(c)
<1> DEFINE pieces(s) == [i \in DOMAIN s |-> CodePointToBytes(s[i])]
<1>1. pieces(string) \in Seq(Seq(0..255))
  BY CodePointBytes
<1>2. pieces(Append(string, c)) = Append(pieces(string), CodePointToBytes(c))
  OBVIOUS
<1>3. Concat(Append(pieces(string), CodePointToBytes(c))) =
        Concat(pieces(string)) \o CodePointToBytes(c)
  BY <1>1, CodePointBytes, ConcatAppend
<1> QED
  BY <1>2, <1>3 DEF Utf8ToBytes

LEMMA Utf8Type ==
    ASSUME NEW string \in Seq(Characters)
    PROVE  Utf8ToBytes(string) \in Seq(0..255)
<1>1. [i \in DOMAIN string |-> CodePointToBytes(string[i])] \in Seq(Seq(0..255))
  <2>1. \A i \in DOMAIN string : CodePointToBytes(string[i]) \in Seq(0..255)
    BY CodePointBytes
  <2>2. PICK T : T = Seq(0..255)
    OBVIOUS
  <2>3. [i \in DOMAIN string |-> CodePointToBytes(string[i])] \in [1..Len(string) -> T]
    BY <2>1, <2>2
  <2> QED
    BY <2>2, <2>3
<1> QED
  BY <1>1, ConcatType DEF Utf8ToBytes

\* Between two characters.
Between(string) == [string |-> string, wanted |-> 0, point |-> 0]

LEMMA OneByteDecoded ==
    ASSUME NEW string, NEW c \in 0..127
    PROVE  DecodeByte(0, Between(string), c) = Between(Append(string, c))
<1>1. Between(string).wanted = 0 /\ Between(string).string = string
  BY DEF Between
<1>2. Finished(Between(string)) = string
  BY <1>1 DEF Finished
<1>3. Utf8Size(c) = 1
  BY DEF Utf8Size
<1>4. Begin(string, c) = [string |-> Append(string, c), wanted |-> 0, point |-> 0]
  BY <1>3 DEF Begin
<1>5. DecodeByte(0, Between(string), c) = Begin(Finished(Between(string)), c)
  BY <1>1 DEF DecodeByte
<1> QED
  BY <1>2, <1>4, <1>5 DEF Between

LEMMA TwoBytesDecoded ==
    ASSUME NEW string, NEW a \in Nat, NEW b \in Nat, NEW c,
           194 <= a, a <= 223, 128 <= b, b <= 191, c = 64 * (a - 192) + b - 128
    PROVE  DecodeByte(0, DecodeByte(0, Between(string), a), b) = Between(Append(string, c))
<1>1. Between(string).wanted = 0 /\ Finished(Between(string)) = string
  BY DEF Between, Finished
<1>2. Utf8Size(a) = 2
  BY DEF Utf8Size
<1>3. Begin(string, a) = [string |-> string, wanted |-> 1, point |-> a - 192]
  BY <1>2 DEF Begin
<1>4. DecodeByte(0, Between(string), a) = [string |-> string, wanted |-> 1, point |-> a - 192]
  BY <1>1, <1>3 DEF DecodeByte
<1>5. PICK acc : acc = [string |-> string, wanted |-> 1, point |-> a - 192]
  OBVIOUS
<1>6. acc.string = string /\ acc.wanted = 1 /\ acc.point = a - 192
  BY <1>5
<1>7. DecodeByte(0, acc, b) =
        [string |-> Append(acc.string, 64 * acc.point + b - 128), wanted |-> 0, point |-> 0]
  BY <1>6 DEF DecodeByte
<1> QED
  BY <1>4, <1>5, <1>6, <1>7 DEF Between

LEMMA ThreeBytesDecoded ==
    ASSUME NEW string, NEW a \in Nat, NEW b \in Nat, NEW d \in Nat, NEW c,
           224 <= a, a <= 239, 128 <= b, b <= 191, 128 <= d, d <= 191,
           c = 64 * (64 * (a - 224) + b - 128) + d - 128,
           NEW first, first = DecodeByte(0, Between(string), a),
           NEW second, second = DecodeByte(0, first, b)
    PROVE  DecodeByte(0, second, d) = Between(Append(string, c))
<1>1. Between(string).wanted = 0 /\ Finished(Between(string)) = string
  BY DEF Between, Finished
<1>2. Utf8Size(a) = 3
  BY DEF Utf8Size
<1>3. Begin(string, a) = [string |-> string, wanted |-> 2, point |-> a - 224]
  BY <1>2 DEF Begin
<1>4. DecodeByte(0, Between(string), a) = [string |-> string, wanted |-> 2, point |-> a - 224]
  BY <1>1, <1>3 DEF DecodeByte
<1>5. PICK acc : acc = [string |-> string, wanted |-> 2, point |-> a - 224]
  OBVIOUS
<1>6. acc.string = string /\ acc.wanted = 2 /\ acc.point = a - 224
  BY <1>5
<1>7. DecodeByte(0, acc, b) =
        [string |-> acc.string, wanted |-> acc.wanted - 1, point |-> 64 * acc.point + b - 128]
  <2>1. ~(acc.wanted = 0 \/ b \notin 128..191) /\ acc.wanted > 1
    BY <1>6
  <2> QED
    BY <2>1 DEF DecodeByte
<1>8. DecodeByte(0, acc, b) =
        [string |-> string, wanted |-> 1, point |-> 64 * (a - 224) + b - 128]
  <2>1. acc.wanted - 1 = 1
    BY <1>6
  <2> QED
    BY <1>6, <1>7, <2>1
<1>9. PICK next : next = [string |-> string, wanted |-> 1, point |-> 64 * (a - 224) + b - 128]
  OBVIOUS
<1>10. next.string = string /\ next.wanted = 1 /\ next.point = 64 * (a - 224) + b - 128
  BY <1>9
<1>11. DecodeByte(0, next, d) =
        [string |-> Append(next.string, 64 * next.point + d - 128), wanted |-> 0, point |-> 0]
  <2>1. ~(next.wanted = 0 \/ d \notin 128..191) /\ ~(next.wanted > 1)
    BY <1>10
  <2> QED
    BY <2>1 DEF DecodeByte
<1> QED
  BY <1>4, <1>5, <1>8, <1>9, <1>10, <1>11 DEF Between

LEMMA OneCharacterDecoded ==
    ASSUME NEW string, NEW c \in Characters
    PROVE  Decoding!Fold(0, Between(string), CodePointToBytes(c)) = Between(Append(string, c))
<1>1. c \in Nat /\ c < 65536
  BY DEF Characters
<1>2. PICK q, h, m, l \in Nat :
        /\ q = c \div 64 /\ h = c \div 4096 /\ m = (c \div 64) % 64 /\ l = c % 64
        /\ c = 64 * q + l /\ q = 64 * h + m
        /\ h <= 15 /\ m <= 63 /\ l <= 63
  BY <1>1, Base64Digits
<1>4. CASE c < 128
  <2>1. CodePointToBytes(c) = <<c>> /\ c \in 0..127
    BY <1>1, <1>4 DEF CodePointToBytes
  <2>2. Decoding!Fold(0, Between(string), <<c>>) = DecodeByte(0, Between(string), c)
    BY Decoding!FoldOne
  <2> QED
    BY <2>1, <2>2, OneByteDecoded
<1>5. CASE 128 <= c /\ c < 2048
  <2>1. CodePointToBytes(c) = <<192 + q, 128 + l>>
    BY <1>1, <1>2, <1>5 DEF CodePointToBytes
  <2>2. PICK a, b : a = 192 + q /\ b = 128 + l
    OBVIOUS
  <2>3. a \in Nat /\ b \in Nat /\ 194 <= a /\ a <= 223 /\ 128 <= b /\ b <= 191
          /\ c = 64 * (a - 192) + b - 128
    BY ONLY <1>1, <1>2, <1>5, <2>2
  <2>4. Decoding!Fold(0, Between(string), <<a, b>>) =
          DecodeByte(0, DecodeByte(0, Between(string), a), b)
    BY Decoding!FoldTwo
  <2>5. DecodeByte(0, DecodeByte(0, Between(string), a), b) = Between(Append(string, c))
    BY ONLY <2>3, TwoBytesDecoded
  <2> QED
    BY <2>1, <2>2, <2>3, <2>4, <2>5
<1>6. CASE 2048 <= c
  <2>1. CodePointToBytes(c) = <<224 + h, 128 + m, 128 + l>>
    BY <1>1, <1>2, <1>6 DEF CodePointToBytes
  <2>2. PICK a, b, d : a = 224 + h /\ b = 128 + m /\ d = 128 + l
    OBVIOUS
  <2>3. /\ a \in Nat /\ b \in Nat /\ d \in Nat
        /\ 224 <= a /\ a <= 239 /\ 128 <= b /\ b <= 191 /\ 128 <= d /\ d <= 191
        /\ c = 64 * (64 * (a - 224) + b - 128) + d - 128
    BY ONLY <1>2, <2>2
  <2>4. Decoding!Fold(0, Between(string), <<a, b, d>>) =
          DecodeByte(0, DecodeByte(0, DecodeByte(0, Between(string), a), b), d)
    BY Decoding!FoldThree
  <2>5. PICK first, second :
          first = DecodeByte(0, Between(string), a) /\ second = DecodeByte(0, first, b)
    OBVIOUS
  <2>6. DecodeByte(0, second, d) = Between(Append(string, c))
    BY ONLY <2>3, <2>5, ThreeBytesDecoded
  <2> QED
    BY <2>1, <2>2, <2>4, <2>5, <2>6
<1> QED
  BY <1>1, <1>4, <1>5, <1>6

\* What a string is in utf8 is decoded to that string, whatever characters it has, but for the
\* byte order mark that it begins with: TextDecoder does not give that (encoding-utf8.ts).
LEMMA Utf8Decoded ==
    \A string \in Seq(Characters) : BytesToUtf8(Utf8ToBytes(string)) = WithoutMark(string)
<1> DEFINE T == {string \in Seq(Characters) :
                   Decoding!Fold(0, Between(<<>>), Utf8ToBytes(string)) = Between(string)}
<1>1. <<>> \in T
  BY Utf8Empty, Decoding!FoldEmpty
<1>2. ASSUME NEW string \in Seq(Characters), NEW c \in Characters, string \in T
      PROVE  Append(string, c) \in T
  <2>1. Utf8ToBytes(Append(string, c)) = Utf8ToBytes(string) \o CodePointToBytes(c)
    BY Utf8Append
  <2>2. Utf8ToBytes(string) \in Seq(0..255) /\ CodePointToBytes(c) \in Seq(0..255)
    BY Utf8Type, CodePointBytes
  <2>3. Decoding!Fold(0, Between(<<>>), Utf8ToBytes(string) \o CodePointToBytes(c)) =
          Decoding!Fold(0, Decoding!Fold(0, Between(<<>>), Utf8ToBytes(string)), CodePointToBytes(c))
    <3>1. PICK base, s, t : base = Between(<<>>) /\ s = Utf8ToBytes(string) /\ t = CodePointToBytes(c)
      OBVIOUS
    <3>2. s \in Seq(0..255) /\ t \in Seq(0..255)
      BY <2>2, <3>1
    <3>3. Decoding!Fold(0, base, s \o t) = Decoding!Fold(0, Decoding!Fold(0, base, s), t)
      BY ONLY <3>2, Decoding!FoldConcat
    <3> QED
      BY <3>1, <3>3
  <2>4. Decoding!Fold(0, Between(<<>>), Utf8ToBytes(string)) = Between(string)
    BY <1>2
  <2>5. Decoding!Fold(0, Between(string), CodePointToBytes(c)) = Between(Append(string, c))
    BY OneCharacterDecoded
  <2>6. Append(string, c) \in Seq(Characters)
    OBVIOUS
  <2> QED
    BY <2>1, <2>3, <2>4, <2>5, <2>6
<1>3. \A string \in Seq(Characters) : string \in T
  <2> HIDE DEF T
  <2> QED
    BY <1>1, <1>2, Decoding!SequenceInduction
<1>4. ASSUME NEW string \in Seq(Characters)
      PROVE  BytesToUtf8(Utf8ToBytes(string)) = WithoutMark(string)
  <2>1. Decoding!Fold(0, Between(<<>>), Utf8ToBytes(string)) = Between(string)
    BY <1>3
  <2>2. Finished(Between(string)) = string
    BY DEF Finished, Between
  <2>3. CharactersOf(Utf8ToBytes(string)) = string
    BY <2>1, <2>2 DEF CharactersOf, Between
  <2> QED
    BY <2>3 DEF BytesToUtf8
<1> QED
  BY <1>4

-----------------------------------------------------------------------------
(* Encrypted files.                                                         *)

IsText(text) == text.length \in Nat /\ text.escapes \in Nat

LEMMA QuotedText ==
    ASSUME NEW text, IsText(text)
    PROVE  /\ IsText(Quoted(text))
           /\ Quoted(text).length = text.length + text.escapes + 2
           /\ Quoted(text).escapes = 2 * text.escapes + 2
<1>1. Quoted(text).length = text.length + text.escapes + 2
        /\ Quoted(text).escapes = 2 * text.escapes + 2
  BY DEF Quoted
<1> QED
  BY <1>1 DEF IsText

LEMMA CharsText == ASSUME NEW n \in Nat PROVE IsText(Chars(n)) /\ Chars(n).length = n /\ Chars(n).escapes = 0
BY DEF Chars, IsText

LEMMA MemberText ==
    ASSUME NEW name, NEW text, IsText(text), NameLength[name] \in Nat
    PROVE  /\ IsText(Member(name, text))
           /\ Member(name, text).length = NameLength[name] + text.length + 4
           /\ Member(name, text).escapes = text.escapes + 2
<1>1. Member(name, text).length = NameLength[name] + text.length + 4
        /\ Member(name, text).escapes = text.escapes + 2
  BY DEF Member
<1> QED
  BY <1>1 DEF IsText

LEMMA NameLengths ==
    /\ NameLength["iv"] = 2 /\ NameLength["ephemeralPK"] = 11 /\ NameLength["mac"] = 3
    /\ NameLength["cipherText"] = 10 /\ NameLength["wasString"] = 9
    /\ NameLength["cipherTextEncoding"] = 18 /\ NameLength["signature"] = 9
    /\ NameLength["publicKey"] = 9
BY DEF NameLength

LEMMA MemberOfChars ==
    ASSUME NEW name, NEW n \in Nat, NameLength[name] \in Nat
    PROVE  /\ IsText(Member(name, Quoted(Chars(n))))
           /\ Member(name, Quoted(Chars(n))).length = NameLength[name] + n + 6
           /\ Member(name, Quoted(Chars(n))).escapes = 4
<1>1. PICK text : text = Quoted(Chars(n))
  OBVIOUS
<1>2. IsText(text) /\ text.length = n + 2 /\ text.escapes = 2
  BY <1>1, CharsText, QuotedText
<1>3. IsText(Member(name, text)) /\ Member(name, text).length = NameLength[name] + text.length + 4
        /\ Member(name, text).escapes = text.escapes + 2
  BY <1>2, MemberText
<1> QED
  BY <1>1, <1>2, <1>3

LEMMA AddedText ==
    ASSUME NEW text, NEW member, IsText(text), IsText(member)
    PROVE  /\ IsText(AddMember(0, text, member))
           /\ AddMember(0, text, member).length = text.length + member.length
           /\ AddMember(0, text, member).escapes = text.escapes + member.escapes
BY DEF AddMember, IsText

LEMMA ThreeAdded ==
    ASSUME NEW text, NEW a, NEW b, NEW c, IsText(text), IsText(a), IsText(b), IsText(c)
    PROVE  LET all == Stringifying!Fold(0, text, <<a, b, c>>)
           IN  /\ IsText(all)
               /\ all.length = text.length + a.length + b.length + c.length
               /\ all.escapes = text.escapes + a.escapes + b.escapes + c.escapes
<1>1. PICK one : one = AddMember(0, text, a)
  OBVIOUS
<1>2. PICK two : two = AddMember(0, one, b)
  OBVIOUS
<1>3. PICK three : three = AddMember(0, two, c)
  OBVIOUS
<1>4. IsText(one) /\ one.length = text.length + a.length /\ one.escapes = text.escapes + a.escapes
  BY <1>1, AddedText
<1>5. IsText(two) /\ two.length = one.length + b.length /\ two.escapes = one.escapes + b.escapes
  BY <1>2, <1>4, AddedText
<1>6. IsText(three) /\ three.length = two.length + c.length /\ three.escapes = two.escapes + c.escapes
  BY <1>3, <1>5, AddedText
<1>7. Stringifying!Fold(0, text, <<a, b, c>>) = three
  BY <1>1, <1>2, <1>3, Stringifying!FoldThree
<1>8. three.length = text.length + a.length + b.length + c.length
        /\ three.escapes = text.escapes + a.escapes + b.escapes + c.escapes
  BY <1>4, <1>5, <1>6
<1> QED
  BY <1>6, <1>7, <1>8

LEMMA TwoAdded ==
    ASSUME NEW text, NEW a, NEW b, IsText(text), IsText(a), IsText(b)
    PROVE  LET all == Stringifying!Fold(0, text, <<a, b>>)
           IN  /\ IsText(all)
               /\ all.length = text.length + a.length + b.length
               /\ all.escapes = text.escapes + a.escapes + b.escapes
<1>1. PICK one : one = AddMember(0, text, a)
  OBVIOUS
<1>2. PICK two : two = AddMember(0, one, b)
  OBVIOUS
<1>4. IsText(one) /\ one.length = text.length + a.length /\ one.escapes = text.escapes + a.escapes
  BY <1>1, AddedText
<1>5. IsText(two) /\ two.length = one.length + b.length /\ two.escapes = one.escapes + b.escapes
  BY <1>2, <1>4, AddedText
<1>7. Stringifying!Fold(0, text, <<a, b>>) = two
  BY <1>1, <1>2, Stringifying!FoldTwo
<1> QED
  BY <1>4, <1>5, <1>7

LEMMA FoldInTwo ==
    ASSUME NEW text, NEW S, NEW s \in Seq(S), NEW t \in Seq(S)
    PROVE  Stringifying!Fold(0, text, s \o t) =
             Stringifying!Fold(0, Stringifying!Fold(0, text, s), t)
BY Stringifying!FoldConcat

LEMMA NewText ==
    LET start == [length |-> 1, escapes |-> 0]
    IN  IsText(start) /\ start.length = 1 /\ start.escapes = 0
BY DEF IsText

\* The text of a cipher object of five members, or of six if its base64 is named.
LEMMA MembersText ==
    ASSUME NEW iv, NEW ephemeralPK, NEW mac, NEW cipherText, NEW wasString, NEW encoding,
           iv \in Nat, ephemeralPK \in Nat, mac \in Nat, cipherText \in Nat, wasString \in BOOLEAN,
           NEW text, text = Object(Members(iv, ephemeralPK, mac, cipherText, wasString, encoding))
    PROVE  /\ IsText(text)
           /\ text.length = iv + ephemeralPK + mac + cipherText + (IF wasString THEN 68 ELSE 69)
                              + (IF encoding = "base64" THEN 30 ELSE 0)
           /\ text.escapes = IF encoding = "base64" THEN 22 ELSE 18
<1>1. PICK a, b, c, d, e, f :
        /\ a = Member("iv", Quoted(Chars(iv)))
        /\ b = Member("ephemeralPK", Quoted(Chars(ephemeralPK)))
        /\ c = Member("mac", Quoted(Chars(mac)))
        /\ d = Member("cipherText", Quoted(Chars(cipherText)))
        /\ e = Member("wasString", Chars(IF wasString THEN 4 ELSE 5))
        /\ f = Member("cipherTextEncoding", Quoted(Chars(6)))
  OBVIOUS
<1>2. PICK last : last \in Nat /\ last = IF wasString THEN 4 ELSE 5
  OBVIOUS
<1>3. /\ IsText(a) /\ a.length = 2 + iv + 6 /\ a.escapes = 4
      /\ IsText(b) /\ b.length = 11 + ephemeralPK + 6 /\ b.escapes = 4
      /\ IsText(c) /\ c.length = 3 + mac + 6 /\ c.escapes = 4
      /\ IsText(d) /\ d.length = 10 + cipherText + 6 /\ d.escapes = 4
  BY <1>1, NameLengths, MemberOfChars
<1>4. IsText(e) /\ e.length = 9 + last + 4 /\ e.escapes = 2
  <2>1. IsText(Chars(last)) /\ Chars(last).length = last /\ Chars(last).escapes = 0
    BY <1>2, CharsText
  <2>2. e = Member("wasString", Chars(last))
    BY <1>1, <1>2
  <2> QED
    BY <2>1, <2>2, NameLengths, MemberText
<1>5. IsText(f) /\ f.length = 30 /\ f.escapes = 4
  <2>1. IsText(f) /\ f.length = 18 + 6 + 6 /\ f.escapes = 4
    BY <1>1, NameLengths, MemberOfChars
  <2> QED
    BY <2>1
<1>6. PICK start : start = [length |-> 1, escapes |-> 0]
  OBVIOUS
<1>7. PICK half : half = Stringifying!Fold(0, start, <<a, b, c>>)
  OBVIOUS
<1>8. IsText(half) /\ half.length = 1 + a.length + b.length + c.length
        /\ half.escapes = 0 + a.escapes + b.escapes + c.escapes
  BY <1>3, <1>6, <1>7, NewText, ThreeAdded
<1>9. CASE encoding = "base64"
  <2>1. Members(iv, ephemeralPK, mac, cipherText, wasString, encoding) = <<a, b, c>> \o <<d, e, f>>
    BY <1>1, <1>9 DEF Members
  <2>2. PICK S : <<a, b, c>> \in Seq(S) /\ <<d, e, f>> \in Seq(S)
    <3>1. <<a, b, c>> \in Seq({a, b, c, d, e, f}) /\ <<d, e, f>> \in Seq({a, b, c, d, e, f})
      OBVIOUS
    <3> QED
      BY <3>1
  <2>3. PICK all : all = Stringifying!Fold(0, half, <<d, e, f>>)
    OBVIOUS
  <2>4. all = Object(Members(iv, ephemeralPK, mac, cipherText, wasString, encoding))
    <3>1. PICK s, t : s = <<a, b, c>> /\ t = <<d, e, f>>
      OBVIOUS
    <3>2. s \in Seq(S) /\ t \in Seq(S)
      BY <2>2, <3>1
    <3>3. Stringifying!Fold(0, start, s \o t) = Stringifying!Fold(0, Stringifying!Fold(0, start, s), t)
      BY ONLY <3>2, FoldInTwo
    <3>4. Object(s \o t) = Stringifying!Fold(0, start, s \o t)
      BY <1>6 DEF Object
    <3> QED
      BY ONLY <1>7, <2>1, <2>3, <3>1, <3>3, <3>4
  <2>5. IsText(all) /\ all.length = half.length + d.length + e.length + f.length
          /\ all.escapes = half.escapes + d.escapes + e.escapes + f.escapes
    BY <1>3, <1>4, <1>5, <1>8, <2>3, ThreeAdded
  <2>6. all.length = iv + ephemeralPK + mac + cipherText + (IF wasString THEN 68 ELSE 69) + 30
          /\ all.escapes = 22
    BY <1>2, <1>3, <1>4, <1>5, <1>8, <2>5
  <2> QED
    BY <1>9, <2>4, <2>5, <2>6
<1>10. CASE encoding # "base64"
  <2>1. Members(iv, ephemeralPK, mac, cipherText, wasString, encoding) = <<a, b, c>> \o <<d, e>>
    BY <1>1, <1>10 DEF Members
  <2>2. PICK S : <<a, b, c>> \in Seq(S) /\ <<d, e>> \in Seq(S)
    <3>1. <<a, b, c>> \in Seq({a, b, c, d, e}) /\ <<d, e>> \in Seq({a, b, c, d, e})
      OBVIOUS
    <3> QED
      BY <3>1
  <2>3. PICK all : all = Stringifying!Fold(0, half, <<d, e>>)
    OBVIOUS
  <2>4. all = Object(Members(iv, ephemeralPK, mac, cipherText, wasString, encoding))
    <3>1. PICK s, t : s = <<a, b, c>> /\ t = <<d, e>>
      OBVIOUS
    <3>2. s \in Seq(S) /\ t \in Seq(S)
      BY <2>2, <3>1
    <3>3. Stringifying!Fold(0, start, s \o t) = Stringifying!Fold(0, Stringifying!Fold(0, start, s), t)
      BY ONLY <3>2, FoldInTwo
    <3>4. Object(s \o t) = Stringifying!Fold(0, start, s \o t)
      BY <1>6 DEF Object
    <3> QED
      BY ONLY <1>7, <2>1, <2>3, <3>1, <3>3, <3>4
  <2>5. IsText(all) /\ all.length = half.length + d.length + e.length
          /\ all.escapes = half.escapes + d.escapes + e.escapes
    BY <1>3, <1>4, <1>8, <2>3, TwoAdded
  <2>6. all.length = iv + ephemeralPK + mac + cipherText + (IF wasString THEN 68 ELSE 69) + 0
          /\ all.escapes = 18
    BY <1>2, <1>3, <1>4, <1>8, <2>5
  <2> QED
    BY <1>10, <2>4, <2>5, <2>6
<1> QED
  BY <1>9, <1>10

LEMMA SignedText ==
    \A signature, publicKey, cipherText, length, escapes, text :
        /\ signature \in Nat /\ publicKey \in Nat /\ length \in Nat /\ escapes \in Nat
        /\ length = cipherText.length /\ escapes = cipherText.escapes
        /\ text = SignedObject(signature, publicKey, cipherText)
        => text.length = signature + publicKey + length + escapes + 47
<1> SUFFICES ASSUME NEW signature, NEW publicKey, NEW cipherText, NEW length, NEW escapes, NEW text,
           signature \in Nat, publicKey \in Nat, length \in Nat, escapes \in Nat,
           length = cipherText.length, escapes = cipherText.escapes,
           text = SignedObject(signature, publicKey, cipherText)
    PROVE  text.length = signature + publicKey + length + escapes + 47
  OBVIOUS
<1>0. IsText(cipherText)
  BY DEF IsText
<1>1. PICK a, b, c :
        /\ a = Member("signature", Quoted(Chars(signature)))
        /\ b = Member("publicKey", Quoted(Chars(publicKey)))
        /\ c = Member("cipherText", Quoted(cipherText))
  OBVIOUS
<1>2. IsText(a) /\ a.length = 9 + signature + 6 /\ IsText(b) /\ b.length = 9 + publicKey + 6
  BY <1>1, NameLengths, MemberOfChars
<1>3. IsText(c) /\ c.length = 10 + (cipherText.length + cipherText.escapes + 2) + 4
  <2>1. PICK quoted : quoted = Quoted(cipherText)
    OBVIOUS
  <2>2. IsText(quoted) /\ quoted.length = cipherText.length + cipherText.escapes + 2
    BY <1>0, <2>1, QuotedText
  <2> QED
    BY <1>1, <2>1, <2>2, NameLengths, MemberText
<1>4. PICK start, all :
        start = [length |-> 1, escapes |-> 0] /\ all = Stringifying!Fold(0, start, <<a, b, c>>)
  OBVIOUS
<1>5. IsText(all) /\ all.length = 1 + a.length + b.length + c.length
  BY <1>2, <1>3, <1>4, NewText, ThreeAdded
<1>6. all = SignedObject(signature, publicKey, cipherText)
  BY <1>1, <1>4 DEF SignedObject, Object
<1>7. all.length = signature + publicKey + length + escapes + 47
  BY <1>2, <1>3, <1>5
<1> QED
  BY <1>5, <1>6, <1>7

\* getAesCbcOutputLength and getBase64OutputLength are the lengths of what is encrypted and
\* encoded (ecies-utils.ts).
LEMMA CipherSize ==
    ASSUME NEW n \in Nat
    PROVE  /\ AesCbcLength(n) \in Nat /\ AesCbcLength(n) = SealedLength(n)
           /\ Base64Length(n) \in Nat /\ Base64Length(n) = EncodedLength(n, "base64")
<1>1. PICK q, r : q = n \div 16 /\ r = n % 16
  OBVIOUS
<1>2. q \in Nat /\ r \in 0..15 /\ n = 16 * q + r
  BY <1>1
<1>3. AesCbcLength(n) = (q + 1) * 16 /\ SealedLength(n) = n + 16 - r
  BY <1>1 DEF AesCbcLength, SealedLength
<1>4. PICK t, u : t = n \div 3 /\ u = n % 3
  OBVIOUS
<1>5. t \in Nat /\ u \in 0..2 /\ n = 3 * t + u
  BY <1>4
<1>6. EncodedLength(n, "base64") = 4 * t + IF u = 0 THEN 0 ELSE 4
  BY <1>4 DEF EncodedLength
<1>7. (n + 2) \div 3 = t + IF u = 0 THEN 0 ELSE 1
  BY <1>5
<1> QED
  BY <1>2, <1>3, <1>5, <1>6, <1>7 DEF Base64Length

LEMMA EncodedSize ==
    ASSUME NEW n \in Nat, NEW encoding
    PROVE  LET size == AesCbcLength(n)
           IN  /\ EncodedLength(SealedLength(n), encoding) \in Nat
               /\ EncodedLength(SealedLength(n), encoding) =
                    IF encoding = "base64" THEN Base64Length(size) ELSE 2 * size
<1>1. PICK size \in Nat : size = AesCbcLength(n) /\ size = SealedLength(n)
  BY CipherSize
<1>2. Base64Length(size) \in Nat /\ Base64Length(size) = EncodedLength(size, "base64")
  BY CipherSize
<1>3. encoding # "base64" => EncodedLength(size, encoding) = 2 * size
  BY DEF EncodedLength
<1> QED
  BY <1>1, <1>2, <1>3

\* What is put in a bucket is as long as putFile foretells, or shorter by what its signature is
\* shorter than foretold, if it was asked to be signed; else it is longer.
LEMMA UploadSize ==
    ASSUME NEW file, Len(Loaded(file)) \in Nat, file.derBytes \in 0..72
    PROVE  LET length == Upload(file).text.length
           IN  /\ length \in Nat /\ Foretold(file) \in Nat
               /\ length <= Foretold(file) <=> file.sign # "false"
               /\ file.sign # "false" /\ file.privateKey # NoKey =>
                    Foretold(file) = length + 2 * (72 - file.derBytes)
<1>0. PICK n, encoding, der :
        n = Len(Loaded(file)) /\ encoding = file.encoding /\ der = file.derBytes
  OBVIOUS
<1>1. n \in Nat /\ der \in Nat /\ der <= 72
  <2>1. n \in Nat
    BY <1>0
  <2>2. der \in 0..72
    BY <1>0
  <2> QED
    BY <2>1, <2>2
<1>a. PICK wasString : wasString = (file.type = "string")
  OBVIOUS
<1>c. wasString \in BOOLEAN
  BY <1>a, Zenon
<1>b. PICK none, iv, key, mac : none = 0 /\ iv = 32 /\ key = 66 /\ mac = 64
  OBVIOUS
<1>d. none \in Nat /\ iv \in Nat /\ key \in Nat /\ mac \in Nat
  BY <1>b
<1>2. PICK z : z \in Nat /\ z = EncodedLength(SealedLength(n), encoding)
        /\ z = IF encoding = "base64" THEN Base64Length(AesCbcLength(n)) ELSE 2 * AesCbcLength(n)
  BY <1>1, EncodedSize
<1>3. PICK l, e : l = (IF wasString THEN 68 ELSE 69) + (IF encoding = "base64" THEN 30 ELSE 0)
        /\ e = IF encoding = "base64" THEN 22 ELSE 18
  OBVIOUS
<1>4. l \in Nat /\ e \in Nat /\ 18 <= e
  BY <1>3
<1>5. PICK shell : shell = Object(Members(0, 0, 0, 0, wasString, encoding))
  OBVIOUS
<1>6. IsText(shell) /\ shell.length = l /\ shell.escapes = e
  <2>1. IsText(shell)
          /\ shell.length = none + none + none + none + (IF wasString THEN 68 ELSE 69)
                              + (IF encoding = "base64" THEN 30 ELSE 0)
          /\ shell.escapes = IF encoding = "base64" THEN 22 ELSE 18
    BY ONLY <1>5, <1>b, <1>c, <1>d, MembersText
  <2> QED
    BY <1>3, <1>b, <2>1
<1>7. PICK text : text = Object(Members(32, 66, 64, z, wasString, encoding))
  OBVIOUS
<1>8. IsText(text) /\ text.length = 162 + z + l /\ text.escapes = e
  <2>1. IsText(text)
          /\ text.length = iv + key + mac + z + (IF wasString THEN 68 ELSE 69)
                              + (IF encoding = "base64" THEN 30 ELSE 0)
          /\ text.escapes = IF encoding = "base64" THEN 22 ELSE 18
    BY ONLY <1>2, <1>7, <1>b, <1>c, <1>d, MembersText
  <2> QED
    BY <1>2, <1>3, <1>b, <2>1
<1>9. SignedObject(0, 0, shell).length = l + e + 47
  <2>1. PICK signed, zero : signed = SignedObject(none, zero, shell) /\ zero = 0
    OBVIOUS
  <2>2. zero \in Nat
    BY <2>1
  <2>3. PICK length, escapes : length = shell.length /\ escapes = shell.escapes
    OBVIOUS
  <2>4. length \in Nat /\ escapes \in Nat /\ length = l /\ escapes = e
    BY <1>4, <1>6, <2>3
  <2>5. signed.length = none + zero + length + escapes + 47
    BY ONLY <1>6, <1>d, <2>1, <2>2, <2>3, <2>4, SignedText
  <2> QED
    BY <1>4, <1>b, <2>1, <2>4, <2>5
<1>10. Foretold(file) =
         IF file.sign # "false" THEN l + e + 47 + 144 + 66 + 162 + z ELSE l + 162 + z
  <2>1. Foretold(file) = JsonStringLength(n, wasString, file.sign # "false", encoding)
    BY <1>0, <1>a DEF Foretold
  <2>2. JsonStringLength(n, wasString, file.sign # "false", encoding) =
          IF file.sign # "false" THEN SignedObject(0, 0, shell).length + 144 + 66 + (32 + 66 + 64) + z
          ELSE shell.length + (32 + 66 + 64) + z
    BY <1>2, <1>5 DEF JsonStringLength
  <2> QED
    BY <1>2, <1>4, <1>6, <1>9, <2>1, <2>2
<1>11. PICK object : object = EncryptECIES(PublicKeyOf(file), Loaded(file), wasString, encoding)
  OBVIOUS
<1>12. object.text = text
  BY <1>0, <1>2, <1>7, <1>11 DEF EncryptECIES, Json
<1>13. PICK length : length = Upload(file).text.length
  OBVIOUS
<1>14. CASE file.privateKey = NoKey
  <2>1. Upload(file) = Json(object, Quoted(text))
    BY <1>0, <1>a, <1>11, <1>12, <1>14 DEF Upload
  <2>2. Upload(file).text = Quoted(text)
    BY <2>1 DEF Json
  <2>3. Quoted(text).length = text.length + text.escapes + 2
    BY <1>8, QuotedText
  <2>4. length = 162 + z + l + e + 2
    BY <1>2, <1>4, <1>8, <1>13, <2>2, <2>3
  <2> QED
    BY ONLY <1>2, <1>4, <1>10, <1>13, <1>14, <2>4
<1>15. CASE file.privateKey # NoKey
  <2>1. Upload(file) =
          Json([signature |-> <<object, file.privateKey>>, publicKey |-> file.privateKey,
                cipherText |-> object], SignedObject(2 * der, 66, text))
    BY <1>0, <1>a, <1>11, <1>12, <1>15 DEF Upload
  <2>2. Upload(file).text = SignedObject(2 * der, 66, text)
    BY <2>1 DEF Json
  <2>3. PICK twice : twice = 2 * der /\ twice \in Nat
    BY <1>1
  <2>8. PICK signed, size, escapes :
          signed = SignedObject(twice, key, text) /\ size = text.length /\ escapes = text.escapes
    OBVIOUS
  <2>9. size \in Nat /\ size = 162 + z + l /\ escapes \in Nat /\ escapes = e
    BY <1>2, <1>4, <1>8, <2>8
  <2>4. signed.length = twice + key + size + escapes + 47
    BY ONLY <1>8, <1>d, <2>3, <2>8, <2>9, SignedText
  <2>5. length = 2 * der + 66 + (162 + z + l) + e + 47
    BY <1>1, <1>2, <1>4, <1>13, <1>b, <2>2, <2>3, <2>4, <2>8, <2>9
  <2>6. PICK foretold, sign : foretold = Foretold(file) /\ sign = file.sign
    OBVIOUS
  <2>7. length \in Nat /\ foretold \in Nat /\ (length <= foretold <=> sign # "false")
          /\ (sign # "false" => foretold = length + 2 * (72 - der))
    BY ONLY <1>1, <1>2, <1>4, <1>10, <2>5, <2>6
  <2> QED
    BY ONLY <1>0, <1>13, <1>15, <2>6, <2>7
<1> QED
  BY <1>14, <1>15

LEMMA TextDecodes ==
    ASSUME NEW string \in Seq(Characters), ~IsMarked(string)
    PROVE  BytesToUtf8(Utf8ToBytes(string)) = string
BY Utf8Decoded DEF WithoutMark

LEMMA LoadedLength ==
    ASSUME NEW file, IsFile(file)
    PROVE  Len(Loaded(file)) \in Nat
<1>1. CASE file.type = "string"
  <2>1. file.content \in Seq(Characters)
    BY <1>1 DEF IsFile
  <2>2. Utf8ToBytes(file.content) \in Seq(0..255)
    BY <2>1, Utf8Type
  <2> QED
    BY <1>1, <2>2 DEF Loaded
<1>2. CASE file.type # "string"
  <2>1. PICK content : content = file.content /\ content \in Seq(Int)
    BY <1>2 DEF IsFile
  <2>2. CASE file.type = "octets"
    BY <2>1, <2>2 DEF Loaded
  <2>3. CASE file.type # "octets"
    BY <1>2, <2>1, <2>3 DEF Loaded
  <2> QED
    BY <2>2, <2>3
<1> QED
  BY <1>1, <1>2

LEMMA SameSecret ==
    ASSUME NEW a, NEW b, NEW c
    PROVE  {a, c} = {c, b} <=> a = b
OBVIOUS

\* What getFile makes of what putFile put there.
LEMMA UploadRead ==
    ASSUME NEW file, NEW read, read = Download(file, Upload(file))
    PROVE  /\ read.ok <=> /\ file.privateKey # NoKey /\ file.privateKey = file.owner
                          /\ file.reader = PublicKeyOf(file)
           /\ read.ok => read = Read(IF file.type = "string"
                                     THEN [type |-> "string", content |-> BytesToUtf8(Loaded(file))]
                                     ELSE [type |-> "bytes", content |-> Loaded(file)], <<>>)
<1>1. PICK object :
        object = EncryptECIES(PublicKeyOf(file), Loaded(file), file.type = "string", file.encoding)
  OBVIOUS
<1>2. PICK secret, text : secret = {Ephemeral, PublicKeyOf(file)} /\ text = object.text
  OBVIOUS
<1>3. PICK cipherText : cipherText = [secret |-> secret, plain |-> Loaded(file)]
  OBVIOUS
<1>4. object = [value |->
        [iv |-> "iv", ephemeralPK |-> Ephemeral, cipherText |-> cipherText,
         mac |-> Mac(secret, "iv", Ephemeral, cipherText), wasString |-> file.type = "string"],
        text |-> text]
  BY <1>1, <1>2, <1>3 DEF EncryptECIES, Json
<1>5. CASE file.privateKey = NoKey
  <2>1. Upload(file).value = object
    BY <1>1, <1>5 DEF Upload, Json
  <2>2. "signature" \notin DOMAIN object /\ "ephemeralPK" \notin DOMAIN object
    BY <1>4
  <2>3. read = Throws
    BY <2>1, <2>2 DEF Download, DecryptContent, DecryptECIES
  <2> QED
    BY <1>5, <2>3 DEF Throws
<1>6. CASE file.privateKey # NoKey
  <2>1. PICK value : value = [signature |-> <<object, file.privateKey>>,
                              publicKey |-> file.privateKey, cipherText |-> object]
    OBVIOUS
  <2>2. Upload(file).value = value
    BY <1>1, <1>6, <2>1 DEF Upload, Json
  <2>3. /\ "signature" \in DOMAIN value /\ value.publicKey = file.privateKey
        /\ value.cipherText = object
        /\ value.signature = <<value.cipherText, value.publicKey>>
    BY <2>1
  <2>4. read = IF file.privateKey = file.owner THEN DecryptECIES(file.reader, object.value)
               ELSE Throws
    BY <2>2, <2>3 DEF Download, DecryptContent
  <2>5. PICK inner : inner = object.value
    OBVIOUS
  <2>6. /\ "ephemeralPK" \in DOMAIN inner /\ inner.ephemeralPK = Ephemeral /\ inner.iv = "iv"
        /\ inner.cipherText = cipherText /\ inner.wasString = (file.type = "string")
        /\ inner.mac = Mac(secret, "iv", Ephemeral, cipherText)
    BY <1>4, <2>5
  <2>7. Mac({file.reader, Ephemeral}, "iv", Ephemeral, cipherText) = inner.mac
          <=> file.reader = PublicKeyOf(file)
    <3>1. {file.reader, Ephemeral} = secret <=> file.reader = PublicKeyOf(file)
      BY <1>2, SameSecret
    <3> QED
      BY <2>6, <3>1 DEF Mac
  <2>8. cipherText.plain = Loaded(file)
    BY <1>3
  <2>9. DecryptECIES(file.reader, inner) =
          IF file.reader # PublicKeyOf(file) THEN Throws
          ELSE Read(IF file.type = "string"
                    THEN [type |-> "string", content |-> BytesToUtf8(Loaded(file))]
                    ELSE [type |-> "bytes", content |-> Loaded(file)], <<>>)
    BY <2>6, <2>7, <2>8 DEF DecryptECIES
  <2> QED
    BY <1>6, <2>4, <2>5, <2>9 DEF Throws, Read
<1> QED
  BY <1>5, <1>6

LEMMA FileRead ==
    ASSUME NEW file, IsFile(file), NEW decoded,
           decoded = DecodeText("file", file, Upload(file))
    PROVE  /\ decoded.ok <=> /\ file.privateKey # NoKey /\ file.privateKey = file.owner
                             /\ file.reader = PublicKeyOf(file)
           /\ decoded.ok =>
                 /\ Loaded(decoded.value) = Loaded(file) \/ Head(file.content) = Mark
                 /\ decoded.value.type = "string" <=> file.type = "string"
<1>1. PICK read : read = Download(file, Upload(file))
  OBVIOUS
<1>2. decoded = Then(read, LAMBDA fetched, r :
                  Read([file EXCEPT !.type = fetched.type, !.content = fetched.content], r))
  BY <1>1 DEF DecodeText
<1>3. decoded.ok <=> read.ok
  BY <1>2 DEF Then, Read, Throws
<1>4. ASSUME read.ok
      PROVE  /\ Loaded(decoded.value) = Loaded(file) \/ Head(file.content) = Mark
             /\ decoded.value.type = "string" <=> file.type = "string"
  <2>1. PICK type, content :
          /\ type = IF file.type = "string" THEN "string" ELSE "bytes"
          /\ content = IF file.type = "string" THEN BytesToUtf8(Loaded(file)) ELSE Loaded(file)
    OBVIOUS
  <2>2. read = Read([type |-> type, content |-> content], <<>>)
    BY <1>1, <1>4, <2>1, UploadRead
  <2>3. decoded.value = [file EXCEPT !.type = type, !.content = content]
    <3>1. read.value = [type |-> type, content |-> content]
      BY <2>2 DEF Read
    <3>2. decoded = Read([file EXCEPT !.type = read.value.type, !.content = read.value.content],
                         read.reader)
      BY <1>2, <1>4 DEF Then
    <3>3. decoded.value = [file EXCEPT !.type = read.value.type, !.content = read.value.content]
      BY <3>2 DEF Read
    <3> QED
      BY <3>1, <3>3
  <2>4. decoded.value.type = type /\ decoded.value.content = content
    BY <2>3 DEF IsFile
  <2>5. CASE file.type = "string"
    <3>1. file.content \in Seq(Characters) /\ Loaded(file) = Utf8ToBytes(file.content)
      BY <2>5 DEF IsFile, Loaded
    <3>2. Loaded(decoded.value) = Utf8ToBytes(content)
      BY <2>1, <2>4, <2>5 DEF Loaded
    <3>3. Head(file.content) # Mark => content = file.content
      BY <2>1, <2>5, <3>1, TextDecodes DEF IsMarked
    <3> QED
      BY <2>1, <2>4, <2>5, <3>1, <3>2, <3>3
  <2>6. CASE file.type # "string"
    BY <2>1, <2>4, <2>6 DEF Loaded
  <2> QED
    BY <2>5, <2>6
<1>5. read.ok <=> /\ file.privateKey # NoKey /\ file.privateKey = file.owner
                  /\ file.reader = PublicKeyOf(file)
  BY ONLY <1>1, UploadRead
<1> QED
  BY <1>3, <1>4, <1>5

\* An encrypted file has the size that putFile foretold, or at most that if it was asked to be
\* signed, and is read just by whom it is for, as it was written (put-file.ts, get-file.ts).
THEOREM UploadHolds == TextSpec => []UploadIsAsForetold
<1>1. ASSUME WireInv, sent.kind = "file", hops = 0 PROVE UploadIsAsForetold
  <2>1. IsWritten("file", sent.content) /\ wire = EncodeText("file", sent.content)
    BY <1>1 DEF WireInv, TextKinds
  <2>2. PICK i \in DOMAIN EncryptedFiles :
          MaySend(EncryptedFiles[i], MaxUploadBytes) /\ sent.content = EncryptedFiles[i]
    BY <2>1, TextsAssumption DEF IsWritten
  <2>3. PICK file : file = sent.content /\ IsFile(file) /\ MaySend(file, MaxUploadBytes)
    BY <2>2, EncryptedAssumption
  <2>4. wire = Upload(file)
    BY <2>1, <2>3 DEF EncodeText
  <2>5. PICK length, foretold : length = wire.text.length /\ foretold = Foretold(file)
    OBVIOUS
  <2>6. /\ length \in Nat /\ foretold \in Nat
        /\ length <= foretold <=> file.sign # "false"
        /\ file.sign # "false" /\ file.privateKey # NoKey =>
              foretold = length + 2 * (72 - file.derBytes)
    <3>1. Len(Loaded(file)) \in Nat /\ file.derBytes \in 0..72
      BY <2>3, LoadedLength DEF IsFile
    <3> QED
      BY <2>4, <2>5, <3>1, UploadSize
  <2>7. file.sign # "false" /\ file.encoding # "omitted" => length <= MaxUploadBytes
    <3>1. file.encoding # "omitted" => foretold <= MaxUploadBytes
      BY <2>3, <2>5 DEF MaySend
    <3> QED
      BY <2>6, <3>1, EncryptedAssumption
  <2>8. ASSUME HasRead({"file"})
        PROVE  /\ got.ok <=> /\ file.privateKey # NoKey /\ file.privateKey = file.owner
                             /\ file.reader = PublicKeyOf(file)
               /\ got.ok => /\ Loaded(got.value) = Loaded(file) \/ Head(file.content) = Mark
                            /\ got.value.type = "string" <=> file.type = "string"
    <3>1. PICK decoded : decoded = DecodeText("file", file, wire)
      OBVIOUS
    <3>2. got = Outcome(decoded)
      BY <1>1, <2>3, <2>8, <3>1, GotIsDecoded DEF TextKinds
    <3>3. (got.ok <=> decoded.ok) /\ (decoded.ok => got.value = decoded.value)
      BY <3>2 DEF Outcome
    <3> QED
      BY <2>3, <2>4, <3>1, <3>3, FileRead
  <2> QED
    BY <2>3, <2>5, <2>6, <2>7, <2>8 DEF UploadIsAsForetold
<1>2. WireInv => UploadIsAsForetold
  BY <1>1 DEF UploadIsAsForetold
<1> QED
  BY <1>2, WireHolds, PTL

-----------------------------------------------------------------------------
(* Sign-in messages.                                                        *)

LineOf(label, value) == [label |-> label, value |-> value]

LabelSet ==
    {"header", "address", "", "text", "URI", "Version", "Chain ID", "Nonce", "Issued At",
     "Expiration Time", "Not Before", "Request ID", "Resources", "-"}

LineSet(V) == [label : LabelSet, value : V]

Elements(lines) == {lines[i] : i \in DOMAIN lines}

LEMMA LabelIsString == ASSUME NEW V PROVE \A line \in LineSet(V) : line.label \in LabelSet
BY DEF LineSet

LEMMA LineIsLine ==
    ASSUME NEW V, NEW label \in LabelSet, NEW value \in V, NEW line, line = LineOf(label, value)
    PROVE  line \in LineSet(V) /\ line.label = label /\ line.value = value
BY DEF LineSet, LineOf

AreLines(V, lines) == lines \in Seq(LineSet(V))

LEMMA OneLine ==
    ASSUME NEW V, NEW label \in LabelSet, NEW value \in V
    PROVE  /\ AreLines(V, Line(label, value))
           /\ Elements(Line(label, value)) = {LineOf(label, value)}
           /\ Labels(Line(label, value)) = <<label>>
<1>1. PICK line : line = LineOf(label, value) /\ line \in LineSet(V) /\ line.label = label
  BY LineIsLine
<1>2. Line(label, value) = <<line>>
  BY <1>1 DEF Line, LineOf
<1>3. <<line>> \in Seq(LineSet(V)) /\ Elements(<<line>>) = {line} /\ Labels(<<line>>) = <<label>>
  BY <1>1 DEF Elements, Labels
<1> QED
  BY <1>1, <1>2, <1>3 DEF AreLines

LEMMA NoLine ==
    ASSUME NEW V
    PROVE  AreLines(V, <<>>) /\ Elements(<<>>) = {} /\ Labels(<<>>) = <<>>
BY DEF AreLines, Elements, Labels

GivenLines(label, value) == IF value = Missing THEN {} ELSE {LineOf(label, value)}

GivenLabel(label, value) == IF value = Missing THEN <<>> ELSE <<label>>

LEMMA GivenLine ==
    ASSUME NEW V, NEW label \in LabelSet, NEW value \in V
    PROVE  /\ AreLines(V, Given(label, value))
           /\ Elements(Given(label, value)) = GivenLines(label, value)
           /\ Labels(Given(label, value)) = GivenLabel(label, value)
BY OneLine, NoLine DEF Given, GivenLines, GivenLabel

LEMMA LabelsOf ==
    ASSUME NEW S, \A x \in S : x.label \in LabelSet, NEW s \in Seq(S)
    PROVE  /\ Labels(s) \in Seq(LabelSet) /\ Len(Labels(s)) = Len(s)
           /\ \A i \in 1..Len(s) : Labels(s)[i] = s[i].label
<1>1. \A i \in 1..Len(s) : s[i].label \in LabelSet
  OBVIOUS
<1> QED
  BY <1>1 DEF Labels

Joint(s, t) == s \o t

AreJoined(lines, s, t) ==
    /\ Elements(lines) = Elements(s) \cup Elements(t)
    /\ Labels(lines) = Joint(Labels(s), Labels(t))

LEMMA MoreLines ==
    ASSUME NEW V, NEW s, NEW t, NEW lines, AreLines(V, s), AreLines(V, t), lines = Joint(s, t)
    PROVE  AreLines(V, lines) /\ AreJoined(lines, s, t)
<1>0. lines = s \o t /\ s \in Seq(LineSet(V)) /\ t \in Seq(LineSet(V))
  BY DEF Joint, AreLines
<1>1. PICK S : S = LineSet(V)
  OBVIOUS
<1>2. PICK n, m : n = Len(s) /\ m = Len(t)
  OBVIOUS
<1>3. /\ n \in Nat /\ m \in Nat /\ s \in Seq(S) /\ t \in Seq(S) /\ lines \in Seq(S) /\ Len(lines) = n + m
      /\ DOMAIN s = 1..n /\ DOMAIN t = 1..m /\ DOMAIN lines = 1..(n + m)
      /\ \A i \in 1..n : lines[i] = s[i]
      /\ \A i \in 1..m : lines[n + i] = t[i]
  BY <1>0, <1>1, <1>2
<1>4. \A i \in 1..(n + m) : i \in 1..n \/ (i - n \in 1..m /\ i = n + (i - n))
  BY <1>3
<1>5. Elements(lines) = Elements(s) \cup Elements(t)
  <2>1. ASSUME NEW i \in 1..(n + m) PROVE lines[i] \in Elements(s) \cup Elements(t)
    BY <1>3, <1>4 DEF Elements
  <2>2. ASSUME NEW i \in 1..n PROVE s[i] \in Elements(lines)
    BY <1>3 DEF Elements
  <2>3. ASSUME NEW i \in 1..m PROVE t[i] \in Elements(lines)
    <3>1. n + i \in 1..(n + m) /\ t[i] = lines[n + i]
      BY <1>3
    <3> QED
      BY <1>3, <3>1 DEF Elements
  <2>4. /\ Elements(lines) = {lines[i] : i \in 1..(n + m)}
        /\ Elements(s) = {s[i] : i \in 1..n} /\ Elements(t) = {t[i] : i \in 1..m}
    BY <1>3 DEF Elements
  <2> QED
    BY <2>1, <2>2, <2>3, <2>4
<1>6. Labels(lines) = Joint(Labels(s), Labels(t))
  <2>1. PICK a, b, c : a = Labels(s) /\ b = Labels(t) /\ c = Labels(lines)
    OBVIOUS
  <2>2. \A x \in S : x.label \in LabelSet
    BY <1>1, LabelIsString
  <2>3. s \in Seq(S) /\ t \in Seq(S)
    BY <1>3
  <2>4. a \in Seq(LabelSet) /\ Len(a) = n /\ \A i \in 1..n : a[i] = s[i].label
    BY <1>2, <1>3, <2>1, <2>2, <2>3, LabelsOf
  <2>5. b \in Seq(LabelSet) /\ Len(b) = m /\ \A i \in 1..m : b[i] = t[i].label
    BY <1>2, <1>3, <2>1, <2>2, <2>3, LabelsOf
  <2>6. c \in Seq(LabelSet) /\ Len(c) = n + m /\ \A i \in 1..(n + m) : c[i] = lines[i].label
    BY <1>3, <2>1, <2>2, LabelsOf
  <2>7. \A i \in 1..n : c[i] = a[i]
    <3>1. \A i \in 1..n : i \in 1..(n + m) /\ lines[i] = s[i]
      BY <1>3
    <3> QED
      BY <2>4, <2>6, <3>1
  <2>8. \A i \in 1..m : c[n + i] = b[i]
    <3>1. \A i \in 1..m : n + i \in 1..(n + m) /\ lines[n + i] = t[i]
      BY <1>3
    <3> QED
      BY <2>5, <2>6, <3>1
  <2>9. n \in Nat /\ m \in Nat
    BY <1>3
  <2>10. PICK W : W = LabelSet
    OBVIOUS
  <2>11. a \in Seq(W) /\ b \in Seq(W) /\ c \in Seq(W) /\ Len(a) = n /\ Len(b) = m /\ Len(c) = n + m
    BY <2>4, <2>5, <2>6, <2>10
  <2>12. PICK d : d = a \o b
    OBVIOUS
  <2>13. d \in Seq(W) /\ Len(d) = n + m
           /\ \A i \in 1..(n + m) : d[i] = IF i <= n THEN a[i] ELSE b[i - n]
    BY ONLY <2>9, <2>11, <2>12, ConcatProperties
  <2>14. ASSUME NEW i \in 1..(n + m) PROVE c[i] = d[i]
    <3>1. CASE i <= n
      BY <2>7, <2>9, <2>13, <3>1
    <3>2. CASE n < i
      <4>1. i - n \in 1..m /\ n + (i - n) = i
        BY <2>9, <3>2
      <4> QED
        BY <2>8, <2>9, <2>13, <3>2, <4>1
    <3> QED
      BY <2>9, <3>1, <3>2
  <2> QED
    BY <2>1, <2>11, <2>12, <2>13, <2>14, SeqEqual DEF Joint
<1> QED
  BY <1>1, <1>3, <1>5, <1>6 DEF AreLines, AreJoined

LEMMA NoItems ==
    ASSUME NEW V, NEW items
    PROVE  \A s \in Seq(LineSet(V)) :
              (\A line \in Elements(s) : line.label # "-") => Itemizing!Fold(0, items, s) = items
<1> DEFINE T == {s \in Seq(LineSet(V)) :
                   (\A line \in Elements(s) : line.label # "-") => Itemizing!Fold(0, items, s) = items}
<1>1. <<>> \in T
  BY Itemizing!FoldEmpty
<1>2. ASSUME NEW s \in Seq(LineSet(V)), NEW x \in LineSet(V), s \in T
      PROVE  Append(s, x) \in T
  <2> SUFFICES ASSUME \A line \in Elements(Append(s, x)) : line.label # "-"
               PROVE  Itemizing!Fold(0, items, Append(s, x)) = items
    OBVIOUS
  <2>1. s[1] = s[1] /\ Elements(s) \subseteq Elements(Append(s, x)) /\ x \in Elements(Append(s, x))
    BY DEF Elements
  <2>2. Itemizing!Fold(0, items, Append(s, x)) = KeepItem(0, Itemizing!Fold(0, items, s), x)
    BY Itemizing!FoldAppend
  <2>3. Itemizing!Fold(0, items, s) = items
    BY <1>2, <2>1
  <2> QED
    BY <2>1, <2>2, <2>3 DEF KeepItem
<1>3. \A s \in Seq(LineSet(V)) : s \in T
  <2> HIDE DEF T
  <2> QED
    BY <1>1, <1>2, Itemizing!SequenceInduction
<1> QED
  BY <1>3

ItemLines(resources) == [i \in DOMAIN resources |-> [label |-> "-", value |-> resources[i]]]

LEMMA AllItems ==
    ASSUME NEW V
    PROVE  \A resources \in Seq(V) :
              /\ ItemLines(resources) \in Seq(LineSet(V))
              /\ Itemizing!Fold(0, <<>>, ItemLines(resources)) = resources
<1> DEFINE T == {resources \in Seq(V) :
                   /\ ItemLines(resources) \in Seq(LineSet(V))
                   /\ Itemizing!Fold(0, <<>>, ItemLines(resources)) = resources}
<1>1. <<>> \in T
  BY Itemizing!FoldEmpty DEF ItemLines
<1>2. ASSUME NEW s \in Seq(V), NEW x \in V, s \in T
      PROVE  Append(s, x) \in T
  <2>1. PICK line : line = LineOf("-", x)
    OBVIOUS
  <2>2. line \in LineSet(V) /\ line.label = "-" /\ line.value = x
    <3>1. PICK label : label = "-" /\ label \in LabelSet
      BY DEF LabelSet
    <3> QED
      BY <2>1, <3>1, LineIsLine
  <2>3. ItemLines(Append(s, x)) = Append(ItemLines(s), line)
    BY <2>1 DEF ItemLines, LineOf
  <2>4. ItemLines(s) \in Seq(LineSet(V)) /\ Itemizing!Fold(0, <<>>, ItemLines(s)) = s
    BY <1>2
  <2>5. Itemizing!Fold(0, <<>>, Append(ItemLines(s), line)) = Append(s, x)
    <3>1. Itemizing!Fold(0, <<>>, Append(ItemLines(s), line)) = KeepItem(0, s, line)
      BY <2>2, <2>4, Itemizing!FoldAppend
    <3> QED
      BY <2>2, <3>1 DEF KeepItem
  <2>6. Append(ItemLines(s), line) \in Seq(LineSet(V)) /\ Append(s, x) \in Seq(V)
    BY <2>2, <2>4
  <2> QED
    BY <2>3, <2>5, <2>6
<1>3. \A s \in Seq(V) : s \in T
  <2> HIDE DEF T
  <2> QED
    BY <1>1, <1>2, Itemizing!SequenceInduction
<1> QED
  BY <1>3

LEMMA ValueOfLine ==
    ASSUME NEW lines, NEW label, NEW value,
           {line \in Elements(lines) : line.label = label} = {LineOf(label, value)}
    PROVE  HasLabel(lines, label) /\ ValueAt(lines, label) = value
<1>1. PICK i \in DOMAIN lines : lines[i] = LineOf(label, value)
  BY DEF Elements
<1>2. lines[i].label = label
  BY <1>1 DEF LineOf
<1>3. PICK j : j = CHOOSE k \in DOMAIN lines : lines[k].label = label
  OBVIOUS
<1>4. j \in DOMAIN lines /\ lines[j].label = label
  BY <1>2, <1>3
<1>5. lines[j] = LineOf(label, value)
  BY <1>4 DEF Elements
<1>6. lines[j].value = value
  BY <1>5 DEF LineOf
<1> QED
  BY <1>2, <1>3, <1>6 DEF HasLabel, ValueAt

LEMMA ValueOf ==
    ASSUME NEW lines, NEW label, NEW value,
           {line \in Elements(lines) : line.label = label} = GivenLines(label, value)
    PROVE  (HasLabel(lines, label) <=> value # Missing) /\ ValueAt(lines, label) = value
<1>1. CASE value = Missing
  <2>1. ~HasLabel(lines, label)
    BY <1>1 DEF GivenLines, HasLabel, Elements
  <2> QED
    BY <1>1, <2>1 DEF ValueAt
<1>2. CASE value # Missing
  BY <1>2, ValueOfLine DEF GivenLines
<1> QED
  BY <1>1, <1>2

StatementLabels(statement) ==
    IF statement = Missing THEN <<>>
    ELSE IF statement \in OneLiners THEN <<"text">> ELSE <<"text", "text">>

LEMMA OneAndOne == ASSUME NEW a, NEW b PROVE Joint(<<a>>, <<b>>) = <<a, b>>
<1>1. PICK S, s, t, c : S = {a, b} /\ s = <<a>> /\ t = <<b>> /\ c = <<a, b>>
  OBVIOUS
<1>2. /\ s \in Seq(S) /\ Len(s) = 1 /\ s[1] = a
      /\ t \in Seq(S) /\ Len(t) = 1 /\ t[1] = b
      /\ c \in Seq(S) /\ Len(c) = 2 /\ c[1] = a /\ c[2] = b
  BY <1>1
<1>3. PICK d : d = s \o t
  OBVIOUS
<1>4. d \in Seq(S) /\ Len(d) = 2 /\ d[1] = a /\ d[2] = b
  <2>1. /\ d \in Seq(S) /\ Len(d) = Len(s) + Len(t)
        /\ \A i \in 1..(Len(s) + Len(t)) : d[i] = IF i <= Len(s) THEN s[i] ELSE t[i - Len(s)]
    BY <1>2, <1>3, ConcatProperties
  <2> QED
    BY <1>2, <2>1
<1>5. \A i \in 1..2 : c[i] = d[i]
  BY <1>2, <1>4
<1> QED
  BY <1>1, <1>2, <1>3, <1>4, <1>5, SeqEqual DEF Joint

LEMMA StatementLine ==
    ASSUME NEW V, NEW statement \in V, "" \in V
    PROVE  /\ AreLines(V, StatementLines(statement))
           /\ Elements(StatementLines(statement)) =
                {LineOf("", "")} \cup GivenLines("text", statement)
           /\ Labels(StatementLines(statement)) =
                Joint(Joint(<<"">>, StatementLabels(statement)), <<"">>)
<1>1. PICK blank : blank = Blank
  OBVIOUS
<1>2. AreLines(V, blank) /\ Elements(blank) = {LineOf("", "")} /\ Labels(blank) = <<"">>
  BY <1>1, OneLine DEF Blank, LabelSet
<1>3. PICK text : text = Line("text", statement)
  OBVIOUS
<1>4. /\ AreLines(V, text) /\ Elements(text) = {LineOf("text", statement)}
      /\ Labels(text) = <<"text">>
  BY <1>3, OneLine DEF LabelSet
<1>5. PICK twice : twice = Joint(text, text)
  OBVIOUS
<1>6. /\ AreLines(V, twice) /\ Elements(twice) = {LineOf("text", statement)}
      /\ Labels(twice) = <<"text", "text">>
  <2>1. AreLines(V, twice) /\ AreJoined(twice, text, text)
    BY <1>4, <1>5, MoreLines
  <2>2. Joint(<<"text">>, <<"text">>) = <<"text", "text">>
    BY OneAndOne
  <2> QED
    BY <1>4, <2>1, <2>2 DEF AreJoined
<1>7. PICK said : said = CASE statement = Missing -> <<>>
                           [] statement \in OneLiners -> text
                           [] OTHER -> twice
  OBVIOUS
<1>8. /\ AreLines(V, said) /\ Elements(said) = GivenLines("text", statement)
      /\ Labels(said) = StatementLabels(statement)
  <2>1. CASE statement = Missing
    <3>1. said = <<>>
      BY <1>7, <2>1, SignInAssumption
    <3> QED
      BY <2>1, <3>1, NoLine DEF GivenLines, StatementLabels
  <2>2. CASE statement # Missing /\ statement \in OneLiners
    BY <1>4, <1>7, <2>2 DEF GivenLines, StatementLabels
  <2>3. CASE statement # Missing /\ statement \notin OneLiners
    BY <1>6, <1>7, <2>3 DEF GivenLines, StatementLabels
  <2> QED
    BY <2>1, <2>2, <2>3
<1>9. PICK front : front = Joint(blank, said)
  OBVIOUS
<1>10. AreLines(V, front) /\ AreJoined(front, blank, said)
  BY <1>2, <1>8, <1>9, MoreLines
<1>11. PICK all : all = Joint(front, blank)
  OBVIOUS
<1>12. AreLines(V, all) /\ AreJoined(all, front, blank)
  BY <1>2, <1>10, <1>11, MoreLines
<1>13. all = StatementLines(statement)
  BY <1>1, <1>3, <1>5, <1>7, <1>9, <1>11 DEF StatementLines, Joint
<1> QED
  BY <1>2, <1>8, <1>10, <1>12, <1>13 DEF AreJoined

LEMMA LabelOfLine == ASSUME NEW label, NEW value PROVE LineOf(label, value).label = label
BY DEF LineOf

LEMMA HasLine ==
    ASSUME NEW lines, NEW label
    PROVE  HasLabel(lines, label) <=> \E line \in Elements(lines) : line.label = label
BY DEF HasLabel, Elements

\* The fields of a message, and no field.
FieldsIn(V, m) ==
    /\ {"", m.domain, m.address, m.statement, m.uri, m.version, m.chainId, m.nonce, m.issuedAt,
        m.expirationTime, m.notBefore, m.requestId} \subseteq V
    /\ m.resources # Missing => m.resources \in Seq(V)

\* What toMessage writes before the resources.
HeadLines(m) ==
    Line("header", m.domain) \o Line("address", m.address) \o StatementLines(m.statement)
    \o Line("URI", m.uri) \o Line("Version", m.version) \o Line("Chain ID", m.chainId)
    \o Line("Nonce", m.nonce) \o Line("Issued At", m.issuedAt)
    \o Given("Expiration Time", m.expirationTime) \o Given("Not Before", m.notBefore)
    \o Given("Request ID", m.requestId)

HeadLabels(m) ==
    LET s == Joint(Joint(Joint(<<"header">>, <<"address">>),
                   Joint(Joint(<<"">>, StatementLabels(m.statement)), <<"">>)), <<"URI">>)
        t == Joint(Joint(Joint(Joint(s, <<"Version">>), <<"Chain ID">>), <<"Nonce">>), <<"Issued At">>)
    IN  Joint(Joint(Joint(t, GivenLabel("Expiration Time", m.expirationTime)),
                    GivenLabel("Not Before", m.notBefore)), GivenLabel("Request ID", m.requestId))

HeadElements(m) ==
    {LineOf("header", m.domain), LineOf("address", m.address), LineOf("", ""),
     LineOf("URI", m.uri), LineOf("Version", m.version), LineOf("Chain ID", m.chainId),
     LineOf("Nonce", m.nonce), LineOf("Issued At", m.issuedAt)}
    \cup GivenLines("text", m.statement) \cup GivenLines("Expiration Time", m.expirationTime)
    \cup GivenLines("Not Before", m.notBefore) \cup GivenLines("Request ID", m.requestId)

LEMMA HeadRead ==
    ASSUME NEW m, NEW V, FieldsIn(V, m)
    PROVE  /\ AreLines(V, HeadLines(m)) /\ Elements(HeadLines(m)) = HeadElements(m)
           /\ Labels(HeadLines(m)) = HeadLabels(m)
<1>1. PICK p1 : p1 = Line("header", m.domain)
  OBVIOUS
<1>2. AreLines(V, p1) /\ Elements(p1) = {LineOf("header", m.domain)} /\ Labels(p1) = <<"header">>
  BY <1>1, OneLine DEF LabelSet, FieldsIn
<1>3. PICK p2 : p2 = Line("address", m.address)
  OBVIOUS
<1>4. AreLines(V, p2) /\ Elements(p2) = {LineOf("address", m.address)} /\ Labels(p2) = <<"address">>
  BY <1>3, OneLine DEF LabelSet, FieldsIn
<1>5. PICK p3 : p3 = StatementLines(m.statement)
  OBVIOUS
<1>6. /\ AreLines(V, p3) /\ Elements(p3) = {LineOf("", "")} \cup GivenLines("text", m.statement)
      /\ Labels(p3) = Joint(Joint(<<"">>, StatementLabels(m.statement)), <<"">>)
  BY <1>5, StatementLine DEF FieldsIn
<1>7. PICK p4 : p4 = Line("URI", m.uri)
  OBVIOUS
<1>8. AreLines(V, p4) /\ Elements(p4) = {LineOf("URI", m.uri)} /\ Labels(p4) = <<"URI">>
  BY <1>7, OneLine DEF LabelSet, FieldsIn
<1>9. PICK p5 : p5 = Line("Version", m.version)
  OBVIOUS
<1>10. AreLines(V, p5) /\ Elements(p5) = {LineOf("Version", m.version)} /\ Labels(p5) = <<"Version">>
  BY <1>9, OneLine DEF LabelSet, FieldsIn
<1>11. PICK p6 : p6 = Line("Chain ID", m.chainId)
  OBVIOUS
<1>12. AreLines(V, p6) /\ Elements(p6) = {LineOf("Chain ID", m.chainId)} /\ Labels(p6) = <<"Chain ID">>
  BY <1>11, OneLine DEF LabelSet, FieldsIn
<1>13. PICK p7 : p7 = Line("Nonce", m.nonce)
  OBVIOUS
<1>14. AreLines(V, p7) /\ Elements(p7) = {LineOf("Nonce", m.nonce)} /\ Labels(p7) = <<"Nonce">>
  BY <1>13, OneLine DEF LabelSet, FieldsIn
<1>15. PICK p8 : p8 = Line("Issued At", m.issuedAt)
  OBVIOUS
<1>16. AreLines(V, p8) /\ Elements(p8) = {LineOf("Issued At", m.issuedAt)} /\ Labels(p8) = <<"Issued At">>
  BY <1>15, OneLine DEF LabelSet, FieldsIn
<1>17. PICK p9 : p9 = Given("Expiration Time", m.expirationTime)
  OBVIOUS
<1>18. /\ AreLines(V, p9) /\ Elements(p9) = GivenLines("Expiration Time", m.expirationTime)
      /\ Labels(p9) = GivenLabel("Expiration Time", m.expirationTime)
  BY <1>17, GivenLine DEF LabelSet, FieldsIn
<1>19. PICK p10 : p10 = Given("Not Before", m.notBefore)
  OBVIOUS
<1>20. /\ AreLines(V, p10) /\ Elements(p10) = GivenLines("Not Before", m.notBefore)
      /\ Labels(p10) = GivenLabel("Not Before", m.notBefore)
  BY <1>19, GivenLine DEF LabelSet, FieldsIn
<1>21. PICK p11 : p11 = Given("Request ID", m.requestId)
  OBVIOUS
<1>22. /\ AreLines(V, p11) /\ Elements(p11) = GivenLines("Request ID", m.requestId)
      /\ Labels(p11) = GivenLabel("Request ID", m.requestId)
  BY <1>21, GivenLine DEF LabelSet, FieldsIn
<1>23. PICK s2 : s2 = Joint(p1, p2)
  OBVIOUS
<1>24. AreLines(V, s2) /\ AreJoined(s2, p1, p2)
  BY <1>23, <1>2, <1>4, MoreLines
<1>25. PICK s3 : s3 = Joint(s2, p3)
  OBVIOUS
<1>26. AreLines(V, s3) /\ AreJoined(s3, s2, p3)
  BY <1>25, <1>24, <1>6, MoreLines
<1>27. PICK s4 : s4 = Joint(s3, p4)
  OBVIOUS
<1>28. AreLines(V, s4) /\ AreJoined(s4, s3, p4)
  BY <1>27, <1>26, <1>8, MoreLines
<1>29. PICK s5 : s5 = Joint(s4, p5)
  OBVIOUS
<1>30. AreLines(V, s5) /\ AreJoined(s5, s4, p5)
  BY <1>29, <1>28, <1>10, MoreLines
<1>31. PICK s6 : s6 = Joint(s5, p6)
  OBVIOUS
<1>32. AreLines(V, s6) /\ AreJoined(s6, s5, p6)
  BY <1>31, <1>30, <1>12, MoreLines
<1>33. PICK s7 : s7 = Joint(s6, p7)
  OBVIOUS
<1>34. AreLines(V, s7) /\ AreJoined(s7, s6, p7)
  BY <1>33, <1>32, <1>14, MoreLines
<1>35. PICK s8 : s8 = Joint(s7, p8)
  OBVIOUS
<1>36. AreLines(V, s8) /\ AreJoined(s8, s7, p8)
  BY <1>35, <1>34, <1>16, MoreLines
<1>37. PICK s9 : s9 = Joint(s8, p9)
  OBVIOUS
<1>38. AreLines(V, s9) /\ AreJoined(s9, s8, p9)
  BY <1>37, <1>36, <1>18, MoreLines
<1>39. PICK s10 : s10 = Joint(s9, p10)
  OBVIOUS
<1>40. AreLines(V, s10) /\ AreJoined(s10, s9, p10)
  BY <1>39, <1>38, <1>20, MoreLines
<1>41. PICK s11 : s11 = Joint(s10, p11)
  OBVIOUS
<1>42. AreLines(V, s11) /\ AreJoined(s11, s10, p11)
  BY <1>41, <1>40, <1>22, MoreLines
<1>43. s11 = HeadLines(m)
  BY <1>1, <1>3, <1>5, <1>7, <1>9, <1>11, <1>13, <1>15, <1>17, <1>19, <1>21, <1>23, <1>25, <1>27, <1>29, <1>31, <1>33, <1>35, <1>37, <1>39, <1>41 DEF HeadLines, Joint
<1>44. Labels(s11) = HeadLabels(m)
  BY ONLY <1>2, <1>4, <1>6, <1>8, <1>10, <1>12, <1>14, <1>16, <1>18, <1>20, <1>22, <1>24, <1>26, <1>28, <1>30, <1>32, <1>34, <1>36, <1>38, <1>40, <1>42 DEF AreJoined, HeadLabels
<1>45. Elements(s11) = HeadElements(m)
  BY ONLY <1>2, <1>4, <1>6, <1>8, <1>10, <1>12, <1>14, <1>16, <1>18, <1>20, <1>22, <1>24, <1>26, <1>28, <1>30, <1>32, <1>34, <1>36, <1>38, <1>40, <1>42 DEF AreJoined, HeadElements
<1> QED
  BY <1>42, <1>43, <1>44, <1>45

LEMMA Dashes ==
    ASSUME NEW resources
    PROVE  Labels(ItemLines(resources)) = [i \in DOMAIN resources |-> "-"]
BY DEF Labels, ItemLines

TailLines(m) ==
    IF m.resources = Missing THEN <<>> ELSE Joint(Line("Resources", ""), ItemLines(m.resources))

TailLabels(m) ==
    IF m.resources = Missing THEN <<>>
    ELSE Joint(<<"Resources">>, [i \in DOMAIN m.resources |-> "-"])

LEMMA TailRead ==
    ASSUME NEW m, NEW V, FieldsIn(V, m)
    PROVE  /\ AreLines(V, TailLines(m)) /\ Labels(TailLines(m)) = TailLabels(m)
           /\ \A line \in Elements(TailLines(m)) : line.label \in {"Resources", "-"}
           /\ m.resources # Missing <=> \E line \in Elements(TailLines(m)) : line.label = "Resources"
           /\ Itemizing!Fold(0, <<>>, TailLines(m)) = IF m.resources = Missing THEN <<>> ELSE m.resources
<1>1. CASE m.resources = Missing
  <2>1. TailLines(m) = <<>> /\ TailLabels(m) = <<>>
    BY <1>1 DEF TailLines, TailLabels
  <2> QED
    BY <1>1, <2>1, NoLine, Itemizing!FoldEmpty
<1>2. CASE m.resources # Missing
  <2>1. PICK resources : resources = m.resources /\ resources \in Seq(V)
    BY <1>2 DEF FieldsIn
  <2>2. PICK first, rest, tail :
          first = Line("Resources", "") /\ rest = ItemLines(resources) /\ tail = Joint(first, rest)
    OBVIOUS
  <2>3. tail = TailLines(m)
    BY <1>2, <2>1, <2>2 DEF TailLines
  <2>4. PICK line : line = LineOf("Resources", "")
    OBVIOUS
  <2>5. line.label = "Resources"
    BY <2>4, LabelOfLine
  <2>6. AreLines(V, first) /\ Elements(first) = {line} /\ Labels(first) = <<"Resources">>
    BY <2>2, <2>4, OneLine DEF FieldsIn, LabelSet
  <2>7. /\ AreLines(V, rest) /\ Labels(rest) = [i \in DOMAIN resources |-> "-"]
        /\ Itemizing!Fold(0, <<>>, rest) = resources
    <3>1. Labels(rest) = [i \in DOMAIN resources |-> "-"]
      BY ONLY <2>2, Dashes
    <3>2. AreLines(V, rest) /\ Itemizing!Fold(0, <<>>, rest) = resources
      BY <2>1, <2>2, AllItems DEF AreLines
    <3> QED
      BY <3>1, <3>2
  <2>8. \A x \in Elements(rest) : x.label = "-"
    <3>1. ASSUME NEW x \in Elements(rest) PROVE x.label = "-"
      <4>1. DOMAIN rest = DOMAIN resources
              /\ \A i \in DOMAIN resources : rest[i] = [label |-> "-", value |-> resources[i]]
        BY <2>2 DEF ItemLines
      <4>2. PICK i \in DOMAIN resources : x = rest[i]
        BY <3>1, <4>1 DEF Elements
      <4>3. x = [label |-> "-", value |-> resources[i]]
        BY <4>1, <4>2
      <4> QED
        BY <4>3
    <3> QED
      BY <3>1
  <2>9. AreLines(V, tail) /\ AreJoined(tail, first, rest)
    <3>1. AreLines(V, first) /\ AreLines(V, rest) /\ tail = Joint(first, rest)
      BY <2>2, <2>6, <2>7
    <3> QED
      BY ONLY <3>1, MoreLines
  <2>10. Labels(tail) = TailLabels(m)
    BY <1>2, <2>1, <2>6, <2>7, <2>9 DEF AreJoined, TailLabels
  <2>11. \A x \in Elements(tail) : x = line \/ x \in Elements(rest)
    BY <2>6, <2>9 DEF AreJoined
  <2>12. line \in Elements(tail)
    BY <2>6, <2>9 DEF AreJoined
  <2>13. Itemizing!Fold(0, <<>>, tail) = resources
    <3>1. PICK S, a, b : S = LineSet(V) /\ a = first /\ b = rest /\ a \in Seq(S) /\ b \in Seq(S)
      BY <2>6, <2>7 DEF AreLines
    <3>2. Itemizing!Fold(0, <<>>, a \o b) = Itemizing!Fold(0, Itemizing!Fold(0, <<>>, a), b)
      BY ONLY <3>1, Itemizing!FoldConcat
    <3>3. \A x \in Elements(first) : x.label # "-"
      BY <2>5, <2>6
    <3>4. Itemizing!Fold(0, <<>>, a) = <<>>
      BY <3>1, <3>3, NoItems
    <3> QED
      BY <2>2, <2>7, <3>1, <3>2, <3>4 DEF Joint
  <2> QED
    BY <1>2, <2>1, <2>3, <2>5, <2>8, <2>9, <2>10, <2>11, <2>12, <2>13
<1> QED
  BY <1>1, <1>2

LEMMA LinesJoined == ASSUME NEW m PROVE Lines(m) = Joint(HeadLines(m), TailLines(m))
BY DEF Lines, HeadLines, TailLines, ItemLines, Joint

LEMMA HeadElement ==
    ASSUME NEW m, NEW line \in HeadElements(m)
    PROVE      \/ line = LineOf("", "")
               \/ line = LineOf("header", m.domain)
               \/ line = LineOf("address", m.address)
               \/ line = LineOf("URI", m.uri)
               \/ line = LineOf("Version", m.version)
               \/ line = LineOf("Chain ID", m.chainId)
               \/ line = LineOf("Nonce", m.nonce)
               \/ line = LineOf("Issued At", m.issuedAt)
               \/ m.statement # Missing /\ line = LineOf("text", m.statement)
               \/ m.expirationTime # Missing /\ line = LineOf("Expiration Time", m.expirationTime)
               \/ m.notBefore # Missing /\ line = LineOf("Not Before", m.notBefore)
               \/ m.requestId # Missing /\ line = LineOf("Request ID", m.requestId)
BY DEF HeadElements, GivenLines

LEMMA HeadLabelled ==
    ASSUME NEW m
    PROVE  /\ LineOf("", "").label = ""
           /\ LineOf("header", m.domain).label = "header"
           /\ LineOf("address", m.address).label = "address"
           /\ LineOf("URI", m.uri).label = "URI"
           /\ LineOf("Version", m.version).label = "Version"
           /\ LineOf("Chain ID", m.chainId).label = "Chain ID"
           /\ LineOf("Nonce", m.nonce).label = "Nonce"
           /\ LineOf("Issued At", m.issuedAt).label = "Issued At"
           /\ LineOf("text", m.statement).label = "text"
           /\ LineOf("Expiration Time", m.expirationTime).label = "Expiration Time"
           /\ LineOf("Not Before", m.notBefore).label = "Not Before"
           /\ LineOf("Request ID", m.requestId).label = "Request ID"
BY LabelOfLine

LEMMA HeadNoItem ==
    ASSUME NEW m, NEW line \in HeadElements(m)
    PROVE  line.label \notin {"Resources", "-"}
<1>1. CASE line = LineOf("", "")
  <2>1. line.label = ""
    BY <1>1, LabelOfLine
  <2> QED
    BY ONLY <2>1
<1>2. CASE line = LineOf("header", m.domain)
  <2>1. line.label = "header"
    BY <1>2, LabelOfLine
  <2> QED
    BY ONLY <2>1
<1>3. CASE line = LineOf("address", m.address)
  <2>1. line.label = "address"
    BY <1>3, LabelOfLine
  <2> QED
    BY ONLY <2>1
<1>4. CASE line = LineOf("URI", m.uri)
  <2>1. line.label = "URI"
    BY <1>4, LabelOfLine
  <2> QED
    BY ONLY <2>1
<1>5. CASE line = LineOf("Version", m.version)
  <2>1. line.label = "Version"
    BY <1>5, LabelOfLine
  <2> QED
    BY ONLY <2>1
<1>6. CASE line = LineOf("Chain ID", m.chainId)
  <2>1. line.label = "Chain ID"
    BY <1>6, LabelOfLine
  <2> QED
    BY ONLY <2>1
<1>7. CASE line = LineOf("Nonce", m.nonce)
  <2>1. line.label = "Nonce"
    BY <1>7, LabelOfLine
  <2> QED
    BY ONLY <2>1
<1>8. CASE line = LineOf("Issued At", m.issuedAt)
  <2>1. line.label = "Issued At"
    BY <1>8, LabelOfLine
  <2> QED
    BY ONLY <2>1
<1>9. CASE m.statement # Missing /\ line = LineOf("text", m.statement)
  <2>1. line.label = "text"
    BY <1>9, LabelOfLine
  <2> QED
    BY ONLY <2>1
<1>10. CASE m.expirationTime # Missing /\ line = LineOf("Expiration Time", m.expirationTime)
  <2>1. line.label = "Expiration Time"
    BY <1>10, LabelOfLine
  <2> QED
    BY ONLY <2>1
<1>11. CASE m.notBefore # Missing /\ line = LineOf("Not Before", m.notBefore)
  <2>1. line.label = "Not Before"
    BY <1>11, LabelOfLine
  <2> QED
    BY ONLY <2>1
<1>12. CASE m.requestId # Missing /\ line = LineOf("Request ID", m.requestId)
  <2>1. line.label = "Request ID"
    BY <1>12, LabelOfLine
  <2> QED
    BY ONLY <2>1
<1> QED
  BY HeadElement, <1>1, <1>2, <1>3, <1>4, <1>5, <1>6, <1>7, <1>8, <1>9, <1>10, <1>11, <1>12

LEMMA LinesRead ==
    ASSUME NEW m, NEW V, FieldsIn(V, m), NEW lines, lines = Lines(m)
    PROVE  /\ Labels(lines) = Joint(HeadLabels(m), TailLabels(m))
           /\ \A line \in HeadElements(m) : line \in Elements(lines)
           /\ \A line \in Elements(lines) :
                line \in HeadElements(m) \/ line.label \in {"Resources", "-"}
           /\ HasLabel(lines, "Resources") <=> m.resources # Missing
           /\ Items(lines) = IF m.resources = Missing THEN <<>> ELSE m.resources
<1>1. PICK head, tail : head = HeadLines(m) /\ tail = TailLines(m)
  OBVIOUS
<1>2. lines = Joint(head, tail)
  BY <1>1, LinesJoined
<1>3. AreLines(V, head) /\ Elements(head) = HeadElements(m) /\ Labels(head) = HeadLabels(m)
  BY <1>1, HeadRead
<1>4. /\ AreLines(V, tail) /\ Labels(tail) = TailLabels(m)
      /\ \A line \in Elements(tail) : line.label \in {"Resources", "-"}
      /\ m.resources # Missing <=> \E line \in Elements(tail) : line.label = "Resources"
      /\ Itemizing!Fold(0, <<>>, tail) = IF m.resources = Missing THEN <<>> ELSE m.resources
  BY <1>1, TailRead
<1>5. AreLines(V, lines) /\ AreJoined(lines, head, tail)
  BY <1>2, <1>3, <1>4, MoreLines
<1>6. \A line \in HeadElements(m) : line.label \notin {"Resources", "-"}
  BY HeadNoItem
<1>7. HasLabel(lines, "Resources") <=> m.resources # Missing
  BY <1>3, <1>4, <1>5, <1>6, HasLine DEF AreJoined
<1>8. Items(lines) = Itemizing!Fold(0, <<>>, tail)
  <2>1. PICK S, a, b : S = LineSet(V) /\ a = head /\ b = tail /\ a \in Seq(S) /\ b \in Seq(S)
    BY <1>3, <1>4 DEF AreLines
  <2>2. Itemizing!Fold(0, <<>>, a \o b) = Itemizing!Fold(0, Itemizing!Fold(0, <<>>, a), b)
    BY ONLY <2>1, Itemizing!FoldConcat
  <2>3. Itemizing!Fold(0, <<>>, a) = <<>>
    BY <1>3, <1>6, <2>1, NoItems
  <2> QED
    BY <1>2, <2>1, <2>2, <2>3 DEF Joint, Items
<1> QED
  BY <1>3, <1>4, <1>5, <1>7, <1>8 DEF AreJoined

LEMMA HeadOnly ==
    ASSUME NEW m, NEW line \in HeadElements(m)
    PROVE  /\ line.label = "header" => line = LineOf("header", m.domain)
           /\ line.label = "address" => line = LineOf("address", m.address)
           /\ line.label = "URI" => line = LineOf("URI", m.uri)
           /\ line.label = "Version" => line = LineOf("Version", m.version)
           /\ line.label = "Chain ID" => line = LineOf("Chain ID", m.chainId)
           /\ line.label = "Nonce" => line = LineOf("Nonce", m.nonce)
           /\ line.label = "Issued At" => line = LineOf("Issued At", m.issuedAt)
           /\ line.label = "text" => m.statement # Missing /\ line = LineOf("text", m.statement)
           /\ line.label = "Expiration Time" =>
                m.expirationTime # Missing /\ line = LineOf("Expiration Time", m.expirationTime)
           /\ line.label = "Not Before" =>
                m.notBefore # Missing /\ line = LineOf("Not Before", m.notBefore)
           /\ line.label = "Request ID" =>
                m.requestId # Missing /\ line = LineOf("Request ID", m.requestId)
<1>1. PICK label : label = line.label
  OBVIOUS
<1>2. CASE line = LineOf("", "")
  <2>1. label = ""
    BY <1>1, <1>2, LabelOfLine
  <2> QED
    BY ONLY <1>1, <1>2, <2>1
<1>3. CASE line = LineOf("header", m.domain)
  <2>1. label = "header"
    BY <1>1, <1>3, LabelOfLine
  <2> QED
    BY ONLY <1>1, <1>3, <2>1
<1>4. CASE line = LineOf("address", m.address)
  <2>1. label = "address"
    BY <1>1, <1>4, LabelOfLine
  <2> QED
    BY ONLY <1>1, <1>4, <2>1
<1>5. CASE line = LineOf("URI", m.uri)
  <2>1. label = "URI"
    BY <1>1, <1>5, LabelOfLine
  <2> QED
    BY ONLY <1>1, <1>5, <2>1
<1>6. CASE line = LineOf("Version", m.version)
  <2>1. label = "Version"
    BY <1>1, <1>6, LabelOfLine
  <2> QED
    BY ONLY <1>1, <1>6, <2>1
<1>7. CASE line = LineOf("Chain ID", m.chainId)
  <2>1. label = "Chain ID"
    BY <1>1, <1>7, LabelOfLine
  <2> QED
    BY ONLY <1>1, <1>7, <2>1
<1>8. CASE line = LineOf("Nonce", m.nonce)
  <2>1. label = "Nonce"
    BY <1>1, <1>8, LabelOfLine
  <2> QED
    BY ONLY <1>1, <1>8, <2>1
<1>9. CASE line = LineOf("Issued At", m.issuedAt)
  <2>1. label = "Issued At"
    BY <1>1, <1>9, LabelOfLine
  <2> QED
    BY ONLY <1>1, <1>9, <2>1
<1>10. CASE m.statement # Missing /\ line = LineOf("text", m.statement)
  <2>1. label = "text"
    BY <1>1, <1>10, LabelOfLine
  <2> QED
    BY ONLY <1>1, <1>10, <2>1
<1>11. CASE m.expirationTime # Missing /\ line = LineOf("Expiration Time", m.expirationTime)
  <2>1. label = "Expiration Time"
    BY <1>1, <1>11, LabelOfLine
  <2> QED
    BY ONLY <1>1, <1>11, <2>1
<1>12. CASE m.notBefore # Missing /\ line = LineOf("Not Before", m.notBefore)
  <2>1. label = "Not Before"
    BY <1>1, <1>12, LabelOfLine
  <2> QED
    BY ONLY <1>1, <1>12, <2>1
<1>13. CASE m.requestId # Missing /\ line = LineOf("Request ID", m.requestId)
  <2>1. label = "Request ID"
    BY <1>1, <1>13, LabelOfLine
  <2> QED
    BY ONLY <1>1, <1>13, <2>1
<1> QED
  BY HeadElement, <1>2, <1>3, <1>4, <1>5, <1>6, <1>7, <1>8, <1>9, <1>10, <1>11, <1>12, <1>13

\* What ParsedMessage makes of the text of a message: the message, but for no resources.
LEMMA ParsedRead ==
    ASSUME NEW m, NEW V, FieldsIn(V, m), NEW lines, lines = Lines(m)
    PROVE  /\ AsParsed(lines) =
                [domain |-> m.domain, address |-> m.address, statement |-> m.statement,
                 uri |-> m.uri, version |-> m.version, chainId |-> m.chainId, nonce |-> m.nonce,
                 issuedAt |-> m.issuedAt, expirationTime |-> m.expirationTime,
                 notBefore |-> m.notBefore, requestId |-> m.requestId,
                 resources |-> IF m.resources \in {Missing, <<>>} THEN Missing ELSE m.resources]
           /\ HasLabel(lines, "text") <=> m.statement # Missing
           /\ HasLabel(lines, "Expiration Time") <=> m.expirationTime # Missing
           /\ HasLabel(lines, "Not Before") <=> m.notBefore # Missing
           /\ HasLabel(lines, "Request ID") <=> m.requestId # Missing
<1>1. \A line \in HeadElements(m) : line \in Elements(lines)
  BY LinesRead
<1>2. \A line \in Elements(lines) : line \in HeadElements(m) \/ line.label \in {"Resources", "-"}
  BY LinesRead
<1>3. ValueAt(lines, "header") = m.domain
  <2>1. LineOf("header", m.domain) \in Elements(lines)
    BY <1>1 DEF HeadElements
  <2>3. ASSUME NEW line \in Elements(lines), line.label = "header"
        PROVE  line = LineOf("header", m.domain)
    <3>1. line \in HeadElements(m)
      BY <1>2, <2>3
    <3> QED
      BY <2>3, <3>1, HeadOnly
  <2>2. {line \in Elements(lines) : line.label = "header"} = {LineOf("header", m.domain)}
    BY <2>1, <2>3, LabelOfLine
  <2> QED
    BY <2>2, ValueOfLine
<1>4. ValueAt(lines, "address") = m.address
  <2>1. LineOf("address", m.address) \in Elements(lines)
    BY <1>1 DEF HeadElements
  <2>3. ASSUME NEW line \in Elements(lines), line.label = "address"
        PROVE  line = LineOf("address", m.address)
    <3>1. line \in HeadElements(m)
      BY <1>2, <2>3
    <3> QED
      BY <2>3, <3>1, HeadOnly
  <2>2. {line \in Elements(lines) : line.label = "address"} = {LineOf("address", m.address)}
    BY <2>1, <2>3, LabelOfLine
  <2> QED
    BY <2>2, ValueOfLine
<1>5. ValueAt(lines, "URI") = m.uri
  <2>1. LineOf("URI", m.uri) \in Elements(lines)
    BY <1>1 DEF HeadElements
  <2>3. ASSUME NEW line \in Elements(lines), line.label = "URI"
        PROVE  line = LineOf("URI", m.uri)
    <3>1. line \in HeadElements(m)
      BY <1>2, <2>3
    <3> QED
      BY <2>3, <3>1, HeadOnly
  <2>2. {line \in Elements(lines) : line.label = "URI"} = {LineOf("URI", m.uri)}
    BY <2>1, <2>3, LabelOfLine
  <2> QED
    BY <2>2, ValueOfLine
<1>6. ValueAt(lines, "Version") = m.version
  <2>1. LineOf("Version", m.version) \in Elements(lines)
    BY <1>1 DEF HeadElements
  <2>3. ASSUME NEW line \in Elements(lines), line.label = "Version"
        PROVE  line = LineOf("Version", m.version)
    <3>1. line \in HeadElements(m)
      BY <1>2, <2>3
    <3> QED
      BY <2>3, <3>1, HeadOnly
  <2>2. {line \in Elements(lines) : line.label = "Version"} = {LineOf("Version", m.version)}
    BY <2>1, <2>3, LabelOfLine
  <2> QED
    BY <2>2, ValueOfLine
<1>7. ValueAt(lines, "Chain ID") = m.chainId
  <2>1. LineOf("Chain ID", m.chainId) \in Elements(lines)
    BY <1>1 DEF HeadElements
  <2>3. ASSUME NEW line \in Elements(lines), line.label = "Chain ID"
        PROVE  line = LineOf("Chain ID", m.chainId)
    <3>1. line \in HeadElements(m)
      BY <1>2, <2>3
    <3> QED
      BY <2>3, <3>1, HeadOnly
  <2>2. {line \in Elements(lines) : line.label = "Chain ID"} = {LineOf("Chain ID", m.chainId)}
    BY <2>1, <2>3, LabelOfLine
  <2> QED
    BY <2>2, ValueOfLine
<1>8. ValueAt(lines, "Nonce") = m.nonce
  <2>1. LineOf("Nonce", m.nonce) \in Elements(lines)
    BY <1>1 DEF HeadElements
  <2>3. ASSUME NEW line \in Elements(lines), line.label = "Nonce"
        PROVE  line = LineOf("Nonce", m.nonce)
    <3>1. line \in HeadElements(m)
      BY <1>2, <2>3
    <3> QED
      BY <2>3, <3>1, HeadOnly
  <2>2. {line \in Elements(lines) : line.label = "Nonce"} = {LineOf("Nonce", m.nonce)}
    BY <2>1, <2>3, LabelOfLine
  <2> QED
    BY <2>2, ValueOfLine
<1>9. ValueAt(lines, "Issued At") = m.issuedAt
  <2>1. LineOf("Issued At", m.issuedAt) \in Elements(lines)
    BY <1>1 DEF HeadElements
  <2>3. ASSUME NEW line \in Elements(lines), line.label = "Issued At"
        PROVE  line = LineOf("Issued At", m.issuedAt)
    <3>1. line \in HeadElements(m)
      BY <1>2, <2>3
    <3> QED
      BY <2>3, <3>1, HeadOnly
  <2>2. {line \in Elements(lines) : line.label = "Issued At"} = {LineOf("Issued At", m.issuedAt)}
    BY <2>1, <2>3, LabelOfLine
  <2> QED
    BY <2>2, ValueOfLine
<1>10. /\ ValueAt(lines, "text") = m.statement
       /\ HasLabel(lines, "text") <=> m.statement # Missing
  <2>1. m.statement # Missing => LineOf("text", m.statement) \in Elements(lines)
    BY <1>1 DEF HeadElements, GivenLines
  <2>3. ASSUME NEW line \in Elements(lines), line.label = "text"
        PROVE  m.statement # Missing /\ line = LineOf("text", m.statement)
    <3>1. line \in HeadElements(m)
      BY <1>2, <2>3
    <3> QED
      BY <2>3, <3>1, HeadOnly
  <2>4. LineOf("text", m.statement).label = "text"
    BY LabelOfLine
  <2>2. {line \in Elements(lines) : line.label = "text"} =
          GivenLines("text", m.statement)
    BY ONLY <2>1, <2>3, <2>4 DEF GivenLines
  <2> QED
    BY <2>2, ValueOf
<1>11. /\ ValueAt(lines, "Expiration Time") = m.expirationTime
       /\ HasLabel(lines, "Expiration Time") <=> m.expirationTime # Missing
  <2>1. m.expirationTime # Missing => LineOf("Expiration Time", m.expirationTime) \in Elements(lines)
    BY <1>1 DEF HeadElements, GivenLines
  <2>3. ASSUME NEW line \in Elements(lines), line.label = "Expiration Time"
        PROVE  m.expirationTime # Missing /\ line = LineOf("Expiration Time", m.expirationTime)
    <3>1. line \in HeadElements(m)
      BY <1>2, <2>3
    <3> QED
      BY <2>3, <3>1, HeadOnly
  <2>4. LineOf("Expiration Time", m.expirationTime).label = "Expiration Time"
    BY LabelOfLine
  <2>2. {line \in Elements(lines) : line.label = "Expiration Time"} =
          GivenLines("Expiration Time", m.expirationTime)
    BY ONLY <2>1, <2>3, <2>4 DEF GivenLines
  <2> QED
    BY <2>2, ValueOf
<1>12. /\ ValueAt(lines, "Not Before") = m.notBefore
       /\ HasLabel(lines, "Not Before") <=> m.notBefore # Missing
  <2>1. m.notBefore # Missing => LineOf("Not Before", m.notBefore) \in Elements(lines)
    BY <1>1 DEF HeadElements, GivenLines
  <2>3. ASSUME NEW line \in Elements(lines), line.label = "Not Before"
        PROVE  m.notBefore # Missing /\ line = LineOf("Not Before", m.notBefore)
    <3>1. line \in HeadElements(m)
      BY <1>2, <2>3
    <3> QED
      BY <2>3, <3>1, HeadOnly
  <2>4. LineOf("Not Before", m.notBefore).label = "Not Before"
    BY LabelOfLine
  <2>2. {line \in Elements(lines) : line.label = "Not Before"} =
          GivenLines("Not Before", m.notBefore)
    BY ONLY <2>1, <2>3, <2>4 DEF GivenLines
  <2> QED
    BY <2>2, ValueOf
<1>13. /\ ValueAt(lines, "Request ID") = m.requestId
       /\ HasLabel(lines, "Request ID") <=> m.requestId # Missing
  <2>1. m.requestId # Missing => LineOf("Request ID", m.requestId) \in Elements(lines)
    BY <1>1 DEF HeadElements, GivenLines
  <2>3. ASSUME NEW line \in Elements(lines), line.label = "Request ID"
        PROVE  m.requestId # Missing /\ line = LineOf("Request ID", m.requestId)
    <3>1. line \in HeadElements(m)
      BY <1>2, <2>3
    <3> QED
      BY <2>3, <3>1, HeadOnly
  <2>4. LineOf("Request ID", m.requestId).label = "Request ID"
    BY LabelOfLine
  <2>2. {line \in Elements(lines) : line.label = "Request ID"} =
          GivenLines("Request ID", m.requestId)
    BY ONLY <2>1, <2>3, <2>4 DEF GivenLines
  <2> QED
    BY <2>2, ValueOf
<1>14. PICK resources :
         /\ resources = IF Items(lines) = <<>> THEN Missing ELSE Items(lines)
         /\ resources = IF m.resources \in {Missing, <<>>} THEN Missing ELSE m.resources
  BY LinesRead
<1> QED
  BY <1>3, <1>4, <1>5, <1>6, <1>7, <1>8, <1>9, <1>10, <1>11, <1>12, <1>13, <1>14 DEF AsParsed

LEMMA JointType ==
    ASSUME NEW W, NEW s \in Seq(W), NEW t \in Seq(W)
    PROVE  Joint(s, t) \in Seq(W) /\ Len(Joint(s, t)) = Len(s) + Len(t)
BY ConcatProperties DEF Joint

LEMMA JointAssociative ==
    ASSUME NEW W, NEW s \in Seq(W), NEW t \in Seq(W), NEW u \in Seq(W)
    PROVE  Joint(Joint(s, t), u) = Joint(s, Joint(t, u))
BY ConcatAssociative DEF Joint

LEMMA JointOne ==
    ASSUME NEW W, NEW s \in Seq(W), NEW x \in W
    PROVE  Joint(s, <<x>>) = Append(s, x)
BY AppendIsConcat DEF Joint

LEMMA TupleOfTwo ==
    ASSUME NEW a, NEW b
    PROVE  Append(<<a>>, b) = <<a, b>>
<1>1. PICK S, s, t, u :
        /\ S = {a, b} /\ s = <<a>>
        /\ t = <<a, b>> /\ u = Append(s, b)
  OBVIOUS
<1>2. b \in S /\ s \in Seq(S) /\ Len(s) = 1 /\ s[1] = a
  BY <1>1
<1>3. t \in Seq(S) /\ Len(t) = 2 /\ t[1] = a /\ t[2] = b
  BY <1>1
<1>4. u \in Seq(S) /\ Len(u) = 2 /\ u[2] = b /\ \A i \in 1..1 : u[i] = s[i]
  BY <1>1, <1>2
<1>5. \A i \in 1..2 : t[i] = u[i]
  BY <1>2, <1>3, <1>4
<1> QED
  BY <1>1, <1>3, <1>4, <1>5, SeqEqual

LEMMA TupleOfThree ==
    ASSUME NEW a, NEW b, NEW c
    PROVE  Append(<<a, b>>, c) = <<a, b, c>>
<1>1. PICK S, s, t, u :
        /\ S = {a, b, c} /\ s = <<a, b>>
        /\ t = <<a, b, c>> /\ u = Append(s, c)
  OBVIOUS
<1>2. c \in S /\ s \in Seq(S) /\ Len(s) = 2 /\ s[1] = a /\ s[2] = b
  BY <1>1
<1>3. t \in Seq(S) /\ Len(t) = 3 /\ t[1] = a /\ t[2] = b /\ t[3] = c
  BY <1>1
<1>4. u \in Seq(S) /\ Len(u) = 3 /\ u[3] = c /\ \A i \in 1..2 : u[i] = s[i]
  BY <1>1, <1>2
<1>5. \A i \in 1..3 : t[i] = u[i]
  BY <1>2, <1>3, <1>4
<1> QED
  BY <1>1, <1>3, <1>4, <1>5, SeqEqual

LEMMA TupleOfFour ==
    ASSUME NEW a, NEW b, NEW c, NEW d
    PROVE  Append(<<a, b, c>>, d) = <<a, b, c, d>>
<1>1. PICK S, s, t, u :
        /\ S = {a, b, c, d} /\ s = <<a, b, c>>
        /\ t = <<a, b, c, d>> /\ u = Append(s, d)
  OBVIOUS
<1>2. d \in S /\ s \in Seq(S) /\ Len(s) = 3 /\ s[1] = a /\ s[2] = b /\ s[3] = c
  BY <1>1
<1>3. t \in Seq(S) /\ Len(t) = 4 /\ t[1] = a /\ t[2] = b /\ t[3] = c /\ t[4] = d
  BY <1>1
<1>4. u \in Seq(S) /\ Len(u) = 4 /\ u[4] = d /\ \A i \in 1..3 : u[i] = s[i]
  BY <1>1, <1>2
<1>5. \A i \in 1..4 : t[i] = u[i]
  BY <1>2, <1>3, <1>4
<1> QED
  BY <1>1, <1>3, <1>4, <1>5, SeqEqual

LEMMA TupleOfFive ==
    ASSUME NEW a, NEW b, NEW c, NEW d, NEW e
    PROVE  Append(<<a, b, c, d>>, e) = <<a, b, c, d, e>>
<1>1. PICK S, s, t, u :
        /\ S = {a, b, c, d, e} /\ s = <<a, b, c, d>>
        /\ t = <<a, b, c, d, e>> /\ u = Append(s, e)
  OBVIOUS
<1>2. e \in S /\ s \in Seq(S) /\ Len(s) = 4 /\ s[1] = a /\ s[2] = b /\ s[3] = c /\ s[4] = d
  BY <1>1
<1>3. t \in Seq(S) /\ Len(t) = 5 /\ t[1] = a /\ t[2] = b /\ t[3] = c /\ t[4] = d /\ t[5] = e
  BY <1>1
<1>4. u \in Seq(S) /\ Len(u) = 5 /\ u[5] = e /\ \A i \in 1..4 : u[i] = s[i]
  BY <1>1, <1>2
<1>5. \A i \in 1..5 : t[i] = u[i]
  BY <1>2, <1>3, <1>4
<1> QED
  BY <1>1, <1>3, <1>4, <1>5, SeqEqual

LEMMA TupleOfSix ==
    ASSUME NEW a, NEW b, NEW c, NEW d, NEW e, NEW f
    PROVE  Append(<<a, b, c, d, e>>, f) = <<a, b, c, d, e, f>>
<1>1. PICK S, s, t, u :
        /\ S = {a, b, c, d, e, f} /\ s = <<a, b, c, d, e>>
        /\ t = <<a, b, c, d, e, f>> /\ u = Append(s, f)
  OBVIOUS
<1>2. f \in S /\ s \in Seq(S) /\ Len(s) = 5 /\ s[1] = a /\ s[2] = b /\ s[3] = c /\ s[4] = d /\ s[5] = e
  BY <1>1
<1>3. t \in Seq(S) /\ Len(t) = 6 /\ t[1] = a /\ t[2] = b /\ t[3] = c /\ t[4] = d /\ t[5] = e /\ t[6] = f
  BY <1>1
<1>4. u \in Seq(S) /\ Len(u) = 6 /\ u[6] = f /\ \A i \in 1..5 : u[i] = s[i]
  BY <1>1, <1>2
<1>5. \A i \in 1..6 : t[i] = u[i]
  BY <1>2, <1>3, <1>4
<1> QED
  BY <1>1, <1>3, <1>4, <1>5, SeqEqual

AreExtended(s, t, x) == Joint(Joint(s, t), <<x>>) = Joint(s, Append(t, x))

LEMMA JointAppend ==
    ASSUME NEW W, NEW s \in Seq(W), NEW t \in Seq(W), NEW x \in W
    PROVE  AreExtended(s, t, x)
<1>1. PICK y : y = <<x>>
  OBVIOUS
<1>2. s \in Seq(W) /\ t \in Seq(W) /\ x \in W /\ y \in Seq(W)
  BY <1>1
<1>3. Joint(Joint(s, t), y) = Joint(s, Joint(t, y))
  BY ONLY <1>2, JointAssociative
<1>4. Joint(t, y) = Append(t, x)
  BY <1>1, JointOne
<1> QED
  BY <1>1, <1>3, <1>4 DEF AreExtended

\* The lines before the statement, and those after it that are always there.
FirstLabels == <<"header", "address", "">>

CoreLabels == <<"", "URI", "Version", "Chain ID", "Nonce", "Issued At">>

LEMMA CoreTypes ==
    /\ FirstLabels \in Seq(LabelSet) /\ Len(FirstLabels) = 3
    /\ CoreLabels \in Seq(LabelSet) /\ Len(CoreLabels) = 6
BY DEF FirstLabels, CoreLabels, LabelSet

LEMMA StatementType ==
    ASSUME NEW statement
    PROVE  /\ StatementLabels(statement) \in Seq(LabelSet)
           /\ Len(StatementLabels(statement)) =
                IF statement = Missing THEN 0 ELSE IF statement \in OneLiners THEN 1 ELSE 2
<1>1. /\ <<>> \in Seq(LabelSet) /\ Len(<<>>) = 0
      /\ <<"text">> \in Seq(LabelSet) /\ Len(<<"text">>) = 1
      /\ <<"text", "text">> \in Seq(LabelSet) /\ Len(<<"text", "text">>) = 2
  BY DEF LabelSet
<1> QED
  BY <1>1 DEF StatementLabels

LEMMA GivenType ==
    ASSUME NEW label \in LabelSet, NEW value
    PROVE  GivenLabel(label, value) \in Seq(LabelSet)
BY DEF GivenLabel

\* The labels before those of the fields that may be missing.
LEMMA CoreJoined ==
    ASSUME NEW X, X \in Seq(LabelSet)
    PROVE  LET s == Joint(Joint(Joint(<<"header">>, <<"address">>), Joint(Joint(<<"">>, X), <<"">>)),
                          <<"URI">>)
           IN  Joint(Joint(Joint(Joint(s, <<"Version">>), <<"Chain ID">>), <<"Nonce">>),
                     <<"Issued At">>) = Joint(Joint(FirstLabels, X), CoreLabels)
<1>0. PICK W, a, b, c, d, e, f, g, h :
      /\ W = LabelSet /\ a = "header" /\ b = "address" /\ c = "" /\ d = "URI" /\ e = "Version"
      /\ f = "Chain ID" /\ g = "Nonce" /\ h = "Issued At"
  OBVIOUS
<1>1. /\ a \in W /\ b \in W /\ c \in W /\ d \in W /\ e \in W /\ f \in W /\ g \in W /\ h \in W
      /\ X \in Seq(W)
  BY <1>0 DEF LabelSet
<1>2. PICK sa, sb, sd, se, sf, sg, sh :
        /\ sa = <<a>> /\ sb = <<b>> /\ sd = <<d>> /\ se = <<e>> /\ sf = <<f>> /\ sg = <<g>>
        /\ sh = <<h>>
  OBVIOUS
<1>3. PICK two, first : two = <<a, b>> /\ first = <<a, b, c>>
  OBVIOUS
<1>4. PICK c1, c2, c3, c4, c5, c6 :
        /\ c1 = <<c>> /\ c2 = <<c, d>> /\ c3 = <<c, d, e>> /\ c4 = <<c, d, e, f>>
        /\ c5 = <<c, d, e, f, g>> /\ c6 = <<c, d, e, f, g, h>>
  OBVIOUS
<1>5. sa \in Seq(W) /\ sb \in Seq(W) /\ sd \in Seq(W)
  BY <1>1, <1>2
<1>6. two \in Seq(W) /\ first \in Seq(W)
  BY <1>1, <1>3
<1>7. c1 \in Seq(W) /\ c2 \in Seq(W) /\ c3 \in Seq(W)
  <2>1. c1 \in Seq(W)
    BY <1>1, <1>4
  <2>2. c2 \in Seq(W)
    BY <1>1, <1>4
  <2>3. c3 \in Seq(W)
    BY <1>1, <1>4
  <2> QED
    BY <2>1, <2>2, <2>3
<1>8. c4 \in Seq(W) /\ c5 \in Seq(W)
  <2>1. c4 \in Seq(W)
    BY <1>1, <1>4
  <2>2. c5 \in Seq(W)
    BY <1>1, <1>4
  <2> QED
    BY <2>1, <2>2
<1>9. Joint(sa, sb) = two
  BY <1>2, <1>3, OneAndOne
<1>10. Joint(two, c1) = first
  <2>1. Append(two, c) = first
    BY <1>3, TupleOfThree
  <2> QED
    BY <1>1, <1>4, <1>6, <2>1, JointOne
<1>11. PICK P : P = Joint(first, X) /\ P \in Seq(W)
  BY <1>1, <1>6, JointType
<1>12. Joint(two, Joint(Joint(c1, X), c1)) = Joint(P, c1)
  <2>1. PICK u : u = Joint(c1, X) /\ u \in Seq(W)
    BY <1>1, <1>7, JointType
  <2>2. Joint(two, Joint(u, c1)) = Joint(Joint(two, u), c1)
    BY <1>6, <1>7, <2>1, JointAssociative
  <2>3. Joint(two, u) = P
    BY <1>1, <1>6, <1>7, <1>10, <1>11, <2>1, JointAssociative
  <2> QED
    BY <2>1, <2>2, <2>3
<1>13. Joint(Joint(P, c1), sd) = Joint(P, c2)
  <2>1. c2 = Append(c1, d)
    BY <1>4, TupleOfTwo
  <2>2. AreExtended(P, c1, d)
    BY <1>1, <1>7, <1>8, <1>11, JointAppend
  <2> QED
    BY <1>2, <2>1, <2>2 DEF AreExtended
<1>14. Joint(Joint(P, c2), se) = Joint(P, c3)
  <2>1. c3 = Append(c2, e)
    BY <1>4, TupleOfThree
  <2>2. AreExtended(P, c2, e)
    BY <1>1, <1>7, <1>8, <1>11, JointAppend
  <2> QED
    BY <1>2, <2>1, <2>2 DEF AreExtended
<1>15. Joint(Joint(P, c3), sf) = Joint(P, c4)
  <2>1. c4 = Append(c3, f)
    BY <1>4, TupleOfFour
  <2>2. AreExtended(P, c3, f)
    BY <1>1, <1>7, <1>8, <1>11, JointAppend
  <2> QED
    BY <1>2, <2>1, <2>2 DEF AreExtended
<1>16. Joint(Joint(P, c4), sg) = Joint(P, c5)
  <2>1. c5 = Append(c4, g)
    BY <1>4, TupleOfFive
  <2>2. AreExtended(P, c4, g)
    BY <1>1, <1>7, <1>8, <1>11, JointAppend
  <2> QED
    BY <1>2, <2>1, <2>2 DEF AreExtended
<1>17. Joint(Joint(P, c5), sh) = Joint(P, c6)
  <2>1. c6 = Append(c5, h)
    BY <1>4, TupleOfSix
  <2>2. AreExtended(P, c5, h)
    BY <1>1, <1>7, <1>8, <1>11, JointAppend
  <2> QED
    BY <1>2, <2>1, <2>2 DEF AreExtended
<1>18. PICK s : s = Joint(Joint(Joint(sa, sb), Joint(Joint(c1, X), c1)), sd)
  OBVIOUS
<1>19. s = Joint(P, c2)
  <2>1. s = Joint(Joint(two, Joint(Joint(c1, X), c1)), sd)
    BY ONLY <1>9, <1>18
  <2>2. s = Joint(Joint(P, c1), sd)
    BY ONLY <1>12, <2>1
  <2> QED
    BY ONLY <1>13, <2>2
<1>20. Joint(Joint(Joint(Joint(s, se), sf), sg), sh) = Joint(P, c6)
  BY ONLY <1>14, <1>15, <1>16, <1>17, <1>19
<1>21. first = FirstLabels /\ c6 = CoreLabels
  BY <1>0, <1>3, <1>4 DEF FirstLabels, CoreLabels
<1> QED
  BY <1>0, <1>2, <1>4, <1>11, <1>18, <1>20, <1>21

\* The labels of all the lines, of a message whose statement makes lines labelled X.
LabelsWith(m, X) ==
    Joint(Joint(Joint(Joint(Joint(Joint(FirstLabels, X), CoreLabels),
                            GivenLabel("Expiration Time", m.expirationTime)),
                      GivenLabel("Not Before", m.notBefore)),
                GivenLabel("Request ID", m.requestId)), TailLabels(m))

LEMMA LabelsJoined ==
    ASSUME NEW m
    PROVE  Joint(HeadLabels(m), TailLabels(m)) = LabelsWith(m, StatementLabels(m.statement))
BY StatementType, CoreJoined DEF HeadLabels, LabelsWith

LEMMA TailType ==
    ASSUME NEW m, NEW V, FieldsIn(V, m)
    PROVE  TailLabels(m) \in Seq(LabelSet)
<1>1. CASE m.resources = Missing
  BY <1>1 DEF TailLabels
<1>2. CASE m.resources # Missing
  <2>1. PICK D : D = [i \in DOMAIN m.resources |-> "-"]
    OBVIOUS
  <2>2. m.resources \in Seq(V)
    BY <1>2 DEF FieldsIn
  <2>3. D \in Seq(LabelSet)
    <3>1. "-" \in LabelSet
      BY DEF LabelSet
    <3>2. DOMAIN m.resources = 1..Len(m.resources) /\ Len(m.resources) \in Nat
      BY <2>2
    <3> QED
      BY <2>1, <3>1, <3>2
  <2>4. <<"Resources">> \in Seq(LabelSet)
    BY DEF LabelSet
  <2> QED
    BY <1>2, <2>1, <2>3, <2>4, JointType DEF TailLabels
<1> QED
  BY <1>1, <1>2

LEMMA LabelsCounted ==
    ASSUME NEW m, NEW V, FieldsIn(V, m), NEW X \in Seq(LabelSet), NEW Y \in Seq(LabelSet),
           LabelsWith(m, X) = LabelsWith(m, Y)
    PROVE  Len(X) = Len(Y)
<1>1. PICK W, e, n, r, t, f, k :
        /\ W = LabelSet /\ t = TailLabels(m) /\ f = FirstLabels /\ k = CoreLabels
        /\ e = GivenLabel("Expiration Time", m.expirationTime)
        /\ n = GivenLabel("Not Before", m.notBefore) /\ r = GivenLabel("Request ID", m.requestId)
  OBVIOUS
<1>2. /\ e \in Seq(W) /\ n \in Seq(W) /\ r \in Seq(W) /\ t \in Seq(W) /\ f \in Seq(W) /\ k \in Seq(W)
      /\ X \in Seq(W) /\ Y \in Seq(W)
  <2>1. {"Expiration Time", "Not Before", "Request ID"} \subseteq LabelSet
    BY DEF LabelSet
  <2> QED
    BY <1>1, <2>1, GivenType, TailType, CoreTypes
<1>3. ASSUME NEW Z \in Seq(W)
      PROVE  Len(Joint(Joint(Joint(Joint(Joint(Joint(f, Z), k), e), n), r), t)) =
                Len(Z) + (Len(f) + Len(k) + Len(e) + Len(n) + Len(r) + Len(t))
  <2>1. PICK a : a = Joint(f, Z) /\ a \in Seq(W) /\ Len(a) = Len(f) + Len(Z)
    BY <1>2, JointType
  <2>2. PICK b : b = Joint(a, k) /\ b \in Seq(W) /\ Len(b) = Len(a) + Len(k)
    BY <1>2, <2>1, JointType
  <2>3. PICK c : c = Joint(b, e) /\ c \in Seq(W) /\ Len(c) = Len(b) + Len(e)
    BY <1>2, <2>2, JointType
  <2>4. PICK d : d = Joint(c, n) /\ d \in Seq(W) /\ Len(d) = Len(c) + Len(n)
    BY <1>2, <2>3, JointType
  <2>5. PICK g : g = Joint(d, r) /\ g \in Seq(W) /\ Len(g) = Len(d) + Len(r)
    BY <1>2, <2>4, JointType
  <2>6. PICK h : h = Joint(g, t) /\ Len(h) = Len(g) + Len(t)
    BY <1>2, <2>5, JointType
  <2>7. h = Joint(Joint(Joint(Joint(Joint(Joint(f, Z), k), e), n), r), t)
    BY ONLY <2>1, <2>2, <2>3, <2>4, <2>5, <2>6
  <2>8. /\ Len(f) \in Nat /\ Len(Z) \in Nat /\ Len(k) \in Nat /\ Len(e) \in Nat /\ Len(n) \in Nat
        /\ Len(r) \in Nat /\ Len(t) \in Nat
    BY <1>2
  <2>9. Len(h) = Len(Z) + (Len(f) + Len(k) + Len(e) + Len(n) + Len(r) + Len(t))
    BY ONLY <2>1, <2>2, <2>3, <2>4, <2>5, <2>6, <2>8
  <2> QED
    BY ONLY <2>7, <2>9
<1>4. PICK z, v :
        /\ z = Joint(Joint(Joint(Joint(Joint(Joint(f, X), k), e), n), r), t)
        /\ v = Joint(Joint(Joint(Joint(Joint(Joint(f, Y), k), e), n), r), t)
  OBVIOUS
<1>5. z = v
  BY ONLY <1>1, <1>4, LabelsWith(m, X) = LabelsWith(m, Y) DEF LabelsWith
<1>6. PICK others : others = Len(f) + Len(k) + Len(e) + Len(n) + Len(r) + Len(t)
  OBVIOUS
<1>7. Len(z) = Len(X) + others /\ Len(v) = Len(Y) + others
  BY <1>2, <1>3, <1>4, <1>6
<1>8. /\ Len(f) \in Nat /\ Len(X) \in Nat /\ Len(k) \in Nat /\ Len(e) \in Nat /\ Len(n) \in Nat
      /\ Len(r) \in Nat /\ Len(t) \in Nat /\ Len(Y) \in Nat
  BY <1>2
<1> QED
  BY ONLY <1>5, <1>6, <1>7, <1>8

LEMMA OrderRead ==
    ASSUME NEW m, NEW V, FieldsIn(V, m), NEW lines, lines = Lines(m)
    PROVE  InOrder(lines) <=> m.statement \in OneLiners \cup {Missing}
<1>1. PICK given : given = GivenLabel("text", m.statement)
  OBVIOUS
<1>2. Optional(lines, "text") = given
  BY <1>1, ParsedRead DEF Optional, GivenLabel
<1>3. PICK e, n, r :
        /\ e = GivenLabel("Expiration Time", m.expirationTime)
        /\ n = GivenLabel("Not Before", m.notBefore) /\ r = GivenLabel("Request ID", m.requestId)
  OBVIOUS
<1>4. Optional(lines, "Expiration Time") = e
  BY <1>3, ParsedRead DEF Optional, GivenLabel
<1>5. Optional(lines, "Not Before") = n
  BY <1>3, ParsedRead DEF Optional, GivenLabel
<1>6. Optional(lines, "Request ID") = r
  BY <1>3, ParsedRead DEF Optional, GivenLabel
<1>7. PICK b, dashes, tail :
        /\ b = Joint(Joint(Joint(Joint(Joint(FirstLabels, given), CoreLabels), e), n), r)
        /\ dashes = [i \in DOMAIN Items(lines) |-> "-"]
        /\ tail = Optional(lines, "Resources")
  OBVIOUS
<1>8. InOrder(lines) <=> Labels(lines) = Joint(Joint(b, tail), dashes)
  BY <1>2, <1>4, <1>5, <1>6, <1>7 DEF InOrder, Joint, FirstLabels, CoreLabels
<1>9. {"text", "Expiration Time", "Not Before", "Request ID", "Resources", "-"} \subseteq LabelSet
  BY DEF LabelSet
<1>10. /\ given \in Seq(LabelSet) /\ e \in Seq(LabelSet) /\ n \in Seq(LabelSet)
       /\ r \in Seq(LabelSet)
  BY <1>1, <1>3, <1>9, GivenType
<1>11. b \in Seq(LabelSet)
  <2>1. PICK c1 : c1 = Joint(FirstLabels, given) /\ c1 \in Seq(LabelSet)
    BY <1>10, CoreTypes, JointType
  <2>2. PICK c2 : c2 = Joint(c1, CoreLabels) /\ c2 \in Seq(LabelSet)
    BY <2>1, CoreTypes, JointType
  <2>3. PICK c3 : c3 = Joint(c2, e) /\ c3 \in Seq(LabelSet)
    BY <1>10, <2>2, JointType
  <2>4. PICK c4 : c4 = Joint(c3, n) /\ c4 \in Seq(LabelSet)
    BY <1>10, <2>3, JointType
  <2> QED
    BY <1>7, <1>10, <2>1, <2>2, <2>3, <2>4, JointType
<1>12. Joint(Joint(b, tail), dashes) = LabelsWith(m, given)
  <2>1. LabelsWith(m, given) = Joint(b, TailLabels(m))
    BY <1>3, <1>7 DEF LabelsWith
  <2>2. /\ HasLabel(lines, "Resources") <=> m.resources # Missing
        /\ Items(lines) = IF m.resources = Missing THEN <<>> ELSE m.resources
    BY LinesRead
  <2>3. CASE m.resources = Missing
    <3>1. tail = <<>> /\ dashes = <<>>
      BY <1>7, <2>2, <2>3 DEF Optional
    <3>2. TailLabels(m) = <<>>
      BY <2>3 DEF TailLabels
    <3>3. Joint(b, <<>>) = b
      BY <1>11, ConcatEmptySeq DEF Joint
    <3> QED
      BY <2>1, <3>1, <3>2, <3>3
  <2>4. CASE m.resources # Missing
    <3>1. tail = <<"Resources">> /\ dashes = [i \in DOMAIN m.resources |-> "-"]
      BY <1>7, <2>2, <2>4 DEF Optional
    <3>2. TailLabels(m) = Joint(tail, dashes)
      <4>1. TailLabels(m) = Joint(<<"Resources">>, [i \in DOMAIN m.resources |-> "-"])
        BY <2>4 DEF TailLabels
      <4> QED
        BY ONLY <3>1, <4>1
    <3>3. tail \in Seq(LabelSet)
      <4>1. "Resources" \in LabelSet
        BY <1>9
      <4>2. tail = <<"Resources">>
        BY <3>1
      <4> QED
        BY ONLY <4>1, <4>2
    <3>4. dashes \in Seq(LabelSet)
      <4>1. m.resources \in Seq(V)
        BY <2>4 DEF FieldsIn
      <4>2. DOMAIN m.resources = 1..Len(m.resources) /\ Len(m.resources) \in Nat
        BY <4>1
      <4>3. "-" \in LabelSet
        BY <1>9
      <4> QED
        BY <3>1, <4>2, <4>3
    <3>5. b \in Seq(LabelSet)
      BY <1>11
    <3>6. Joint(Joint(b, tail), dashes) = Joint(b, Joint(tail, dashes))
      BY ONLY <3>3, <3>4, <3>5, JointAssociative
    <3> QED
      BY <2>1, <3>2, <3>6
  <2> QED
    BY <2>3, <2>4
<1>13. Labels(lines) = LabelsWith(m, StatementLabels(m.statement))
  BY LinesRead, LabelsJoined
<1>14. CASE m.statement \in OneLiners \cup {Missing}
  <2>1. given = StatementLabels(m.statement)
    BY <1>1, <1>14, SignInAssumption DEF GivenLabel, StatementLabels
  <2> QED
    BY <1>8, <1>12, <1>13, <1>14, <2>1
<1>15. CASE m.statement \notin OneLiners \cup {Missing}
  <2>1. given = <<"text">>
    BY <1>1, <1>15 DEF GivenLabel
  <2>2. Len(given) = 1
    BY <2>1
  <2>3. /\ StatementLabels(m.statement) \in Seq(LabelSet)
        /\ Len(StatementLabels(m.statement)) = 2
    BY <1>15, StatementType
  <2>4. LabelsWith(m, StatementLabels(m.statement)) # LabelsWith(m, given)
    <3>1. PICK X : X = StatementLabels(m.statement)
      OBVIOUS
    <3>2. ASSUME LabelsWith(m, X) = LabelsWith(m, given) PROVE FALSE
      <4>1. Len(X) = Len(given)
        BY <1>10, <2>3, <3>1, <3>2, LabelsCounted
      <4> QED
        BY <2>2, <2>3, <3>1, <4>1
    <3> QED
      BY <3>1, <3>2
  <2> QED
    BY <1>8, <1>12, <1>13, <1>15, <2>4
<1> QED
  BY <1>14, <1>15

\* What the texts of messages must have for a reader to make the message of them.
IsReadable(m) ==
    /\ m.address \in FullAddresses
    /\ m.domain \in Unqueried
    /\ m.statement \in OneLiners \cup {Missing}
    /\ m.chainId # Missing
    /\ \A name \in {"issuedAt", "expirationTime", "notBefore"} :
          m[name] \in Datetimes \cup {Missing}
    /\ m.requestId \in RequestIds \cup {Missing}
    /\ m.resources # Missing =>
          /\ m.resources # <<>>
          /\ \A i \in DOMAIN m.resources : m.resources[i] \in Uris

LEMMA SomeFields ==
    ASSUME NEW m, IsSignIn(m)
    PROVE  \E V : FieldsIn(V, m)
<1>1. PICK F, R, V :
        /\ F = {"", m.domain, m.address, m.statement, m.uri, m.version, m.chainId, m.nonce,
                m.issuedAt, m.expirationTime, m.notBefore, m.requestId}
        /\ R = {m.resources[i] : i \in DOMAIN m.resources} /\ V = F \cup R
  OBVIOUS
<1>2. F \subseteq V
  BY <1>1
<1>3. ASSUME m.resources # Missing PROVE m.resources \in Seq(V)
  <2>1. PICK s : s = m.resources /\ s \in Seq(R)
    BY <1>1, <1>3 DEF IsSignIn
  <2>2. R \subseteq V
    BY <1>1
  <2> QED
    BY <2>1, <2>2
<1> QED
  BY <1>1, <1>2, <1>3 DEF FieldsIn

\* A message that is read has every field again.
LEMMA SameMessage ==
    ASSUME NEW m, IsSignIn(m), NEW lines, lines = Lines(m), m.resources # Missing => m.resources # <<>>
    PROVE  AsParsed(lines) = m
<1>1. PICK V : FieldsIn(V, m)
  BY SomeFields
<1>2. PICK r : r = IF m.resources \in {Missing, <<>>} THEN Missing ELSE m.resources
  OBVIOUS
<1>3. r = m.resources
  BY <1>2
<1>4. AsParsed(lines) =
        [domain |-> m.domain, address |-> m.address, statement |-> m.statement,
         uri |-> m.uri, version |-> m.version, chainId |-> m.chainId, nonce |-> m.nonce,
         issuedAt |-> m.issuedAt, expirationTime |-> m.expirationTime,
         notBefore |-> m.notBefore, requestId |-> m.requestId, resources |-> r]
  BY <1>1, <1>2, ParsedRead
<1> QED
  BY <1>3, <1>4 DEF IsSignIn

\* What reads the resources of no line makes the message have none.
LEMMA NoResources ==
    ASSUME NEW m, IsSignIn(m), NEW lines, lines = Lines(m), m.resources # Missing, m.resources = <<>>
    PROVE  ~CanParse(lines)
<1>1. PICK V : FieldsIn(V, m)
  BY SomeFields
<1>2. HasLabel(lines, "Resources")
  BY <1>1, LinesRead
<1>3. AsParsed(lines).resources = Missing
  <2>1. PICK r : r = IF m.resources \in {Missing, <<>>} THEN Missing ELSE m.resources
    OBVIOUS
  <2>2. r = Missing
    BY <2>1
  <2>3. AsParsed(lines) =
          [domain |-> m.domain, address |-> m.address, statement |-> m.statement,
           uri |-> m.uri, version |-> m.version, chainId |-> m.chainId, nonce |-> m.nonce,
           issuedAt |-> m.issuedAt, expirationTime |-> m.expirationTime,
           notBefore |-> m.notBefore, requestId |-> m.requestId, resources |-> r]
    BY <1>1, <2>1, ParsedRead
  <2> QED
    BY <2>2, <2>3
<1> QED
  BY <1>2, <1>3 DEF CanParse, Matches

LEMMA SignInRead ==
    ASSUME NEW m, IsSignIn(m), IsValid(m), m.issuedAt # Missing, NEW lines, lines = Lines(m)
    PROVE  /\ CanParse(lines) <=> IsReadable(m)
           /\ CanParse(lines) => AsParsed(lines) = m
<1>1. PICK V : FieldsIn(V, m)
  BY SomeFields
<1>2. CASE m.resources # Missing /\ m.resources = <<>>
  BY <1>2, NoResources DEF IsReadable
<1>3. CASE m.resources # Missing => m.resources # <<>>
  <2>1. AsParsed(lines) = m
    BY <1>3, SameMessage
  <2>2. InOrder(lines) <=> m.statement \in OneLiners \cup {Missing}
    BY <1>1, OrderRead
  <2>3. HasLabel(lines, "Resources") <=> m.resources # Missing
    BY <1>1, LinesRead
  <2>4. m.uri \in Uris /\ m.version = "1" /\ m.nonce \in GoodNonces
    BY DEF IsValid
  <2>5. Matches(lines) <=> IsReadable(m)
    <3>1. Matches(lines) <=>
            /\ m.statement \in OneLiners \cup {Missing}
            /\ m.chainId # Missing
            /\ m.domain \in Unqueried
            /\ m.address \in FullAddresses
            /\ m.issuedAt \in Datetimes
            /\ \A name \in {"expirationTime", "notBefore"} : m[name] \in Datetimes \cup {Missing}
            /\ m.requestId \in RequestIds \cup {Missing}
            /\ m.resources # Missing => \A i \in DOMAIN m.resources : m.resources[i] \in Uris
      BY <2>1, <2>2, <2>3, <2>4 DEF Matches
    <3>2. (\A name \in {"issuedAt", "expirationTime", "notBefore"} :
              m[name] \in Datetimes \cup {Missing}) <=>
            /\ m.issuedAt \in Datetimes
            /\ \A name \in {"expirationTime", "notBefore"} : m[name] \in Datetimes \cup {Missing}
      OBVIOUS
    <3> QED
      BY <1>3, <3>1, <3>2 DEF IsReadable
  <2>6. CanParse(lines) <=> Matches(lines)
    BY <2>1 DEF CanParse
  <2> QED
    BY <2>1, <2>5, <2>6
<1> QED
  BY <1>2, <1>3

-----------------------------------------------------------------------------
(* Messages.                                                                *)

\* u is s and t after it.
AreParts(u, s, t) ==
    /\ Len(u) = Len(s) + Len(t)
    /\ \A i \in 1..Len(s) : u[i] = s[i]
    /\ \A i \in 1..Len(t) : u[Len(s) + i] = t[i]

\* Two sequences are the parts of what they make together.
LEMMA Parts ==
    ASSUME NEW S, NEW s, s \in Seq(S), NEW t, t \in Seq(S), NEW u, u = s \o t
    PROVE  u \in Seq(S) /\ AreParts(u, s, t)
<1>1. /\ u \in Seq(S) /\ Len(u) = Len(s) + Len(t)
      /\ \A i \in 1..(Len(s) + Len(t)) : u[i] = IF i <= Len(s) THEN s[i] ELSE t[i - Len(s)]
  BY ConcatProperties
<1>2. Len(s) \in Nat /\ Len(t) \in Nat
  OBVIOUS
<1>3. PICK m, n : m = Len(s) /\ n = Len(t)
  OBVIOUS
<1>4. \A i \in 1..m : u[i] = s[i]
  BY <1>1, <1>2, <1>3
<1>5. ASSUME NEW i \in 1..n PROVE u[m + i] = t[i]
  <2>1. PICK j : j = m + i
    OBVIOUS
  <2>2. j \in 1..(m + n) /\ ~(j <= m) /\ j - m = i
    BY <1>2, <1>3, <2>1
  <2>3. u[j] = t[j - m]
    BY <1>1, <1>3, <2>2
  <2> QED
    BY <2>1, <2>2, <2>3
<1> QED
  BY <1>1, <1>3, <1>4, <1>5 DEF AreParts

\* What stands after the first part is the second.
LEMMA DropPart ==
    ASSUME NEW S, NEW s, s \in Seq(S), NEW t, t \in Seq(S), NEW u, u \in Seq(S), AreParts(u, s, t),
           NEW n, n = Len(s)
    PROVE  Drop(u, n) = t
<1>1. PICK v : v = Drop(u, n)
  OBVIOUS
<1>2. Len(u) = n + Len(t) /\ n \in Nat /\ Len(t) \in Nat
  BY DEF AreParts
<1>3. v \in Seq(S) /\ Len(v) = Len(t) /\ \A i \in 1..Len(t) : v[i] = u[n + i]
  BY <1>1, <1>2 DEF Drop
<1>4. \A i \in 1..Len(t) : v[i] = t[i]
  BY <1>3 DEF AreParts
<1> QED
  BY <1>1, <1>3, <1>4, SeqEqual

\* A length of four bytes.
FitsVarUint(n) == n \div 16777216 < 256

\* The quotients of a number by 256 and its powers.
AreQuotients(n, a, b, c) == a = n \div 256 /\ b = n \div 65536 /\ c = n \div 16777216

LEMMA QuotientsExist == ASSUME NEW n, n \in Nat PROVE \E a, b, c \in Nat : AreQuotients(n, a, b, c)
BY SMT DEF AreQuotients

\* A number is read back of its bytes.
LEMMA FourBytes ==
    ASSUME NEW n, n \in Nat, NEW a, NEW b, NEW c, a \in Nat, b \in Nat, c \in Nat,
           AreQuotients(n, a, b, c)
    PROVE  /\ n = (n % 256) + 256 * a
           /\ a = (a % 256) + 256 * b
           /\ b = (b % 256) + 256 * c
<1>1. n = (n % 256) + 256 * a
  BY SMT DEF AreQuotients
<1>2. a = (a % 256) + 256 * b
  BY SMT DEF AreQuotients
<1>3. b = (b % 256) + 256 * c
  BY SMT DEF AreQuotients
<1> QED
  BY <1>1, <1>2, <1>3

\* The bytes of a length of two or of four.
AreTwo(n, a, b) == WriteUInt16LE(n) = <<a, b>> /\ n = a + 256 * b

AreFour(n, a, b, c, d) ==
    WriteUInt32LE(n) = <<a, b, c, d>> /\ n = a + 256 * (b + 256 * (c + 256 * d))

\* The bytes of a number that fits in two of them.
LEMMA ShortLength ==
    ASSUME NEW n, n \in Nat, n <= 65535
    PROVE  \E a, b : a \in 0..255 /\ b \in 0..255 /\ AreTwo(n, a, b)
<1>1. PICK x : x = n \div 256
  OBVIOUS
<1>2. x \in Nat /\ x < 256 /\ n = (n % 256) + 256 * x
  BY <1>1
<1>3. PICK a, b : a = n % 256 /\ b = x % 256
  OBVIOUS
<1>4. a \in 0..255 /\ b \in 0..255 /\ b = x
  BY <1>2, <1>3
<1>5. WriteUInt16LE(n) = <<a, b>>
  BY <1>1, <1>3 DEF WriteUInt16LE
<1>6. n = a + 256 * b
  BY <1>2, <1>3, <1>4
<1> QED
  BY <1>4, <1>5, <1>6 DEF AreTwo

\* The bytes of a number that fits in four.
LEMMA LongLength ==
    ASSUME NEW n, n \in Nat, FitsVarUint(n)
    PROVE  \E a, b, c, d : /\ a \in 0..255 /\ b \in 0..255 /\ c \in 0..255 /\ d \in 0..255
                          /\ AreFour(n, a, b, c, d)
<1>1. PICK x, y, z : x \in Nat /\ y \in Nat /\ z \in Nat /\ AreQuotients(n, x, y, z)
  BY QuotientsExist
<1>2. z < 256
  BY <1>1, SMT DEF FitsVarUint, AreQuotients
<1>3. PICK a, b, c, d : a = n % 256 /\ b = x % 256 /\ c = y % 256 /\ d = z % 256
  OBVIOUS
<1>4. a \in 0..255 /\ b \in 0..255 /\ c \in 0..255 /\ d \in 0..255 /\ d = z
  BY <1>1, <1>2, <1>3
<1>5. WriteUInt32LE(n) = <<a, b, c, d>>
  <2>1. WriteUInt32LE(n) = <<n % 256, x % 256, y % 256, z % 256>>
    BY <1>1, SMT DEF AreQuotients, WriteUInt32LE
  <2> QED
    BY <1>3, <2>1
<1>6. n = a + 256 * x /\ x = b + 256 * y /\ y = c + 256 * z
  BY <1>1, <1>3, FourBytes
<1>7. n = a + 256 * (b + 256 * (c + 256 * d))
  BY <1>4, <1>6
<1> QED
  BY <1>4, <1>5, <1>7 DEF AreFour

LEMMA OneAndTwo == ASSUME NEW a, NEW b, NEW c PROVE Joint(<<a>>, <<b, c>>) = <<a, b, c>>
<1>1. PICK S, s, t, v : S = {a, b, c} /\ s = <<a>> /\ t = <<b, c>> /\ v = <<a, b, c>>
  OBVIOUS
<1>2. /\ s \in Seq(S) /\ Len(s) = 1 /\ s[1] = a
      /\ t \in Seq(S) /\ Len(t) = 2 /\ t[1] = b /\ t[2] = c
      /\ v \in Seq(S) /\ Len(v) = 3 /\ v[1] = a /\ v[2] = b /\ v[3] = c
  BY <1>1
<1>3. PICK u : u = s \o t
  OBVIOUS
<1>4. u \in Seq(S) /\ AreParts(u, s, t)
  BY <1>2, <1>3, Parts
<1>5. Len(u) = 3 /\ u[1] = a /\ u[1 + 1] = b /\ u[1 + 2] = c
  BY <1>2, <1>4 DEF AreParts
<1>6. \A i \in 1..3 : u[i] = v[i]
  BY <1>2, <1>5
<1> QED
  BY <1>1, <1>2, <1>3, <1>4, <1>5, <1>6, SeqEqual DEF Joint

\* Tuples, part by part.
LEMMA OneAndFour ==
    ASSUME NEW a, NEW b, NEW c, NEW d, NEW e
    PROVE  Joint(<<a>>, <<b, c, d, e>>) = <<a, b, c, d, e>>
<1>1. PICK S, s, t, v :
        S = {a, b, c, d, e} /\ s = <<a>> /\ t = <<b, c, d, e>> /\ v = <<a, b, c, d, e>>
  OBVIOUS
<1>2. /\ s \in Seq(S) /\ Len(s) = 1 /\ s[1] = a
      /\ t \in Seq(S) /\ Len(t) = 4 /\ t[1] = b /\ t[2] = c /\ t[3] = d /\ t[4] = e
      /\ v \in Seq(S) /\ Len(v) = 5 /\ v[1] = a /\ v[2] = b /\ v[3] = c /\ v[4] = d /\ v[5] = e
  BY <1>1
<1>3. PICK u : u = s \o t
  OBVIOUS
<1>4. u \in Seq(S) /\ AreParts(u, s, t)
  BY <1>2, <1>3, Parts
<1>5. Len(u) = 5 /\ u[1] = a /\ u[1 + 1] = b /\ u[1 + 2] = c /\ u[1 + 3] = d /\ u[1 + 4] = e
  BY <1>2, <1>4 DEF AreParts
<1>6. \A i \in 1..5 : u[i] = v[i]
  BY <1>2, <1>5
<1> QED
  BY <1>1, <1>2, <1>3, <1>4, <1>5, <1>6, SeqEqual DEF Joint

\* encode, with its first byte apart.
LEMMA VarUintJoint ==
    ASSUME NEW n
    PROVE  EncodeVarUint(n) =
             IF n < 253 THEN <<n>>
             ELSE IF n <= 65535 THEN Joint(<<253>>, WriteUInt16LE(n))
             ELSE Joint(<<254>>, WriteUInt32LE(n))
BY DEF EncodeVarUint, Joint

\* What is written of a length that is not of one byte.
IsShortVarUint(n, bytes) ==
    \E a, b : a \in 0..255 /\ b \in 0..255 /\ n = a + 256 * b /\ bytes = <<253, a, b>>

IsLongVarUint(n, bytes) ==
    \E a, b, c, d : /\ a \in 0..255 /\ b \in 0..255 /\ c \in 0..255 /\ d \in 0..255
                    /\ n = a + 256 * (b + 256 * (c + 256 * d)) /\ bytes = <<254, a, b, c, d>>

\* What encode makes of a number with three bytes.
LEMMA ShortVarUint ==
    ASSUME NEW n, n \in Nat, ~(n < 253), n <= 65535
    PROVE  IsShortVarUint(n, EncodeVarUint(n))
<1>1. PICK a, b : a \in 0..255 /\ b \in 0..255 /\ AreTwo(n, a, b)
  BY ShortLength
<1>2. EncodeVarUint(n) = Joint(<<253>>, WriteUInt16LE(n))
  BY SMT, VarUintJoint
<1>3. EncodeVarUint(n) = <<253, a, b>>
  BY <1>1, <1>2, OneAndTwo DEF AreTwo
<1> QED
  BY <1>1, <1>3 DEF AreTwo, IsShortVarUint

\* What encode makes of a number with five bytes.
LEMMA LongVarUint ==
    ASSUME NEW n, n \in Nat, FitsVarUint(n), ~(n < 253), ~(n <= 65535)
    PROVE  IsLongVarUint(n, EncodeVarUint(n))
<1>1. PICK a, b, c, d : /\ a \in 0..255 /\ b \in 0..255 /\ c \in 0..255 /\ d \in 0..255
                        /\ AreFour(n, a, b, c, d)
  BY LongLength
<1>2. EncodeVarUint(n) = Joint(<<254>>, WriteUInt32LE(n))
  BY SMT, VarUintJoint
<1>3. EncodeVarUint(n) = <<254, a, b, c, d>>
  BY <1>1, <1>2, OneAndFour DEF AreFour
<1> QED
  BY <1>1, <1>3 DEF AreFour, IsLongVarUint

\* encodingLength is the length of what encode makes.
LEMMA VarUintType ==
    ASSUME NEW n, n \in Nat, FitsVarUint(n)
    PROVE  EncodeVarUint(n) \in Seq(0..255) /\ Len(EncodeVarUint(n)) = EncodingLength(n)
<1>1. PICK v : v = EncodeVarUint(n)
  OBVIOUS
<1>2. CASE n < 253
  BY <1>2 DEF EncodeVarUint, EncodingLength
<1>3. CASE ~(n < 253) /\ n <= 65535
  <2>1. PICK a, b : a \in 0..255 /\ b \in 0..255 /\ v = <<253, a, b>>
    BY <1>1, <1>3, ShortVarUint DEF IsShortVarUint
  <2>2. v \in Seq(0..255) /\ Len(v) = 3
    BY ONLY <2>1
  <2> QED
    BY <1>1, <1>3, <2>2, SMT DEF EncodingLength
<1>4. CASE ~(n < 253) /\ ~(n <= 65535)
  <2>1. PICK a, b, c, d : /\ a \in 0..255 /\ b \in 0..255 /\ c \in 0..255 /\ d \in 0..255
                          /\ v = <<254, a, b, c, d>>
    BY <1>1, <1>4, LongVarUint DEF IsLongVarUint
  <2>2. v \in Seq(0..255) /\ Len(v) = 5
    BY ONLY <2>1
  <2> QED
    BY <1>1, <1>4, <2>2, SMT DEF EncodingLength
<1> QED
  BY <1>2, <1>3, <1>4

\* Before a message its length is read.
LEMMA VarUintRead ==
    ASSUME NEW n, n \in Nat, FitsVarUint(n), NEW message, NEW rest,
           AreParts(rest, EncodeVarUint(n), message)
    PROVE  DecodeVarUint(rest) = n
<1>1. PICK v : v = EncodeVarUint(n)
  OBVIOUS
<1>2. AreParts(rest, v, message)
  BY <1>1
<1>3. \A i \in 1..Len(v) : rest[i] = v[i]
  BY <1>2 DEF AreParts
<1>4. CASE n < 253
  <2>1. v = <<n>>
    BY <1>1, <1>4 DEF EncodeVarUint
  <2>2. Len(v) = 1 /\ v[1] = n
    BY ONLY <2>1
  <2>3. rest[1] = n
    BY <1>3, <2>2
  <2> QED
    BY <1>4, <2>3 DEF DecodeVarUint
<1>5. CASE ~(n < 253) /\ n <= 65535
  <2>1. PICK a, b : a \in 0..255 /\ b \in 0..255 /\ n = a + 256 * b /\ v = <<253, a, b>>
    BY <1>1, <1>5, ShortVarUint DEF IsShortVarUint
  <2>2. Len(v) = 3 /\ v[1] = 253 /\ v[2] = a /\ v[3] = b
    BY ONLY <2>1
  <2>3. rest[1] = 253 /\ rest[2] = a /\ rest[3] = b
    BY <1>3, <2>2
  <2> QED
    BY <2>1, <2>3 DEF DecodeVarUint, ReadUInt16LE
<1>6. CASE ~(n < 253) /\ ~(n <= 65535)
  <2>1. PICK a, b, c, d : /\ a \in 0..255 /\ b \in 0..255 /\ c \in 0..255 /\ d \in 0..255
                          /\ n = a + 256 * (b + 256 * (c + 256 * d))
                          /\ v = <<254, a, b, c, d>>
    BY <1>1, <1>6, LongVarUint DEF IsLongVarUint
  <2>2. Len(v) = 5 /\ v[1] = 254 /\ v[2] = a /\ v[3] = b /\ v[4] = c /\ v[5] = d
    BY ONLY <2>1
  <2>3. rest[1] = 254 /\ rest[2] = a /\ rest[3] = b /\ rest[4] = c /\ rest[5] = d
    BY <1>3, <2>2
  <2>4. DecodeVarUint(rest) = a + 256 * b + 65536 * c + 16777216 * d
    BY <2>3, SMT DEF DecodeVarUint, ReadUInt32LE
  <2> QED
    BY <2>1, <2>4, SMT
<1> QED
  BY <1>4, <1>5, <1>6

\* An encoded message: its prefix, its length, and the message.
LEMMA MessageParts ==
    ASSUME NEW message, message \in Seq(0..255), FitsVarUint(Len(message)),
           NEW prefix, prefix \in Seq(0..255), NEW encoded, encoded = EncodeMessage(message, prefix)
    PROVE  \E rest : /\ encoded \in Seq(0..255) /\ rest \in Seq(0..255)
                     /\ AreParts(encoded, prefix, rest)
                     /\ AreParts(rest, EncodeVarUint(Len(message)), message)
<1>1. PICK v : v = EncodeVarUint(Len(message)) /\ v \in Seq(0..255)
  <2>1. Len(message) \in Nat
    OBVIOUS
  <2> QED
    BY <2>1, VarUintType
<1>2. PICK rest : rest = v \o message /\ rest \in Seq(0..255) /\ AreParts(rest, v, message)
  BY <1>1, Parts
<1>3. PICK all : all = prefix \o rest /\ all \in Seq(0..255) /\ AreParts(all, prefix, rest)
  BY <1>2, Parts
<1>4. PICK p, m : p = prefix /\ m = message /\ p \in Seq(0..255) /\ m \in Seq(0..255)
  OBVIOUS
<1>5. (p \o v) \o m = p \o (v \o m)
  BY ONLY <1>1, <1>4, ConcatAssociative
<1>6. encoded = (p \o v) \o m
  BY <1>1, <1>4 DEF EncodeMessage
<1>7. encoded = all
  BY ONLY <1>2, <1>3, <1>4, <1>5, <1>6
<1> QED
  BY <1>1, <1>2, <1>3, <1>7

\* decodeMessage gives back the message, whatever its length.
LEMMA MessageDecoded ==
    ASSUME NEW message, message \in Seq(0..255), FitsVarUint(Len(message)),
           NEW prefix, prefix \in Seq(0..255)
    PROVE  DecodeMessage(EncodeMessage(message, prefix), prefix) = message
<1>1. PICK encoded : encoded = EncodeMessage(message, prefix)
  OBVIOUS
<1>2. PICK rest : /\ encoded \in Seq(0..255) /\ rest \in Seq(0..255)
                  /\ AreParts(encoded, prefix, rest)
                  /\ AreParts(rest, EncodeVarUint(Len(message)), message)
  BY <1>1, MessageParts
<1>3. PICK n, v : n = Len(message) /\ v = EncodeVarUint(n) /\ n \in Nat
  OBVIOUS
<1>4. v \in Seq(0..255) /\ Len(v) = EncodingLength(n)
  BY <1>3, VarUintType
<1>5. Drop(encoded, Len(prefix)) = rest
  BY <1>2, DropPart
<1>6. DecodeVarUint(rest) = n
  BY <1>2, <1>3, VarUintRead
<1>7. Drop(rest, EncodingLength(n)) = message
  BY <1>2, <1>3, <1>4, DropPart
<1> QED
  BY <1>1, <1>5, <1>6, <1>7 DEF DecodeMessage

\* Of two prefixes that start differently no text has both, so what is signed is one message.
LEMMA OneMessage ==
    ASSUME NEW m, m \in Seq(0..255), FitsVarUint(Len(m)),
           NEW n, n \in Seq(0..255), FitsVarUint(Len(n)),
           NEW p, p \in Seq(0..255), p # <<>>, NEW q, q \in Seq(0..255), q # <<>>,
           p[1] = q[1] => p = q,
           EncodeMessage(m, p) = EncodeMessage(n, q)
    PROVE  m = n
<1>1. PICK encoded : encoded = EncodeMessage(m, p) /\ encoded = EncodeMessage(n, q)
  OBVIOUS
<1>2. PICK r : AreParts(encoded, p, r)
  BY <1>1, MessageParts
<1>3. PICK s : AreParts(encoded, q, s)
  BY <1>1, MessageParts
<1>4. encoded[1] = p[1]
  BY <1>2 DEF AreParts
<1>5. encoded[1] = q[1]
  BY <1>3 DEF AreParts
<1>6. p = q
  BY <1>4, <1>5
<1>7. DecodeMessage(encoded, p) = m
  BY <1>1, MessageDecoded
<1>8. DecodeMessage(encoded, q) = n
  BY <1>1, MessageDecoded
<1> QED
  BY <1>6, <1>7, <1>8

-----------------------------------------------------------------------------
(* Base 64.                                                                 *)

\* Pieces of one size are found in what they make.
IsPieceSize(size) == size \in {3, 4}

IsUniform(pieces, size, joined) ==
    /\ Len(joined) = size * Len(pieces)
    /\ \A i \in 1..Len(pieces) : \A j \in 1..size : joined[size * (i - 1) + j] = pieces[i][j]

\* One more piece of the same size.
LEMMA UniformAppend ==
    ASSUME NEW S, NEW size, IsPieceSize(size), NEW pieces, pieces \in Seq(Seq(S)),
           NEW piece, piece \in Seq(S), Len(piece) = size,
           NEW joined, joined \in Seq(S), IsUniform(pieces, size, joined),
           NEW more, more \in Seq(Seq(S)), more = Append(pieces, piece),
           NEW all, all \in Seq(S), AreParts(all, joined, piece)
    PROVE  IsUniform(more, size, all)
<1>1. PICK n : n = Len(pieces) /\ n \in Nat
  <2>1. PICK U : U = Seq(S) /\ pieces \in Seq(U)
    OBVIOUS
  <2>2. Len(pieces) \in Nat
    BY ONLY <2>1
  <2> QED
    BY ONLY <2>2
<1>2. Len(more) = n + 1 /\ more[n + 1] = piece /\ \A i \in 1..n : more[i] = pieces[i]
  BY <1>1
<1>3. Len(joined) = size * n /\ Len(all) = size * n + size
  BY <1>1 DEF IsUniform, AreParts, IsPieceSize
<1>4. ASSUME NEW i \in 1..(n + 1), NEW j \in 1..size
      PROVE  all[size * (i - 1) + j] = more[i][j]
  <2>1. CASE i = n + 1
    <3>1. all[Len(joined) + j] = piece[j]
      BY DEF AreParts
    <3>2. size * (i - 1) + j = Len(joined) + j
      BY <1>1, <1>3, <2>1 DEF IsPieceSize
    <3> QED
      BY <1>2, <2>1, <3>1, <3>2
  <2>2. CASE i # n + 1
    <3>1. PICK k : k = size * (i - 1) + j
      OBVIOUS
    <3>2. i \in 1..n
      BY <1>1, <2>2
    <3>3. k \in 1..(size * n)
      BY <1>1, <3>1, <3>2 DEF IsPieceSize
    <3>4. all[k] = joined[k]
      BY <1>3, <3>3 DEF AreParts
    <3>5. joined[k] = pieces[i][j]
      BY <1>1, <3>1, <3>2 DEF IsUniform
    <3> QED
      BY <1>2, <3>1, <3>2, <3>4, <3>5
  <2> QED
    BY <2>1, <2>2
<1>5. Len(all) = size * Len(more)
  BY <1>1, <1>2, <1>3 DEF IsPieceSize
<1> QED
  BY <1>2, <1>4, <1>5 DEF IsUniform

\* Pieces of one size stand one after the other in what they make.
LEMMA UniformConcat ==
    ASSUME NEW S, NEW size, IsPieceSize(size)
    PROVE  \A pieces \in Seq(Seq(S)) :
              (\A i \in 1..Len(pieces) : Len(pieces[i]) = size) => IsUniform(pieces, size, Concat(pieces))
<1> DEFINE T == {pieces \in Seq(Seq(S)) :
                    (\A i \in 1..Len(pieces) : Len(pieces[i]) = size) =>
                        IsUniform(pieces, size, Concat(pieces))}
<1>1. <<>> \in T
  <2>1. <<>> \in Seq(Seq(S)) /\ Len(<<>>) = 0
    OBVIOUS
  <2>2. IsUniform(<<>>, size, <<>>)
    BY DEF IsUniform, IsPieceSize
  <2> QED
    BY <2>1, <2>2, ConcatEmpty
<1>2. ASSUME NEW pieces \in Seq(Seq(S)), NEW piece \in Seq(S), pieces \in T
      PROVE  Append(pieces, piece) \in T
  <2>1. PICK more : more = Append(pieces, piece)
    OBVIOUS
  <2>2. more \in Seq(Seq(S))
    BY <2>1
  <2>3. ASSUME \A i \in 1..Len(more) : Len(more[i]) = size
        PROVE  IsUniform(more, size, Concat(more))
    <3>1. Len(more) = Len(pieces) + 1 /\ Len(pieces) \in Nat
      BY <2>1
    <3>2. \A i \in 1..Len(pieces) : more[i] = pieces[i]
      BY <2>1
    <3>3. more[Len(pieces) + 1] = piece
      BY <2>1
    <3>4. Len(piece) = size /\ \A i \in 1..Len(pieces) : Len(pieces[i]) = size
      BY <2>3, <3>1, <3>2, <3>3
    <3>5. PICK joined : joined = Concat(pieces) /\ joined \in Seq(S) /\ IsUniform(pieces, size, joined)
      BY <1>2, <3>4, ConcatType
    <3>6. PICK all : all = joined \o piece /\ all \in Seq(S) /\ AreParts(all, joined, piece)
      BY <3>5, Parts
    <3>7. Concat(more) = all
      BY <2>1, <3>5, <3>6, ConcatAppend
    <3>8. IsPieceSize(size) /\ pieces \in Seq(Seq(S)) /\ piece \in Seq(S)
      OBVIOUS
    <3>9. IsUniform(more, size, all)
      BY ONLY <2>1, <2>2, <3>4, <3>5, <3>6, <3>8, UniformAppend
    <3> QED
      BY <3>7, <3>9
  <2> QED
    BY <2>1, <2>2, <2>3
<1>3. \A pieces \in Seq(Seq(S)) : pieces \in T
  <2> HIDE DEF T
  <2> QED
    BY <1>1, <1>2, Joining!SequenceInduction
<1> QED
  BY <1>3

\* What pieces make after others.
LEMMA ConcatFrom ==
    ASSUME NEW S, NEW base, base \in Seq(S)
    PROVE  \A pieces \in Seq(Seq(S)) : Joining!Fold(0, base, pieces) = base \o Concat(pieces)
<1> DEFINE T == {pieces \in Seq(Seq(S)) : Joining!Fold(0, base, pieces) = base \o Concat(pieces)}
<1>1. <<>> \in T
  <2>1. <<>> \in Seq(Seq(S)) /\ base \o <<>> = base
    OBVIOUS
  <2> QED
    BY <2>1, ConcatEmpty, Joining!FoldEmpty
<1>2. ASSUME NEW pieces \in Seq(Seq(S)), NEW piece \in Seq(S), pieces \in T
      PROVE  Append(pieces, piece) \in T
  <2>1. PICK c, p : c = Concat(pieces) /\ c \in Seq(S) /\ p = piece /\ p \in Seq(S)
    BY ConcatType
  <2>2. PICK F : F = Joining!Fold(0, base, pieces)
    OBVIOUS
  <2>3. Joining!Fold(0, base, Append(pieces, piece)) = F \o p
    BY <2>1, <2>2, Joining!FoldAppend DEF Joined
  <2>4. F = base \o c
    BY <1>2, <2>1, <2>2
  <2>5. Concat(Append(pieces, piece)) = c \o p
    BY <2>1, ConcatAppend
  <2>6. base \in Seq(S)
    OBVIOUS
  <2>7. (base \o c) \o p = base \o (c \o p)
    BY ONLY <2>1, <2>6, ConcatAssociative
  <2>8. Append(pieces, piece) \in Seq(Seq(S))
    OBVIOUS
  <2>9. Joining!Fold(0, base, Append(pieces, piece)) = base \o Concat(Append(pieces, piece))
    BY ONLY <2>3, <2>4, <2>5, <2>7
  <2> QED
    BY <2>8, <2>9
<1>3. \A pieces \in Seq(Seq(S)) : pieces \in T
  <2> HIDE DEF T
  <2> QED
    BY <1>1, <1>2, Joining!SequenceInduction
<1> QED
  BY <1>3

\* What more pieces make comes after what the first ones make.
LEMMA ConcatJoined ==
    ASSUME NEW S, NEW p, p \in Seq(Seq(S)), NEW q, q \in Seq(Seq(S))
    PROVE  Concat(p \o q) = Concat(p) \o Concat(q)
<1>1. PICK U : U = Seq(S) /\ p \in Seq(U) /\ q \in Seq(U)
  OBVIOUS
<1>2. PICK zero, none : zero = 0 /\ none = <<>>
  OBVIOUS
<1>3. Joining!Fold(zero, none, p \o q) = Joining!Fold(zero, Joining!Fold(zero, none, p), q)
  BY ONLY <1>1, Joining!FoldConcat
<1>4. PICK c : c = Concat(p) /\ c \in Seq(S)
  BY ConcatType
<1>5. Joining!Fold(0, c, q) = c \o Concat(q)
  BY <1>4, ConcatFrom
<1>6. c = Joining!Fold(zero, none, p)
  BY <1>2, <1>4 DEF Concat
<1>7. Concat(p \o q) = Joining!Fold(zero, none, p \o q)
  BY <1>2 DEF Concat
<1>8. Joining!Fold(zero, c, q) = c \o Concat(q)
  BY ONLY <1>2, <1>5
<1> QED
  BY ONLY <1>3, <1>4, <1>6, <1>7, <1>8


\* The code of a triplet.
Quad(a, b, c) == <<a \div 4, (a % 4) * 16 + b \div 16, (b % 16) * 4 + c \div 64, c % 64>>

QuadAt(bytes, i) == Quad(bytes[3 * i - 2], bytes[3 * i - 1], bytes[3 * i])

Quads(bytes) == [i \in 1..(Len(bytes) \div 3) |-> QuadAt(bytes, i)]

LEMMA TripletsAreQuads == ASSUME NEW bytes PROVE EncodeTriplets(bytes) = Concat(Quads(bytes))
BY DEF EncodeTriplets, Quads, QuadAt, Quad

\* A triplet becomes four digits.
LEMMA QuadType ==
    ASSUME NEW a, a \in 0..255, NEW b, b \in 0..255, NEW c, c \in 0..255
    PROVE  Quad(a, b, c) \in Seq(0..63) /\ Len(Quad(a, b, c)) = 4
<1>1. /\ a \div 4 \in 0..63 /\ (a % 4) * 16 + b \div 16 \in 0..63
      /\ (b % 16) * 4 + c \div 64 \in 0..63 /\ c % 64 \in 0..63
  OBVIOUS
<1>2. PICK w, x, y, z :
        /\ w = a \div 4 /\ x = (a % 4) * 16 + b \div 16 /\ y = (b % 16) * 4 + c \div 64 /\ z = c % 64
  OBVIOUS
<1>3. w \in 0..63 /\ x \in 0..63 /\ y \in 0..63 /\ z \in 0..63
  BY <1>1, <1>2
<1>4. Quad(a, b, c) = <<w, x, y, z>>
  BY <1>2 DEF Quad
<1> QED
  BY ONLY <1>3, <1>4

LEMMA ElementOf == ASSUME NEW S, NEW s \in Seq(S), NEW x \in 1..Len(s) PROVE s[x] \in S
OBVIOUS

\* The digits of each triplet.
LEMMA QuadsType ==
    ASSUME NEW bytes, bytes \in Seq(0..255)
    PROVE  /\ Quads(bytes) \in Seq(Seq(0..63)) /\ Len(Quads(bytes)) = Len(bytes) \div 3
           /\ \A i \in 1..(Len(bytes) \div 3) : Quads(bytes)[i] = QuadAt(bytes, i)
           /\ \A i \in 1..Len(Quads(bytes)) : Len(Quads(bytes)[i]) = 4
<1>1. PICK k : k = Len(bytes) \div 3 /\ k \in Nat /\ 3 * k <= Len(bytes)
  OBVIOUS
<1>2. PICK U : U = Seq(0..63)
  OBVIOUS
<1>3. ASSUME NEW i \in 1..k PROVE QuadAt(bytes, i) \in U /\ Len(QuadAt(bytes, i)) = 4
  <2>1. PICK x, y, z : x = 3 * i - 2 /\ y = 3 * i - 1 /\ z = 3 * i
    OBVIOUS
  <2>2. x \in 1..Len(bytes) /\ y \in 1..Len(bytes) /\ z \in 1..Len(bytes)
    BY <1>1, <2>1
  <2>3. PICK a, b, c : a = bytes[x] /\ b = bytes[y] /\ c = bytes[z]
    OBVIOUS
  <2>4. a \in 0..255 /\ b \in 0..255 /\ c \in 0..255
    <3>1. PICK Byte : Byte = 0..255 /\ bytes \in Seq(Byte)
      OBVIOUS
    <3>2. bytes[x] \in Byte /\ bytes[y] \in Byte /\ bytes[z] \in Byte
      BY ONLY <2>2, <3>1, ElementOf
    <3> QED
      BY ONLY <2>3, <3>1, <3>2
  <2>5. QuadAt(bytes, i) = Quad(a, b, c)
    BY <2>1, <2>3 DEF QuadAt
  <2>6. Quad(a, b, c) \in Seq(0..63) /\ Len(Quad(a, b, c)) = 4
    BY ONLY <2>4, QuadType
  <2> QED
    BY <1>2, <2>5, <2>6
<1>4. Quads(bytes) = [i \in 1..k |-> QuadAt(bytes, i)]
  BY <1>1 DEF Quads
<1>5. Quads(bytes) \in Seq(U) /\ Len(Quads(bytes)) = k
  BY <1>1, <1>3, <1>4
<1> QED
  BY <1>1, <1>2, <1>3, <1>4, <1>5

\* What is decoded of four digits.
Triple(w, x, y, z) == <<w * 4 + x \div 16, (x % 16) * 16 + y \div 4, (y % 4) * 64 + z>>

TripleAt(digits, i) == Triple(digits[4 * i - 3], digits[4 * i - 2], digits[4 * i - 1], digits[4 * i])

Triples(digits) == [i \in 1..(Len(digits) \div 4) |-> TripleAt(digits, i)]

\* The digits are the code of bytes whose number is divisible by three.
AreCoded(digits, bytes) == Len(bytes) % 3 = 0 /\ IsUniform(Quads(bytes), 4, digits)

AreOfThree(t, a, b, c) == Len(t) = 3 /\ t[1] = a /\ t[2] = b /\ t[3] = c

AreOfFour(t, a, b, c, d) == Len(t) = 4 /\ t[1] = a /\ t[2] = b /\ t[3] = c /\ t[4] = d

\* The digits of a triplet, one by one.
LEMMA QuadDigits ==
    ASSUME NEW a, NEW b, NEW c
    PROVE  AreOfFour(Quad(a, b, c), a \div 4, (a % 4) * 16 + b \div 16, (b % 16) * 4 + c \div 64, c % 64)
<1>1. PICK w, x, y, z :
        /\ w = a \div 4 /\ x = (a % 4) * 16 + b \div 16 /\ y = (b % 16) * 4 + c \div 64 /\ z = c % 64
  OBVIOUS
<1>2. Quad(a, b, c) = <<w, x, y, z>>
  BY <1>1 DEF Quad
<1>3. AreOfFour(Quad(a, b, c), w, x, y, z)
  BY ONLY <1>2 DEF AreOfFour
<1> QED
  BY <1>1, <1>3

\* A byte in two parts.
LEMMA BytesSplit ==
    ASSUME NEW n, n \in 0..255
    PROVE  /\ n % 4 \in 0..3 /\ 4 * (n \div 4) + (n % 4) = n
           /\ n \div 16 \in 0..15 /\ n % 16 \in 0..15 /\ 16 * (n \div 16) + (n % 16) = n
           /\ n \div 64 \in 0..3 /\ 64 * (n \div 64) + (n % 64) = n
<1>1. n % 4 \in 0..3 /\ 4 * (n \div 4) + (n % 4) = n
  OBVIOUS
<1>2. n \div 16 \in 0..15
  OBVIOUS
<1>3. n % 16 \in 0..15 /\ 16 * (n \div 16) + (n % 16) = n
  OBVIOUS
<1>4. n \div 64 \in 0..3
  OBVIOUS
<1>5. 64 * (n \div 64) + (n % 64) = n
  OBVIOUS
<1> QED
  BY <1>1, <1>2, <1>3, <1>4, <1>5

\* Four digits are decoded to the triplet that they are of.
LEMMA TripleDecoded ==
    ASSUME NEW a, NEW b, NEW c, a \in 0..255, b \in 0..255, c \in 0..255,
           NEW q, q = Quad(a, b, c)
    PROVE  /\ Triple(q[1], q[2], q[3], q[4]) \in Seq(0..255)
           /\ AreOfThree(Triple(q[1], q[2], q[3], q[4]), a, b, c)
<1>1. PICK w, x, y, z :
        /\ w = a \div 4 /\ x = (a % 4) * 16 + b \div 16 /\ y = (b % 16) * 4 + c \div 64 /\ z = c % 64
  OBVIOUS
<1>2. q[1] = w /\ q[2] = x /\ q[3] = y /\ q[4] = z
  BY <1>1, QuadDigits DEF AreOfFour
<1> DEFINE a4 == a % 4
           b16 == b \div 16
           b4 == b % 16
           c64 == c \div 64
<1>a1. a4 \in 0..3 /\ 4 * (a \div 4) + a4 = a
  BY BytesSplit
<1>a2. b16 \in 0..15 /\ b4 \in 0..15 /\ 16 * b16 + b4 = b
  BY BytesSplit
<1>a3. c64 \in 0..3 /\ 64 * c64 + (c % 64) = c
  BY BytesSplit
<1>a. /\ a4 \in 0..3 /\ 4 * (a \div 4) + a4 = a
      /\ b16 \in 0..15 /\ b4 \in 0..15 /\ 16 * b16 + b4 = b
      /\ c64 \in 0..3 /\ 64 * c64 + (c % 64) = c
  BY <1>a1, <1>a2, <1>a3
<1>b. w = a \div 4 /\ x = a4 * 16 + b16 /\ y = b4 * 4 + c64
  BY <1>1
<1> HIDE DEF a4, b16, b4, c64
<1>c. x \div 16 = a4 /\ x % 16 = b16
  BY ONLY <1>a, <1>b
<1>d. y \div 4 = b4 /\ y % 4 = c64
  BY ONLY <1>a, <1>b
<1>3. w * 4 + x \div 16 = a
  BY <1>a, <1>b, <1>c
<1>4. (x % 16) * 16 + y \div 4 = b
  BY <1>a, <1>b, <1>c, <1>d
<1>5. (y % 4) * 64 + z = c
  BY <1>1, <1>a, <1>d
<1>6. Triple(q[1], q[2], q[3], q[4]) = <<a, b, c>>
  BY <1>2, <1>3, <1>4, <1>5 DEF Triple
<1> QED
  BY <1>6 DEF AreOfThree

\* The digits of each triplet are found in the code.
LEMMA QuadOfCoded ==
    ASSUME NEW bytes, bytes \in Seq(0..255), NEW digits, AreCoded(digits, bytes),
           NEW k, k = Len(bytes) \div 3, NEW i, i \in 1..k
    PROVE  TripleAt(digits, i) = LET q == QuadAt(bytes, i) IN Triple(q[1], q[2], q[3], q[4])
<1>1. Len(Quads(bytes)) = k /\ Quads(bytes)[i] = QuadAt(bytes, i)
  BY QuadsType
<1>2. PICK q : q = QuadAt(bytes, i)
  OBVIOUS
<1>3. \A j \in 1..4 : digits[4 * (i - 1) + j] = q[j]
  BY <1>1, <1>2 DEF AreCoded, IsUniform
<1>4. i \in Int
  BY DEF AreCoded
<1>5. /\ 4 * (i - 1) + 1 = 4 * i - 3 /\ 4 * (i - 1) + 2 = 4 * i - 2
      /\ 4 * (i - 1) + 3 = 4 * i - 1 /\ 4 * (i - 1) + 4 = 4 * i
  BY <1>4
<1>6. digits[4 * i - 3] = q[1] /\ digits[4 * i - 2] = q[2] /\ digits[4 * i - 1] = q[3] /\ digits[4 * i] = q[4]
  BY <1>3, <1>5
<1> QED
  BY <1>2, <1>6 DEF TripleAt

\* The code of triplets is decoded to their bytes.
LEMMA TriplesDecoded ==
    ASSUME NEW bytes, bytes \in Seq(0..255), NEW digits, digits \in Seq(0..63), AreCoded(digits, bytes)
    PROVE  Concat(Triples(digits)) = bytes
<1>1. PICK k : k = Len(bytes) \div 3 /\ k \in Nat /\ Len(bytes) = 3 * k
  BY DEF AreCoded
<1>2. Len(digits) = 4 * k
  BY <1>1, QuadsType DEF AreCoded, IsUniform
<1>3. ASSUME NEW i \in 1..k
      PROVE  /\ TripleAt(digits, i) \in Seq(0..255)
             /\ AreOfThree(TripleAt(digits, i), bytes[3 * i - 2], bytes[3 * i - 1], bytes[3 * i])
  <2>1. PICK x, y, z : x = 3 * i - 2 /\ y = 3 * i - 1 /\ z = 3 * i
    OBVIOUS
  <2>2. x \in 1..Len(bytes) /\ y \in 1..Len(bytes) /\ z \in 1..Len(bytes)
    BY <1>1, <2>1
  <2>3. PICK a, b, c : a = bytes[x] /\ b = bytes[y] /\ c = bytes[z]
    OBVIOUS
  <2>4. a \in 0..255 /\ b \in 0..255 /\ c \in 0..255
    BY ONLY <2>2, <2>3, bytes \in Seq(0..255), ElementOf
  <2>5. PICK q : q = Quad(a, b, c)
    OBVIOUS
  <2>6. QuadAt(bytes, i) = q
    BY <2>1, <2>3, <2>5 DEF QuadAt
  <2>7. TripleAt(digits, i) = Triple(q[1], q[2], q[3], q[4])
    BY <1>1, <2>6, QuadOfCoded
  <2>8. /\ Triple(q[1], q[2], q[3], q[4]) \in Seq(0..255)
        /\ AreOfThree(Triple(q[1], q[2], q[3], q[4]), a, b, c)
    BY ONLY <2>4, <2>5, TripleDecoded
  <2> QED
    BY <2>1, <2>3, <2>7, <2>8
<1>4. PICK U : U = Seq(0..255)
  OBVIOUS
<1>5. PICK pieces : pieces = Triples(digits)
  OBVIOUS
<1>6. pieces = [i \in 1..k |-> TripleAt(digits, i)]
  BY <1>1, <1>2, <1>5 DEF Triples
<1>7. pieces \in Seq(U) /\ Len(pieces) = k /\ \A i \in 1..k : pieces[i] = TripleAt(digits, i)
  BY <1>1, <1>3, <1>4, <1>6
<1>8. \A i \in 1..k : Len(pieces[i]) = 3
  BY <1>3, <1>7 DEF AreOfThree
<1>9. PICK joined : joined = Concat(pieces) /\ joined \in Seq(0..255) /\ IsUniform(pieces, 3, joined)
  BY <1>4, <1>7, <1>8, ConcatType, UniformConcat DEF IsPieceSize
<1>10. Len(joined) = Len(bytes)
  BY <1>1, <1>7, <1>9 DEF IsUniform
<1>11. ASSUME NEW m \in 1..Len(bytes) PROVE joined[m] = bytes[m]
  <2>1. PICK i : i = (m - 1) \div 3 + 1
    OBVIOUS
  <2>2. i \in 1..k /\ m - 3 * (i - 1) \in 1..3
    BY <1>1, <2>1
  <2>3. PICK j : j = m - 3 * (i - 1)
    OBVIOUS
  <2>4. joined[3 * (i - 1) + j] = pieces[i][j]
    BY <1>7, <1>9, <2>2, <2>3 DEF IsUniform
  <2>5. 3 * (i - 1) + j = m
    BY <2>2, <2>3
  <2>6. AreOfThree(pieces[i], bytes[3 * i - 2], bytes[3 * i - 1], bytes[3 * i])
    BY <1>3, <1>7, <2>2
  <2>7. pieces[i][j] = bytes[m]
    <3>1. \/ j = 1 /\ m = 3 * i - 2
          \/ j = 2 /\ m = 3 * i - 1
          \/ j = 3 /\ m = 3 * i
      BY <2>2, <2>3
    <3> QED
      BY <2>6, <3>1 DEF AreOfThree
  <2> QED
    BY <2>4, <2>5, <2>7
<1> QED
  BY <1>5, <1>9, <1>10, <1>11, SeqEqual

\* Two sequences make one.
LEMMA PartsAreUnique ==
    ASSUME NEW S, NEW s \in Seq(S), NEW t \in Seq(S), NEW u \in Seq(S), NEW v \in Seq(S),
           AreParts(u, s, t), AreParts(v, s, t)
    PROVE  u = v
<1>0. Len(s) \in Nat /\ Len(t) \in Nat
  OBVIOUS
<1>1. PICK m, n : m = Len(s) /\ n = Len(t) /\ m \in Nat /\ n \in Nat
  BY <1>0
<1>2. Len(u) = m + n /\ Len(v) = m + n
  BY <1>1 DEF AreParts
<1>3. ASSUME NEW i \in 1..(m + n) PROVE u[i] = v[i]
  <2>1. CASE i <= m
    BY <1>1, <2>1 DEF AreParts
  <2>2. CASE ~(i <= m)
    <3>1. PICK j : j = i - m
      OBVIOUS
    <3>2. j \in 1..n /\ m + j = i
      BY <1>1, <2>2, <3>1
    <3>3. u[m + j] = t[j] /\ v[m + j] = t[j]
      BY <1>1, <3>2 DEF AreParts
    <3> QED
      BY <3>2, <3>3
  <2> QED
    BY <2>1, <2>2
<1> QED
  BY <1>2, <1>3, SeqEqual

\* The triplets of bytes that follow whole triplets.
LEMMA QuadsOfParts ==
    ASSUME NEW s, s \in Seq(0..255), NEW t, t \in Seq(0..255), NEW u, u \in Seq(0..255),
           AreParts(u, s, t), Len(s) % 3 = 0
    PROVE  AreParts(Quads(u), Quads(s), Quads(t))
<1>1. PICK a, b : a = Len(s) \div 3 /\ b = Len(t) \div 3 /\ a \in Nat /\ b \in Nat
  OBVIOUS
<1>2. Len(s) = 3 * a /\ Len(t) \in Nat
  BY <1>1
<1>3. Len(u) \div 3 = a + b
  <2>1. PICK n : n = Len(t) /\ n \in Nat
    BY <1>2
  <2>2. Len(u) = 3 * a + n
    BY <1>2, <2>1 DEF AreParts
  <2>3. (3 * a + n) \div 3 = a + (n \div 3)
    BY ONLY <1>1, <2>1
  <2> QED
    BY <1>1, <2>1, <2>2, <2>3
<1>4. Len(Quads(u)) = a + b /\ Len(Quads(s)) = a /\ Len(Quads(t)) = b
  BY <1>1, <1>3, QuadsType
<1>5. ASSUME NEW i \in 1..a PROVE Quads(u)[i] = Quads(s)[i]
  <2>1. PICK x, y, z : x = 3 * i - 2 /\ y = 3 * i - 1 /\ z = 3 * i
    OBVIOUS
  <2>2. x \in 1..Len(s) /\ y \in 1..Len(s) /\ z \in 1..Len(s)
    BY <1>1, <1>2, <2>1
  <2>3. u[x] = s[x] /\ u[y] = s[y] /\ u[z] = s[z]
    BY <2>2 DEF AreParts
  <2>4. QuadAt(u, i) = QuadAt(s, i)
    BY <2>1, <2>3 DEF QuadAt
  <2>5. Quads(u)[i] = QuadAt(u, i) /\ Quads(s)[i] = QuadAt(s, i)
    BY <1>1, <1>3, QuadsType
  <2> QED
    BY <2>4, <2>5
<1>6. ASSUME NEW i \in 1..b PROVE Quads(u)[a + i] = Quads(t)[i]
  <2>1. PICK x, y, z, l : x = 3 * i - 2 /\ y = 3 * i - 1 /\ z = 3 * i /\ l = a + i
    OBVIOUS
  <2>2. x \in 1..Len(t) /\ y \in 1..Len(t) /\ z \in 1..Len(t)
    BY <1>1, <1>2, <2>1
  <2>3. u[Len(s) + x] = t[x] /\ u[Len(s) + y] = t[y] /\ u[Len(s) + z] = t[z]
    BY <2>2 DEF AreParts
  <2>4. Len(s) + x = 3 * l - 2 /\ Len(s) + y = 3 * l - 1 /\ Len(s) + z = 3 * l
    BY <1>1, <1>2, <2>1
  <2>5. QuadAt(u, l) = QuadAt(t, i)
    BY <2>1, <2>3, <2>4 DEF QuadAt
  <2>6. l \in 1..(a + b)
    BY <1>1, <2>1
  <2>7. Quads(u)[l] = QuadAt(u, l) /\ Quads(t)[i] = QuadAt(t, i)
    BY <1>1, <1>3, <2>6, QuadsType
  <2> QED
    BY <2>1, <2>5, <2>7
<1> QED
  BY <1>4, <1>5, <1>6 DEF AreParts

\* The code has digits.
LEMMA TripletsType ==
    ASSUME NEW bytes, bytes \in Seq(0..255)
    PROVE  EncodeTriplets(bytes) \in Seq(0..63)
BY TripletsAreQuads, QuadsType, ConcatType

\* The code of bytes that follow whole triplets comes after the code of these.
LEMMA TripletsOfParts ==
    ASSUME NEW s, s \in Seq(0..255), NEW t, t \in Seq(0..255), NEW u, u \in Seq(0..255),
           AreParts(u, s, t), Len(s) % 3 = 0
    PROVE  EncodeTriplets(u) = EncodeTriplets(s) \o EncodeTriplets(t)
<1>1. PICK p, q, r, D : p = Quads(s) /\ q = Quads(t) /\ r = Quads(u) /\ D = 0..63
  OBVIOUS
<1>2. p \in Seq(Seq(D)) /\ q \in Seq(Seq(D)) /\ r \in Seq(Seq(D))
  BY <1>1, QuadsType
<1>3. AreParts(r, p, q)
  BY <1>1, QuadsOfParts
<1>4. PICK joined : joined = p \o q
  OBVIOUS
<1>5. joined \in Seq(Seq(D)) /\ AreParts(joined, p, q)
  BY ONLY <1>2, <1>4, Parts
<1>6. r = joined
  BY ONLY <1>2, <1>3, <1>5, PartsAreUnique
<1>7. Concat(p \o q) = Concat(p) \o Concat(q)
  BY ONLY <1>2, ConcatJoined
<1>8. Concat(r) = Concat(p) \o Concat(q)
  BY ONLY <1>4, <1>6, <1>7
<1>9. /\ Concat(r) = EncodeTriplets(u) /\ Concat(p) = EncodeTriplets(s)
      /\ Concat(q) = EncodeTriplets(t)
  BY <1>1, TripletsAreQuads
<1> QED
  BY ONLY <1>8, <1>9

\* A sequence, before and after an index.
LEMMA SliceParts ==
    ASSUME NEW S, NEW s, s \in Seq(S), NEW a \in Nat, NEW b \in Nat, a <= b, b <= Len(s)
    PROVE  /\ SubSeq(s, 1, a) \in Seq(S) /\ SubSeq(s, 1, b) \in Seq(S) /\ SubSeq(s, a + 1, b) \in Seq(S)
           /\ Len(SubSeq(s, 1, a)) = a
           /\ AreParts(SubSeq(s, 1, b), SubSeq(s, 1, a), SubSeq(s, a + 1, b))
<1>1. PICK u, v, w : u = SubSeq(s, 1, b) /\ v = SubSeq(s, 1, a) /\ w = SubSeq(s, a + 1, b)
  OBVIOUS
<1>2. u \in Seq(S) /\ Len(u) = b /\ \A i \in 1..b : u[i] = s[i]
  BY <1>1
<1>3. v \in Seq(S) /\ Len(v) = a /\ \A i \in 1..a : v[i] = s[i]
  BY <1>1
<1>4. w \in Seq(S) /\ Len(w) = b - a /\ \A i \in 1..(b - a) : w[i] = s[a + i]
  BY <1>1
<1>5. AreParts(u, v, w)
  <2>1. Len(u) = Len(v) + Len(w)
    BY <1>2, <1>3, <1>4
  <2>2. \A i \in 1..Len(v) : u[i] = v[i]
    BY <1>2, <1>3
  <2>3. ASSUME NEW i \in 1..(b - a) PROVE u[a + i] = w[i]
    <3>1. PICK j : j = a + i
      OBVIOUS
    <3>2. j \in 1..b
      BY <3>1
    <3> QED
      BY <1>2, <1>4, <3>1, <3>2
  <2> QED
    BY <1>3, <1>4, <2>1, <2>2, <2>3 DEF AreParts
<1> QED
  BY <1>1, <1>2, <1>3, <1>4, <1>5

\* The number of chunks.
LEMMA ChunkNumber ==
    ASSUME NEW size \in Nat, NEW length \in Nat, length > 0,
           NEW number, number = (size + length - 1) \div length
    PROVE  /\ number \in Nat /\ length * number >= size
           /\ \A m \in Nat : m < number => length * m < size
<1>1. PICK x : x = size + length - 1 /\ x \in Nat
  OBVIOUS
<1>a. number = x \div length
  BY <1>1
<1>2. number \in Nat /\ length * number <= x /\ x < length * number + length
  <2>1. number \in Nat
    BY ONLY <1>1, <1>a, length \in Nat, length > 0
  <2>2. length * number <= x
    BY ONLY <1>1, <1>a, length \in Nat, length > 0
  <2>3. x < length * number + length
    BY ONLY <1>1, <1>a, length \in Nat, length > 0
  <2> QED
    BY <2>1, <2>2, <2>3
<1>3. ASSUME NEW m \in Nat, m < number PROVE length * m < size
  <2>1. length * m + length <= x
    BY ONLY <1>1, <1>2, <1>3, length \in Nat, length > 0, m \in Nat
  <2> QED
    BY <1>1, <2>1
<1>4. length * number >= size
  BY <1>1, <1>2
<1> QED
  BY <1>2, <1>3, <1>4

LEMMA TripletsOfNone == EncodeTriplets(<<>>) = <<>>
<1>1. Len(Quads(<<>>)) = 0 /\ Quads(<<>>) \in Seq(Seq(0..63))
  <2>1. <<>> \in Seq(0..255) /\ Len(<<>>) \div 3 = 0
    OBVIOUS
  <2> QED
    BY <2>1, QuadsType
<1>2. Quads(<<>>) = <<>>
  BY <1>1
<1> QED
  BY <1>2, TripletsAreQuads, ConcatEmpty

\* Where chunk m ends, and what it is.
ChunkEnd(size, length, m) == IF length * m < size THEN length * m ELSE size

ChunkAt(bytes, length, i) == SubSeq(bytes, length * (i - 1) + 1, ChunkEnd(Len(bytes), length, i))

\* Where a chunk ends.
LEMMA ChunkEnds ==
    ASSUME NEW size \in Nat, NEW length \in Nat, length > 0, length % 3 = 0, size % 3 = 0,
           NEW m \in Nat
    PROVE  /\ ChunkEnd(size, length, m) \in Nat /\ ChunkEnd(size, length, m) <= size
           /\ ChunkEnd(size, length, m) <= ChunkEnd(size, length, m + 1)
           /\ ChunkEnd(size, length, m) % 3 = 0
           /\ length * m < size => ChunkEnd(size, length, m) = length * m
<1>1. PICK x : x = length * m /\ x \in Nat
  <2>1. length * m \in Nat
    OBVIOUS
  <2> QED
    BY <2>1
<1>2. PICK y : y = length * (m + 1) /\ y = x + length
  BY <1>1
<1>3. x % 3 = 0
  <2>1. PICK q : q = length \div 3 /\ q \in Nat /\ length = 3 * q
    OBVIOUS
  <2>2. PICK p : p = q * m /\ p \in Nat
    <3>1. q * m \in Nat
      BY ONLY <2>1, m \in Nat
    <3> QED
      BY <3>1
  <2>3. x = 3 * p
    BY ONLY <1>1, <2>1, <2>2, m \in Nat
  <2> QED
    BY ONLY <2>2, <2>3
<1>4. /\ ChunkEnd(size, length, m) = IF x < size THEN x ELSE size
      /\ ChunkEnd(size, length, m + 1) = IF y < size THEN y ELSE size
  BY <1>1, <1>2 DEF ChunkEnd
<1> QED
  BY <1>1, <1>2, <1>3, <1>4

\* There is a chunk after m.
HasChunk(bytes, size, length, m, next) ==
    /\ bytes \in Seq(0..255) /\ size = Len(bytes) /\ size % 3 = 0
    /\ length \in Nat /\ length > 0 /\ length % 3 = 0
    /\ m \in Nat /\ next = m + 1 /\ length * m < size

ChunkIsCoded(bytes, a, b, chunk) ==
    /\ EncodeTriplets(chunk) \in Seq(0..63)
    /\ EncodeTriplets(SubSeq(bytes, 1, b)) =
          EncodeTriplets(SubSeq(bytes, 1, a)) \o EncodeTriplets(chunk)

\* One more chunk.
LEMMA ChunkCoded ==
    ASSUME NEW bytes, NEW size, NEW length, NEW m, NEW next,
           HasChunk(bytes, size, length, m, next),
           NEW a, a = ChunkEnd(size, length, m), NEW b, b = ChunkEnd(size, length, next),
           NEW chunk, chunk = ChunkAt(bytes, length, next)
    PROVE  ChunkIsCoded(bytes, a, b, chunk)
<1>0. /\ bytes \in Seq(0..255) /\ size = Len(bytes) /\ size % 3 = 0
      /\ length \in Nat /\ length > 0 /\ length % 3 = 0
      /\ m \in Nat /\ next = m + 1 /\ length * m < size
  BY DEF HasChunk
<1>1. size \in Nat
  BY <1>0
<1>a. /\ length \in Nat /\ length > 0 /\ length % 3 = 0 /\ size % 3 = 0
      /\ m \in Nat /\ m + 1 \in Nat
  BY <1>0
<1>b. /\ ChunkEnd(size, length, m) \in Nat
      /\ ChunkEnd(size, length, m) <= ChunkEnd(size, length, m + 1)
      /\ ChunkEnd(size, length, m) % 3 = 0
      /\ length * m < size => ChunkEnd(size, length, m) = length * m
  BY ONLY <1>1, <1>a, ChunkEnds
<1>c. ChunkEnd(size, length, m + 1) \in Nat /\ ChunkEnd(size, length, m + 1) <= size
  BY ONLY <1>1, <1>a, ChunkEnds
<1>2. a \in Nat /\ b \in Nat /\ a <= b /\ b <= size /\ a % 3 = 0 /\ length * m = a
  BY <1>0, <1>b, <1>c
<1>3. chunk = SubSeq(bytes, a + 1, b)
  <2>1. (m + 1) - 1 = m
    BY <1>0
  <2> QED
    BY <1>0, <1>2, <2>1 DEF ChunkAt
<1>4. PICK s, t, u : s = SubSeq(bytes, 1, a) /\ t = SubSeq(bytes, a + 1, b) /\ u = SubSeq(bytes, 1, b)
  OBVIOUS
<1>5. PICK D : D = 0..255 /\ bytes \in Seq(D) /\ b <= Len(bytes)
  BY <1>0, <1>2
<1>d. /\ SubSeq(bytes, 1, a) \in Seq(D) /\ SubSeq(bytes, 1, b) \in Seq(D)
      /\ SubSeq(bytes, a + 1, b) \in Seq(D) /\ Len(SubSeq(bytes, 1, a)) = a
      /\ AreParts(SubSeq(bytes, 1, b), SubSeq(bytes, 1, a), SubSeq(bytes, a + 1, b))
  <2>1. bytes \in Seq(D) /\ b <= Len(bytes) /\ a \in Nat /\ b \in Nat /\ a <= b
    BY <1>2, <1>5
  <2> QED
    BY ONLY <2>1, SliceParts
<1>6. /\ s \in Seq(0..255) /\ t \in Seq(0..255) /\ u \in Seq(0..255) /\ Len(s) = a
      /\ AreParts(u, s, t)
  BY ONLY <1>4, <1>5, <1>d
<1>7. EncodeTriplets(u) = EncodeTriplets(s) \o EncodeTriplets(t)
  BY ONLY <1>2, <1>6, TripletsOfParts
<1>8. EncodeTriplets(t) \in Seq(0..63)
  BY ONLY <1>6, TripletsType
<1> QED
  BY <1>3, <1>4, <1>7, <1>8 DEF ChunkIsCoded

\* Bytes that are encoded by the chunk are encoded as if there were one chunk.
LEMMA ChunksCoded ==
    ASSUME NEW bytes, bytes \in Seq(0..255), Len(bytes) % 3 = 0,
           NEW length \in Nat, length > 0, length % 3 = 0
    PROVE  LET chunks == Chunks(bytes, length)
           IN  Concat([i \in DOMAIN chunks |-> EncodeTriplets(chunks[i])]) = EncodeTriplets(bytes)
<1>1. PICK size : size = Len(bytes) /\ size \in Nat
  <2>1. Len(bytes) \in Nat
    OBVIOUS
  <2> QED
    BY <2>1
<1>2. PICK number : number = (size + length - 1) \div length
  OBVIOUS
<1>3. /\ number \in Nat /\ length * number >= size
      /\ \A m \in Nat : m < number => length * m < size
  BY ONLY <1>1, <1>2, length \in Nat, length > 0, ChunkNumber
<1> DEFINE End(m) == ChunkEnd(size, length, m)
           Code(i) == EncodeTriplets(ChunkAt(bytes, length, i))
           Codes(m) == [i \in 1..m |-> Code(i)]
           T == {m \in Nat : m <= number => Concat(Codes(m)) = EncodeTriplets(SubSeq(bytes, 1, End(m)))}
<1>4. ASSUME NEW m \in Nat, m < number
      PROVE  /\ Code(m + 1) \in Seq(0..63)
             /\ EncodeTriplets(SubSeq(bytes, 1, End(m + 1))) =
                  EncodeTriplets(SubSeq(bytes, 1, End(m))) \o Code(m + 1)
  <2>1. length * m < size
    BY <1>3, <1>4
  <2>2. PICK next, a, b, chunk :
          /\ next = m + 1 /\ a = ChunkEnd(size, length, m) /\ b = ChunkEnd(size, length, next)
          /\ chunk = ChunkAt(bytes, length, next)
    OBVIOUS
  <2>3. /\ bytes \in Seq(0..255) /\ size = Len(bytes) /\ size % 3 = 0
        /\ length \in Nat /\ length > 0 /\ length % 3 = 0 /\ m \in Nat
    BY <1>1
  <2>5. HasChunk(bytes, size, length, m, next)
    BY <2>1, <2>2, <2>3 DEF HasChunk
  <2>4. ChunkIsCoded(bytes, a, b, chunk)
    BY ONLY <2>2, <2>5, ChunkCoded
  <2> QED
    BY ONLY <2>2, <2>4 DEF ChunkIsCoded
<1>7. \A i \in 1..number : Code(i) \in Seq(0..63)
  <2> TAKE i \in 1..number
  <2>1. PICK m : m = i - 1 /\ m \in Nat /\ m < number /\ m + 1 = i
    BY <1>3
  <2> HIDE DEF Code
  <2> QED
    BY <1>4, <2>1
<1>8. 0 \in T
  <2>1. Codes(0) = <<>>
    OBVIOUS
  <2>2. End(0) = 0
    BY <1>1 DEF ChunkEnd
  <2>3. SubSeq(bytes, 1, 0) = <<>>
    OBVIOUS
  <2> HIDE DEF Codes, End
  <2> QED
    BY <2>1, <2>2, <2>3, ConcatEmpty, TripletsOfNone
<1> HIDE DEF End, Code
<1>9. ASSUME NEW m \in Nat, m \in T PROVE m + 1 \in T
  <2>1. ASSUME m + 1 <= number
        PROVE  Concat(Codes(m + 1)) = EncodeTriplets(SubSeq(bytes, 1, End(m + 1)))
    <3>1. m < number /\ m <= number
      BY <1>3, <2>1
    <3>2. Concat(Codes(m)) = EncodeTriplets(SubSeq(bytes, 1, End(m)))
      BY <1>9, <3>1
    <3>3. PICK D, code : D = 0..63 /\ code = Code(m + 1) /\ code \in Seq(D)
      BY <1>4, <3>1
    <3>4. Codes(m) \in Seq(Seq(D)) /\ Codes(m + 1) = Append(Codes(m), code)
      <4>1. \A i \in 1..(m + 1) : Code(i) \in Seq(D)
        BY <1>3, <1>7, <2>1, <3>3
      <4>2. PICK U : U = Seq(D)
        OBVIOUS
      <4>3. Codes(m) \in Seq(U) /\ Len(Codes(m)) = m
        BY <4>1, <4>2
      <4>4. Codes(m + 1) = Append(Codes(m), code)
        BY <3>3, <4>3
      <4> QED
        BY <4>2, <4>3, <4>4
    <3> HIDE DEF Codes
    <3>5. PICK codes : codes = Codes(m) /\ codes \in Seq(Seq(D))
      BY <3>4
    <3>6. Concat(Append(codes, code)) = Concat(codes) \o code
      BY ONLY <3>3, <3>5, ConcatAppend
    <3>7. EncodeTriplets(SubSeq(bytes, 1, End(m + 1))) =
            EncodeTriplets(SubSeq(bytes, 1, End(m))) \o code
      BY <1>4, <3>1, <3>3
    <3> QED
      BY ONLY <3>2, <3>4, <3>5, <3>6, <3>7
  <2> QED
    BY <2>1
<1>10. number \in T
  <2> HIDE DEF T
  <2> QED
    BY <1>3, <1>8, <1>9, Joining!NaturalInduction
<1>11. Concat(Codes(number)) = EncodeTriplets(SubSeq(bytes, 1, End(number)))
  BY <1>3, <1>10
<1>12. End(number) = size /\ SubSeq(bytes, 1, size) = bytes
  <2>1. ~(length * number < size)
    <3>1. PICK x : x = length * number /\ x \in Nat
      <4>1. length * number \in Nat
        BY <1>3
      <4> QED
        BY <4>1
    <3> QED
      BY <1>1, <1>3, <3>1
  <2>2. End(number) = size
    BY <2>1 DEF End, ChunkEnd
  <2> QED
    BY <1>1, <2>2
<1>13. PICK chunks : chunks = Chunks(bytes, length)
  OBVIOUS
<1>14. chunks = [i \in 1..number |-> ChunkAt(bytes, length, i)]
  BY <1>1, <1>2, <1>13 DEF Chunks, ChunkAt, ChunkEnd
<1>15. DOMAIN chunks = 1..number /\ \A i \in 1..number : chunks[i] = ChunkAt(bytes, length, i)
  BY <1>14
<1>16. [i \in DOMAIN chunks |-> EncodeTriplets(chunks[i])] = Codes(number)
  BY <1>15 DEF Code
<1> QED
  BY <1>11, <1>12, <1>13, <1>16

Pads(n) == [i \in 1..n |-> Padding]

\* The digits of bytes without what pads them: zeros, of which there is one for each padding,
\* make them the code of triplets.
AreDigits(digits, holders, bytes, padded) ==
    /\ digits \in Seq(0..63) /\ holders \in 0..2 /\ (Len(digits) + holders) % 4 = 0
    /\ padded \in Seq(0..255) /\ Len(padded) = Len(bytes) + holders /\ Len(padded) % 3 = 0
    /\ \A i \in 1..Len(bytes) : padded[i] = bytes[i]
    /\ EncodeTriplets(padded) = digits \o Zeros(holders)

\* Paddings and zeros, of which there are two at most.
LEMMA PadsAre ==
    /\ Pads(0) = <<>> /\ Pads(1) = <<Padding>> /\ Pads(2) = <<Padding, Padding>>
    /\ Zeros(0) = <<>> /\ Zeros(1) = <<0>> /\ Zeros(2) = <<0, 0>>
<1>1. PICK S : S = {Padding, 0}
  OBVIOUS
<1>2. Pads(0) = <<>> /\ Zeros(0) = <<>>
  BY DEF Pads, Zeros
<1>3. Pads(1) = <<Padding>>
  <2>1. PICK s, t : s = Pads(1) /\ t = <<Padding>>
    OBVIOUS
  <2>2. s \in Seq(S) /\ t \in Seq(S) /\ Len(s) = 1 /\ Len(t) = 1 /\ s[1] = Padding /\ t[1] = Padding
    BY <1>1, <2>1 DEF Pads
  <2>3. \A i \in 1..1 : s[i] = t[i]
    BY <2>2
  <2> QED
    BY ONLY <2>1, <2>2, <2>3, SeqEqual
<1>4. Pads(2) = <<Padding, Padding>>
  <2>1. PICK s, t : s = Pads(2) /\ t = <<Padding, Padding>>
    OBVIOUS
  <2>2. /\ s \in Seq(S) /\ t \in Seq(S) /\ Len(s) = 2 /\ Len(t) = 2
        /\ s[1] = Padding /\ t[1] = Padding /\ s[2] = Padding /\ t[2] = Padding
    BY <1>1, <2>1 DEF Pads
  <2>3. \A i \in 1..2 : s[i] = t[i]
    BY <2>2
  <2> QED
    BY ONLY <2>1, <2>2, <2>3, SeqEqual
<1>5. Zeros(1) = <<0>>
  <2>1. PICK s, t : s = Zeros(1) /\ t = <<0>>
    OBVIOUS
  <2>2. s \in Seq(S) /\ t \in Seq(S) /\ Len(s) = 1 /\ Len(t) = 1 /\ s[1] = 0 /\ t[1] = 0
    BY <1>1, <2>1 DEF Zeros
  <2>3. \A i \in 1..1 : s[i] = t[i]
    BY <2>2
  <2> QED
    BY ONLY <2>1, <2>2, <2>3, SeqEqual
<1>6. Zeros(2) = <<0, 0>>
  <2>1. PICK s, t : s = Zeros(2) /\ t = <<0, 0>>
    OBVIOUS
  <2>2. /\ s \in Seq(S) /\ t \in Seq(S) /\ Len(s) = 2 /\ Len(t) = 2
        /\ s[1] = 0 /\ t[1] = 0 /\ s[2] = 0 /\ t[2] = 0
    BY <1>1, <2>1 DEF Zeros
  <2>3. \A i \in 1..2 : s[i] = t[i]
    BY <2>2
  <2> QED
    BY ONLY <2>1, <2>2, <2>3, SeqEqual
<1> QED
  BY <1>2, <1>3, <1>4, <1>5, <1>6

\* Tuples of four, in two parts.
LEMMA SplitAfterTwo ==
    ASSUME NEW w, NEW x, NEW y, NEW z
    PROVE  <<w, x, y, z>> = <<w, x>> \o <<y, z>>
<1>1. PICK S, s, t, u, v :
        S = {w, x, y, z} /\ s = <<w, x>> /\ t = <<y, z>> /\ u = <<w, x, y, z>> /\ v = s \o t
  OBVIOUS
<1>2. /\ s \in Seq(S) /\ Len(s) = 2 /\ s[1] = w /\ s[2] = x
      /\ t \in Seq(S) /\ Len(t) = 2 /\ t[1] = y /\ t[2] = z
  BY <1>1
<1>3. u \in Seq(S) /\ Len(u) = 4 /\ u[1] = w /\ u[2] = x /\ u[3] = y /\ u[4] = z
  BY <1>1
<1>4. v \in Seq(S) /\ AreParts(v, s, t)
  BY ONLY <1>1, <1>2, Parts
<1>5. AreParts(u, s, t)
  BY ONLY <1>2, <1>3 DEF AreParts
<1>6. u = v
  BY ONLY <1>2, <1>3, <1>4, <1>5, PartsAreUnique
<1> QED
  BY <1>1, <1>6

LEMMA SplitAfterThree ==
    ASSUME NEW w, NEW x, NEW y, NEW z
    PROVE  <<w, x, y, z>> = <<w, x, y>> \o <<z>>
<1>1. PICK S, s, t, u, v :
        S = {w, x, y, z} /\ s = <<w, x, y>> /\ t = <<z>> /\ u = <<w, x, y, z>> /\ v = s \o t
  OBVIOUS
<1>2. /\ s \in Seq(S) /\ Len(s) = 3 /\ s[1] = w /\ s[2] = x /\ s[3] = y
      /\ t \in Seq(S) /\ Len(t) = 1 /\ t[1] = z
  BY <1>1
<1>3. u \in Seq(S) /\ Len(u) = 4 /\ u[1] = w /\ u[2] = x /\ u[3] = y /\ u[4] = z
  BY <1>1
<1>4. v \in Seq(S) /\ AreParts(v, s, t)
  BY ONLY <1>1, <1>2, Parts
<1>5. AreParts(u, s, t)
  BY ONLY <1>2, <1>3 DEF AreParts
<1>6. u = v
  BY ONLY <1>2, <1>3, <1>4, <1>5, PartsAreUnique
<1> QED
  BY <1>1, <1>6

\* The code of one triplet.
LEMMA OneTriplet ==
    ASSUME NEW a, NEW b, NEW c, a \in 0..255, b \in 0..255, c \in 0..255
    PROVE  EncodeTriplets(<<a, b, c>>) = Quad(a, b, c)
<1>1. PICK bytes : bytes = <<a, b, c>>
  OBVIOUS
<1>2. bytes \in Seq(0..255) /\ Len(bytes) = 3 /\ bytes[1] = a /\ bytes[2] = b /\ bytes[3] = c
  BY <1>1
<1>3. PICK D, p, q : D = 0..63 /\ p = Quads(bytes) /\ q = Quad(a, b, c)
  OBVIOUS
<1>4. p \in Seq(Seq(D)) /\ Len(p) = 1 /\ p[1] = QuadAt(bytes, 1)
  <2>1. PICK k : k = Len(bytes) \div 3
    OBVIOUS
  <2>2. k = 1
    BY <1>2, <2>1
  <2>3. bytes \in Seq(0..255)
    BY <1>2
  <2>4. /\ Quads(bytes) \in Seq(Seq(0..63)) /\ Len(Quads(bytes)) = k
        /\ \A i \in 1..k : Quads(bytes)[i] = QuadAt(bytes, i)
    BY ONLY <2>1, <2>3, QuadsType
  <2> QED
    BY <1>3, <2>2, <2>4
<1>5. QuadAt(bytes, 1) = q
  BY <1>2, <1>3 DEF QuadAt
<1>6. q \in Seq(D)
  BY <1>3, QuadType
<1>7. p = Append(<<>>, q)
  <2>1. PICK U, r : U = Seq(D) /\ r = Append(<<>>, q)
    OBVIOUS
  <2>2. p \in Seq(U) /\ r \in Seq(U) /\ Len(r) = 1 /\ r[1] = q
    BY <1>4, <1>6, <2>1
  <2>3. \A i \in 1..1 : p[i] = r[i]
    BY <1>4, <1>5, <2>2
  <2> QED
    BY ONLY <1>4, <2>1, <2>2, <2>3, SeqEqual
<1>8. Concat(Append(<<>>, q)) = Concat(<<>>) \o q
  <2>0. <<>> \in Seq(Seq(D))
    OBVIOUS
  <2>1. PICK U, none : U = Seq(D) /\ none = <<>> /\ none \in Seq(U)
    BY <2>0
  <2>2. q \in U
    BY <1>6, <2>1
  <2> QED
    BY ONLY <2>1, <2>2, ConcatAppend
<1>9. <<>> \o q = q
  BY <1>6
<1> QED
  BY <1>1, <1>3, <1>7, <1>8, <1>9, ConcatEmpty, TripletsAreQuads

\* The code of triplets, as the decoder takes it.
LEMMA TripletsLength ==
    ASSUME NEW bytes, bytes \in Seq(0..255), Len(bytes) % 3 = 0
    PROVE  /\ EncodeTriplets(bytes) \in Seq(0..63)
           /\ AreCoded(EncodeTriplets(bytes), bytes)
           /\ Len(EncodeTriplets(bytes)) % 4 = 0
<1>1. PICK D, p, u : D = 0..63 /\ p = Quads(bytes) /\ u = Concat(p)
  OBVIOUS
<1>2. p \in Seq(Seq(D)) /\ \A i \in 1..Len(p) : Len(p[i]) = 4
  BY <1>1, QuadsType
<1>3. u \in Seq(D)
  BY ONLY <1>1, <1>2, ConcatType
<1>4. IsUniform(p, 4, u)
  BY <1>1, <1>2, UniformConcat DEF IsPieceSize
<1>5. Len(u) % 4 = 0
  <2>1. Len(p) \in Nat
    BY <1>2
  <2>2. PICK k : k = Len(p) /\ k \in Nat
    BY <2>1
  <2>3. Len(u) = 4 * k
    BY <1>4, <2>2 DEF IsUniform
  <2> QED
    BY ONLY <2>2, <2>3
<1> QED
  BY <1>1, <1>3, <1>4, <1>5, TripletsAreQuads DEF AreCoded

\* The last bytes, of which there are one or two, and the digits they become.
AreLast(bytes, full, a, b, holders, front) ==
    /\ bytes \in Seq(0..255) /\ full \in Seq(0..255) /\ Len(full) % 3 = 0
    /\ a \in 0..255 /\ b \in 0..255 /\ holders \in 1..2
    /\ front \in Seq(0..63) /\ Len(front) = 4 - holders
    /\ Quad(a, b, 0) = front \o Zeros(holders)
    /\ Len(bytes) = Len(full) + 3 - holders
    /\ \A i \in 1..Len(full) : bytes[i] = full[i]
    /\ bytes[Len(full) + 1] = a
    /\ holders = 1 => bytes[Len(full) + 2] = b

\* The last bytes, with the zeros that make them a triplet.
LEMMA LastDigits ==
    ASSUME NEW bytes, NEW full, NEW a, NEW b, NEW holders, NEW front,
           AreLast(bytes, full, a, b, holders, front),
           NEW digits, digits = EncodeTriplets(full) \o front
    PROVE  \E padded : AreDigits(digits, holders, bytes, padded)
<1>1. /\ bytes \in Seq(0..255) /\ full \in Seq(0..255) /\ Len(full) % 3 = 0
      /\ a \in 0..255 /\ b \in 0..255 /\ holders \in 1..2
      /\ front \in Seq(0..63) /\ Len(front) = 4 - holders
      /\ Quad(a, b, 0) = front \o Zeros(holders)
      /\ Len(bytes) = Len(full) + 3 - holders
  BY DEF AreLast
<1>2. PICK body : body = EncodeTriplets(full) /\ body \in Seq(0..63) /\ Len(body) % 4 = 0
  BY <1>1, TripletsLength
<1>3. digits \in Seq(0..63) /\ AreParts(digits, body, front)
  <2>1. digits = body \o front /\ front \in Seq(0..63)
    BY <1>1, <1>2
  <2> QED
    BY ONLY <1>2, <2>1, Parts
<1>4. (Len(digits) + holders) % 4 = 0
  <2>1. PICK m : m = Len(body) /\ m % 4 = 0
    BY <1>2
  <2>2. m \in Nat
    BY <1>2, <2>1
  <2>3. Len(digits) = m + 4 - holders
    BY <1>1, <1>3, <2>1 DEF AreParts
  <2>4. Len(digits) + holders = m + 4
    BY <1>1, <2>2, <2>3
  <2> QED
    BY <2>1, <2>2, <2>4
<1>5. PICK last : last = <<a, b, 0>>
  OBVIOUS
<1>6. last \in Seq(0..255) /\ Len(last) = 3 /\ last[1] = a /\ last[2] = b /\ last[3] = 0
  BY <1>1, <1>5
<1>7. PICK padded : padded = full \o last
  OBVIOUS
<1>8. padded \in Seq(0..255) /\ AreParts(padded, full, last)
  <2>1. full \in Seq(0..255) /\ last \in Seq(0..255)
    BY <1>1, <1>6
  <2> QED
    BY ONLY <1>7, <2>1, Parts
<1>9. PICK n : n = Len(full) /\ n % 3 = 0
  BY <1>1
<1>10. n \in Nat
  BY <1>1, <1>9
<1>11. Len(padded) = n + 3 /\ Len(padded) = Len(bytes) + holders
  BY <1>1, <1>6, <1>8, <1>9, <1>10 DEF AreParts
<1>12. Len(padded) % 3 = 0
  BY <1>9, <1>10, <1>11
<1>13. ASSUME NEW i \in 1..Len(bytes) PROVE padded[i] = bytes[i]
  <2>1. CASE i <= n
    BY <1>8, <1>9, <1>10, <2>1 DEF AreParts, AreLast
  <2>2. CASE ~(i <= n)
    <3>1. i = n + 1 \/ (i = n + 2 /\ holders = 1)
      <4>1. PICK l : l = Len(bytes) /\ l = n + 3 - holders
        BY <1>1, <1>9
      <4>2. holders = 1 \/ holders = 2
        BY <1>1
      <4>3. i \in 1..l
        BY <4>1
      <4> QED
        BY ONLY <1>10, <2>2, <4>1, <4>2, <4>3
    <3>2. padded[n + 1] = a /\ padded[n + 2] = b
      BY <1>6, <1>8, <1>9 DEF AreParts
    <3> QED
      BY <1>9, <3>1, <3>2 DEF AreLast
  <2> QED
    BY <2>1, <2>2
<1>14. EncodeTriplets(padded) = digits \o Zeros(holders)
  <2>1. EncodeTriplets(padded) = EncodeTriplets(full) \o EncodeTriplets(last)
    <3>1. full \in Seq(0..255) /\ Len(full) % 3 = 0 /\ last \in Seq(0..255)
      BY <1>1, <1>6
    <3> QED
      BY ONLY <1>8, <3>1, TripletsOfParts
  <2>2. EncodeTriplets(last) = Quad(a, b, 0)
    <3>1. PICK c : c = 0 /\ c \in 0..255
      OBVIOUS
    <3>2. EncodeTriplets(<<a, b, c>>) = Quad(a, b, c)
      BY ONLY <1>1, <3>1, OneTriplet
    <3> QED
      BY ONLY <1>5, <3>1, <3>2
  <2>3. PICK zeros : zeros = Zeros(holders)
    OBVIOUS
  <2>4. front \in Seq(0..63) /\ zeros \in Seq(0..63)
    BY <1>1, <2>3 DEF Zeros
  <2>5. (body \o front) \o zeros = body \o (front \o zeros)
    BY ONLY <1>2, <2>4, ConcatAssociative
  <2>6. EncodeTriplets(last) = front \o zeros
    BY <1>1, <2>2, <2>3
  <2>7. digits = body \o front
    BY <1>2
  <2> QED
    BY ONLY <1>2, <2>1, <2>3, <2>5, <2>6, <2>7
<1>15. AreDigits(digits, holders, bytes, padded)
  BY ONLY <1>1, <1>3, <1>4, <1>8, <1>11, <1>12, <1>13, <1>14 DEF AreDigits
<1> QED
  BY <1>15

\* What is encoded is digits and the paddings of the bytes they lack.
AreEncoded(text, digits, holders, bytes, padded) ==
    text = digits \o Pads(holders) /\ AreDigits(digits, holders, bytes, padded)

\* The front of a sequence.
LEMMA SliceIs ==
    ASSUME NEW S, NEW s, s \in Seq(S), NEW m, m \in Nat, m <= Len(s), NEW t, t = SubSeq(s, 1, m)
    PROVE  t \in Seq(S) /\ Len(t) = m /\ \A i \in 1..m : t[i] = s[i]
OBVIOUS

\* The digits of a byte.
LEMMA DigitsOfByte ==
    ASSUME NEW n, n \in 0..255
    PROVE  n \div 4 \in 0..63 /\ (n % 4) * 16 \in 0..48 /\ (n % 16) * 4 \in 0..60
<1>1. n % 4 \in 0..3 /\ n % 16 \in 0..15
  BY BytesSplit
<1>2. n \div 4 \in 0..63
  OBVIOUS
<1> QED
  BY <1>1, <1>2

\* The bytes before those that make no triplet, and these.
LEMMA AllButExtra ==
    ASSUME NEW bytes, bytes \in Seq(0..255), NEW k \in Nat, NEW extra \in 0..2,
           Len(bytes) = 3 * k + extra
    PROVE  /\ AllBut(bytes, extra) = SubSeq(bytes, 1, 3 * k)
           /\ LastBytes(bytes, extra) = SubSeq(bytes, 3 * k + 1, Len(bytes))
<1>1. PICK n, m : n = Len(bytes) /\ m = 3 * k
  OBVIOUS
<1>2. n \in Nat /\ m \in Nat /\ n = m + extra /\ m <= n
  BY <1>1
<1>3. (IF n > extra THEN n - extra ELSE 0) = m
  BY <1>1, <1>2
<1>4. (IF m < n THEN m ELSE n) = m
  BY <1>2
<1>5. AllBut(bytes, extra) = SubSeq(bytes, 1, m)
  BY <1>1, <1>3, <1>4 DEF AllBut, Take
<1>6. LastBytes(bytes, extra) = SubSeq(bytes, m + 1, n)
  BY <1>1, <1>3 DEF LastBytes
<1> QED
  BY <1>1, <1>5, <1>6

\* What is encoded of whole triplets.
LEMMA EncodedWhole ==
    ASSUME NEW bytes, bytes \in Seq(0..255), Len(bytes) % 3 = 0
    PROVE  AreEncoded(EncodeTriplets(bytes), EncodeTriplets(bytes), 0, bytes, bytes)
<1>1. PICK u, none, zero : u = EncodeTriplets(bytes) /\ none = <<>> /\ zero = 0
  OBVIOUS
<1>2. u \in Seq(0..63) /\ Len(u) % 4 = 0
  BY <1>1, TripletsLength
<1>3. Pads(zero) = none /\ Zeros(zero) = none
  BY <1>1, PadsAre
<1>4. u \o none = u
  BY <1>1, <1>2
<1>5. zero \in 0..2 /\ (Len(u) + zero) % 4 = 0 /\ Len(bytes) = Len(bytes) + zero
  BY <1>1, <1>2
<1>6. AreDigits(u, zero, bytes, bytes)
  BY <1>1, <1>2, <1>3, <1>4, <1>5 DEF AreDigits
<1> QED
  BY <1>1, <1>3, <1>4, <1>6 DEF AreEncoded

\* What is encoded of other bytes.
LEMMA EncodedRest ==
    ASSUME NEW bytes, NEW full, NEW a, NEW b, NEW holders, NEW front,
           AreLast(bytes, full, a, b, holders, front),
           NEW text, text = EncodeTriplets(full) \o (front \o Pads(holders))
    PROVE  \E digits, padded : AreEncoded(text, digits, holders, bytes, padded)
<1>1. PICK body, pads, digits :
        body = EncodeTriplets(full) /\ pads = Pads(holders) /\ digits = body \o front
  OBVIOUS
<1>2. PICK padded : AreDigits(digits, holders, bytes, padded)
  BY <1>1, LastDigits
<1>3. PICK S : S = 0..64
  OBVIOUS
<1>4. body \in Seq(S) /\ front \in Seq(S) /\ pads \in Seq(S)
  <2>1. full \in Seq(0..255) /\ front \in Seq(0..63) /\ holders \in 1..2
    BY DEF AreLast
  <2>2. body \in Seq(0..63)
    BY ONLY <1>1, <2>1, TripletsType
  <2>3. pads \in Seq(S)
    BY <1>1, <1>3, <2>1 DEF Pads, Padding
  <2> QED
    BY <1>3, <2>1, <2>2, <2>3
<1>5. (body \o front) \o pads = body \o (front \o pads)
  BY ONLY <1>4, ConcatAssociative
<1>6. text = digits \o pads
  BY <1>1, <1>5
<1> QED
  BY <1>1, <1>2, <1>6 DEF AreEncoded

\* What bytesToBase64 makes is digits and paddings.
LEMMA EncodedShape ==
    ASSUME NEW bytes, bytes \in Seq(0..255), EncodingsAssumption
    PROVE  \E digits, holders, padded : AreEncoded(EncodeB64(bytes), digits, holders, bytes, padded)
<1>1. PICK k, extra : k = Len(bytes) \div 3 /\ extra = Len(bytes) % 3
  OBVIOUS
<1>2. k \in Nat /\ extra \in 0..2 /\ Len(bytes) = 3 * k + extra
  BY <1>1
<1>3. PICK full, end, text : full = AllBut(bytes, extra) /\ end = LastBytes(bytes, extra) /\ text = EncodeB64(bytes)
  OBVIOUS
<1>4. full = SubSeq(bytes, 1, 3 * k) /\ end = SubSeq(bytes, 3 * k + 1, Len(bytes))
  BY <1>2, <1>3, AllButExtra
<1>5. PICK m : m = 3 * k /\ m \in Nat /\ m % 3 = 0
  BY <1>2
<1>6. /\ full \in Seq(0..255) /\ Len(full) = m
      /\ \A i \in 1..m : bytes[i] = full[i]
  <2>0. PICK D : D = 0..255
    OBVIOUS
  <2>1. bytes \in Seq(D)
    BY <2>0
  <2>2. full = SubSeq(bytes, 1, m) /\ m <= Len(bytes) /\ m \in Nat
    BY <1>2, <1>4, <1>5
  <2>3. full \in Seq(D) /\ Len(full) = m /\ \A i \in 1..m : full[i] = bytes[i]
    BY ONLY <2>1, <2>2, SliceIs
  <2> QED
    BY <2>0, <2>3
<1>7. Len(full) % 3 = 0
  BY <1>5, <1>6
<1>8. PICK body : body = EncodeTriplets(full) /\ body \in Seq(0..63)
  BY <1>6, TripletsType
<1>9. PICK chunks : chunks = Chunks(full, MaxChunkLength)
  OBVIOUS
<1>10. Concat([i \in DOMAIN chunks |-> EncodeTriplets(chunks[i])]) = body
  <2>1. MaxChunkLength \in Nat /\ MaxChunkLength > 0 /\ MaxChunkLength % 3 = 0
    BY DEF EncodingsAssumption
  <2> QED
    BY <1>6, <1>7, <1>8, <1>9, <2>1, ChunksCoded
<1>11. text = body \o
          CASE extra = 0 -> <<>>
            [] extra = 1 -> <<end[1] \div 4, (end[1] % 4) * 16, Padding, Padding>>
            [] extra = 2 -> <<end[1] \div 4, (end[1] % 4) * 16 + end[2] \div 16,
                              (end[2] % 16) * 4, Padding>>
  BY <1>1, <1>3, <1>9, <1>10 DEF EncodeB64
<1>12. CASE extra = 0
  <2>1. full = bytes
    BY <1>2, <1>4, <1>12
  <2>2. text = body \o <<>>
    BY <1>11, <1>12
  <2>3. text = body
    BY <1>8, <2>2
  <2>4. AreEncoded(text, body, 0, bytes, bytes)
    BY <1>7, <1>8, <2>1, <2>3, EncodedWhole
  <2> QED
    BY <1>3, <2>4
<1>13. CASE extra = 1
  <2>1. PICK a, w, x : a = end[1] /\ w = a \div 4 /\ x = (a % 4) * 16
    OBVIOUS
  <2>2. Len(bytes) = m + 1 /\ a = bytes[m + 1]
    BY <1>2, <1>4, <1>5, <1>13, <2>1
  <2>3. a \in 0..255
    <3>1. PICK D, i : D = 0..255 /\ i = m + 1 /\ bytes \in Seq(D) /\ i \in 1..Len(bytes)
      BY <1>5, <2>2
    <3>2. bytes[i] \in D
      BY ONLY <3>1, ElementOf
    <3> QED
      BY <2>2, <3>1, <3>2
  <2>4. w \in 0..63 /\ x \in 0..63
    <3>1. a \div 4 \in 0..63 /\ (a % 4) * 16 \in 0..48
      BY ONLY <2>3, DigitsOfByte
    <3> QED
      BY ONLY <2>1, <3>1
  <2>5. PICK front : front = <<w, x>>
    OBVIOUS
  <2>6. front \in Seq(0..63) /\ Len(front) = 2
    BY <2>4, <2>5
  <2>7. Quad(a, 0, 0) = front \o Zeros(2)
    <3>1. Quad(a, 0, 0) = <<w, x, 0, 0>>
      BY <2>1, <2>3, <2>4 DEF Quad
    <3>2. PICK zero : zero = 0
      OBVIOUS
    <3>3. <<w, x, zero, zero>> = <<w, x>> \o <<zero, zero>>
      BY ONLY SplitAfterTwo
    <3>4. Zeros(2) = <<zero, zero>>
      BY <3>2, PadsAre
    <3> QED
      BY <2>5, <3>1, <3>2, <3>3, <3>4
  <2>8. text = body \o <<w, x, Padding, Padding>>
    BY <1>11, <1>13, <2>1
  <2>9. text = body \o (front \o Pads(2))
    <3>1. <<w, x, Padding, Padding>> = <<w, x>> \o <<Padding, Padding>>
      BY ONLY SplitAfterTwo
    <3> QED
      BY ONLY <2>5, <2>8, <3>1, PadsAre
  <2>10. AreLast(bytes, full, a, 0, 2, front)
    BY <1>5, <1>6, <1>7, <2>2, <2>3, <2>6, <2>7 DEF AreLast
  <2>11. \E digits, padded : AreEncoded(text, digits, 2, bytes, padded)
    <3>1. PICK zero, two : zero = 0 /\ two = 2
      OBVIOUS
    <3>2. AreLast(bytes, full, a, zero, two, front) /\ text = EncodeTriplets(full) \o (front \o Pads(two))
      BY <1>8, <2>9, <2>10, <3>1
    <3>3. \E digits, padded : AreEncoded(text, digits, two, bytes, padded)
      BY ONLY <3>2, EncodedRest
    <3> QED
      BY <3>1, <3>3
  <2> QED
    BY <1>3, <2>11
<1>14. CASE extra = 2
  <2>1. PICK a, b, w, x, y :
          /\ a = end[1] /\ b = end[2]
          /\ w = a \div 4 /\ x = (a % 4) * 16 + b \div 16 /\ y = (b % 16) * 4
    OBVIOUS
  <2>2. Len(bytes) = m + 2 /\ a = bytes[m + 1] /\ b = bytes[m + 2]
    BY <1>2, <1>4, <1>5, <1>14, <2>1
  <2>3. a \in 0..255 /\ b \in 0..255
    <3>1. PICK D, i, j :
            /\ D = 0..255 /\ i = m + 1 /\ j = m + 2 /\ bytes \in Seq(D)
            /\ i \in 1..Len(bytes) /\ j \in 1..Len(bytes)
      BY <1>5, <2>2
    <3>2. bytes[i] \in D /\ bytes[j] \in D
      BY ONLY <3>1, ElementOf
    <3> QED
      BY <2>2, <3>1, <3>2
  <2>4. w \in 0..63 /\ x \in 0..63 /\ y \in 0..63
    <3>1. a \div 4 \in 0..63 /\ (a % 4) * 16 \in 0..48 /\ b \div 16 \in 0..15 /\ (b % 16) * 4 \in 0..60
      BY ONLY <2>3, DigitsOfByte, BytesSplit
    <3> QED
      BY ONLY <2>1, <3>1
  <2>5. PICK front : front = <<w, x, y>>
    OBVIOUS
  <2>6. front \in Seq(0..63) /\ Len(front) = 3
    BY <2>4, <2>5
  <2>7. Quad(a, b, 0) = front \o Zeros(1)
    <3>1. Quad(a, b, 0) = <<w, x, y, 0>>
      BY <2>1, <2>3, <2>4 DEF Quad
    <3> QED
      BY <2>5, <3>1, PadsAre, SplitAfterThree
  <2>8. text = body \o <<w, x, y, Padding>>
    BY <1>11, <1>14, <2>1
  <2>9. text = body \o (front \o Pads(1))
    BY <2>5, <2>8, PadsAre, SplitAfterThree
  <2>10. AreLast(bytes, full, a, b, 1, front)
    BY <1>5, <1>6, <1>7, <2>2, <2>3, <2>6, <2>7 DEF AreLast
  <2>11. \E digits, padded : AreEncoded(text, digits, 1, bytes, padded)
    <3>1. PICK one : one = 1
      OBVIOUS
    <3>2. AreLast(bytes, full, a, b, one, front) /\ text = EncodeTriplets(full) \o (front \o Pads(one))
      BY <1>8, <2>9, <2>10, <3>1
    <3>3. \E digits, padded : AreEncoded(text, digits, one, bytes, padded)
      BY ONLY <3>2, EncodedRest
    <3> QED
      BY <3>1, <3>3
  <2> QED
    BY <1>3, <2>11
<1> QED
  BY <1>2, <1>12, <1>13, <1>14

\* Paddings after digits, one for each zero that makes them the code of triplets.
ArePadded(text, digits, holders) ==
    /\ text \in Seq(0..64) /\ digits \in Seq(0..63) /\ holders \in 0..2
    /\ (Len(digits) + holders) % 4 = 0 /\ AreParts(text, digits, Pads(holders))

\* The type of paddings.
LEMMA PadsType ==
    ASSUME NEW n, n \in 0..2
    PROVE  Pads(n) \in Seq(0..64) /\ Len(Pads(n)) = n /\ \A i \in 1..n : Pads(n)[i] = Padding
BY DEF Pads, Padding

\* A sequence over more than its elements.
LEMMA Wider == ASSUME NEW S, NEW T, S \subseteq T, NEW s, s \in Seq(S) PROVE s \in Seq(T)
OBVIOUS

LEMMA DigitsOrPadding == ASSUME NEW s, s \in Seq(0..63) PROVE s \in Seq(0..64)
<1>1. 0..63 \subseteq 0..64
  OBVIOUS
<1>2. PICK S, T : S = 0..63 /\ T = 0..64
  OBVIOUS
<1>3. S \subseteq T /\ s \in Seq(S)
  BY <1>1, <1>2
<1>4. s \in Seq(T)
  BY ONLY <1>3, Wider
<1> QED
  BY <1>2, <1>4

\* Digits that are padded.
LEMMA PaddedText ==
    ASSUME NEW digits, digits \in Seq(0..63), NEW holders, holders \in 0..2,
           (Len(digits) + holders) % 4 = 0, NEW text, text = digits \o Pads(holders)
    PROVE  ArePadded(text, digits, holders)
<1>0. digits \in Seq(0..64) /\ Pads(holders) \in Seq(0..64)
  BY PadsType, DigitsOrPadding
<1>1. PICK D, p : D = 0..64 /\ p = Pads(holders) /\ digits \in Seq(D) /\ p \in Seq(D) /\ text = digits \o p
  BY <1>0
<1>2. text \in Seq(D) /\ AreParts(text, digits, p)
  BY ONLY <1>1, Parts
<1> QED
  BY <1>1, <1>2 DEF ArePadded

\* padString pads what has no paddings, and nothing else.
LEMMA PaddedAgain ==
    ASSUME NEW text, NEW digits, NEW holders, ArePadded(text, digits, holders),
           text = digits \o Pads(holders)
    PROVE  PadString(text) = text /\ PadString(digits) = text
<1>1. PICK n, m : n = Len(digits) /\ m = Len(text) /\ n \in Nat /\ m \in Nat
  BY DEF ArePadded
<1>2. m = n + holders /\ holders \in 0..2 /\ (n + holders) % 4 = 0
  BY <1>1, PadsType DEF ArePadded, AreParts
<1>3. (4 - (m % 4)) % 4 = 0 /\ (4 - (n % 4)) % 4 = holders
  BY ONLY <1>1, <1>2
<1>4. PadString(digits) = text
  BY <1>1, <1>3 DEF PadString, Pads
<1>5. PadString(text) = text \o Pads(0)
  BY <1>1, <1>3 DEF PadString, Pads
<1>6. text \o <<>> = text
  BY DEF ArePadded
<1> QED
  BY <1>4, <1>5, <1>6, PadsAre

\* The digits are what is before the paddings.
LEMMA DigitsBefore ==
    ASSUME NEW text, NEW digits, NEW holders, ArePadded(text, digits, holders)
    PROVE  BeforePadding(text) = digits
<1>0. digits \in Seq(0..63) /\ digits \in Seq(0..64) /\ Len(digits) \in Nat
  BY DigitsOrPadding DEF ArePadded
<1>a. PICK D : D = 0..63
  OBVIOUS
<1>1. PICK n : n = Len(digits) /\ n \in Nat /\ digits \in Seq(D) /\ digits \in Seq(0..64)
  BY <1>0, <1>a
<1>2. Len(text) = n + holders /\ holders \in Nat /\ DOMAIN text = 1..(n + holders)
  BY <1>1, PadsType DEF ArePadded, AreParts
<1>3. ASSUME NEW i, i \in 1..n PROVE text[i] = digits[i] /\ text[i] # Padding
  <2>1. text[i] = digits[i]
    BY <1>1, <1>3 DEF ArePadded, AreParts
  <2>2. digits[i] \in D
    BY ONLY <1>1, <1>3, ElementOf
  <2>3. digits[i] # 64
    BY ONLY <1>a, <2>2
  <2> QED
    BY <2>1, <2>3 DEF Padding
<1>4. ASSUME NEW i \in 1..(n + holders), ~(i <= n) PROVE text[n + 1] = Padding /\ n + 1 \in 1..i
  <2>1. PICK one : one = 1
    OBVIOUS
  <2>2. one \in 1..holders
    BY <1>1, <1>2, <1>4, <2>1
  <2>3. text[n + one] = Pads(holders)[one]
    BY <1>1, <2>2, PadsType DEF ArePadded, AreParts
  <2>4. Pads(holders)[one] = Padding
    BY <2>2, PadsType DEF ArePadded
  <2> QED
    BY <1>1, <1>4, <2>1, <2>3, <2>4
<1>5. {i \in DOMAIN text : \A j \in 1..i : text[j] # Padding} = 1..n
  <2>1. ASSUME NEW i \in DOMAIN text
        PROVE  (\A j \in 1..i : text[j] # Padding) <=> i \in 1..n
    <3>0. i \in 1..(n + holders)
      BY <1>2
    <3>1. CASE i <= n
      <4>1. \A j \in 1..i : j \in 1..n
        BY <1>1, <3>0, <3>1
      <4> QED
        BY <1>1, <1>3, <3>0, <3>1, <4>1
    <3>2. CASE ~(i <= n)
      BY <1>1, <1>4, <3>0, <3>2
    <3> QED
      BY <3>1, <3>2
  <2>2. \A i \in 1..n : i \in DOMAIN text
    BY <1>1, <1>2
  <2> QED
    BY ONLY <2>1, <2>2
<1>6. Cardinality(1..n) = n
  <2>1. PICK one : one = 1
    OBVIOUS
  <2>2. one \in Int /\ n \in Int
    BY <1>1, <2>1
  <2>3. Cardinality(one..n) = IF one > n THEN 0 ELSE n - one + 1
    BY ONLY <2>2, FS_Interval
  <2>4. n \in Nat
    BY <1>1
  <2> QED
    BY ONLY <2>1, <2>3, <2>4
<1>7. BeforePadding(text) = Take(text, n)
  BY <1>5, <1>6 DEF BeforePadding
<1>8. Take(text, n) = SubSeq(text, 1, n)
  BY <1>1, <1>2 DEF Take
<1>9. PICK t : t = SubSeq(text, 1, n)
  OBVIOUS
<1>10. t \in Seq(0..64) /\ Len(t) = n /\ \A i \in 1..n : t[i] = text[i]
  <2>1. PICK E : E = 0..64 /\ text \in Seq(E)
    BY DEF ArePadded
  <2>2. n \in Nat /\ n <= Len(text)
    BY <1>1, <1>2
  <2>3. text \in Seq(E)
    BY <2>1
  <2>4. t \in Seq(E) /\ Len(t) = n /\ \A i \in 1..n : t[i] = text[i]
    BY ONLY <1>9, <2>2, <2>3, SliceIs
  <2> QED
    BY <2>1, <2>4
<1>11. \A i \in 1..n : t[i] = digits[i]
  BY <1>3, <1>10
<1>12. t = digits
  <2>1. PICK E : E = 0..64 /\ digits \in Seq(E) /\ t \in Seq(E)
    BY <1>1, <1>10
  <2> QED
    BY ONLY <1>1, <1>10, <1>11, <2>1, SeqEqual
<1> QED
  BY <1>7, <1>8, <1>9, <1>12

\* base64ToBytes, by its steps.
LEMMA DecodeIs ==
    ASSUME NEW text, NEW padded, NEW digits, NEW n, NEW zeros,
           PadString(text) = padded, BeforePadding(padded) = digits, n = Len(padded) - Len(digits),
           zeros = digits \o Zeros(n)
    PROVE  DecodeB64(text) = AllBut(Concat(Triples(zeros)), n)
BY DEF DecodeB64, Triples, TripleAt, Triple

\* The bytes are what is before the zeros.
LEMMA Shortened ==
    ASSUME NEW bytes, bytes \in Seq(0..255), NEW padded, padded \in Seq(0..255),
           NEW n, n \in 0..2, Len(padded) = Len(bytes) + n, \A i \in 1..Len(bytes) : padded[i] = bytes[i]
    PROVE  AllBut(padded, n) = bytes
<1>0. Len(bytes) \in Nat /\ Len(padded) = Len(bytes) + n
  OBVIOUS
<1>a. PICK D : D = 0..255
  OBVIOUS
<1>b. bytes \in Seq(D) /\ padded \in Seq(D)
  BY <1>a
<1>1. PICK m : m = Len(bytes) /\ m \in Nat /\ Len(padded) = m + n
  BY <1>0
<1>2. AllBut(padded, n) = SubSeq(padded, 1, m)
  BY <1>1 DEF AllBut, Take
<1>3. PICK t : t = SubSeq(padded, 1, m)
  OBVIOUS
<1>4. m <= Len(padded)
  BY <1>1
<1>5. t \in Seq(D) /\ Len(t) = m /\ \A i \in 1..m : t[i] = padded[i]
  BY ONLY <1>1, <1>b, <1>3, <1>4, SliceIs
<1>6. \A i \in 1..m : t[i] = bytes[i]
  BY <1>1, <1>5
<1>7. t = bytes
  BY ONLY <1>1, <1>b, <1>5, <1>6, SeqEqual
<1> QED
  BY <1>2, <1>3, <1>7

\* Digits are decoded with their paddings and without.
LEMMA DigitsDecoded ==
    ASSUME NEW digits, NEW holders, NEW bytes, NEW padded, AreDigits(digits, holders, bytes, padded),
           bytes \in Seq(0..255), NEW text, text \in {digits, digits \o Pads(holders)}
    PROVE  DecodeB64(text) = bytes
<1>1. PICK full : full = digits \o Pads(holders)
  OBVIOUS
<1>2. ArePadded(full, digits, holders)
  BY <1>1, PaddedText DEF AreDigits
<1>3. PadString(text) = full
  BY <1>1, <1>2, PaddedAgain
<1>4. BeforePadding(full) = digits
  BY <1>2, DigitsBefore
<1>5. holders = Len(full) - Len(digits)
  <2>1. Len(full) = Len(digits) + Len(Pads(holders)) /\ Len(digits) \in Nat /\ holders \in 0..2
    BY <1>2 DEF ArePadded, AreParts
  <2> QED
    BY <2>1, PadsType
<1>6. PICK zeros : zeros = digits \o Zeros(holders)
  OBVIOUS
<1>7. DecodeB64(text) = AllBut(Concat(Triples(zeros)), holders)
  BY ONLY <1>3, <1>4, <1>5, <1>6, DecodeIs
<1>8. zeros = EncodeTriplets(padded) /\ padded \in Seq(0..255) /\ Len(padded) % 3 = 0
  BY <1>6 DEF AreDigits
<1>9. zeros \in Seq(0..63) /\ AreCoded(zeros, padded)
  BY <1>8, TripletsLength
<1>10. Concat(Triples(zeros)) = padded
  BY ONLY <1>8, <1>9, TriplesDecoded
<1>11. AllBut(padded, holders) = bytes
  BY Shortened DEF AreDigits
<1> QED
  BY <1>7, <1>10, <1>11

\* Nothing but paddings is taken out of a text.
LEMMA DigitsKept == \A s \in Seq(0..63) : Unpadded(s) = s
<1> DEFINE T == {s \in Seq(0..63) : Unpadded(s) = s}
<1>1. <<>> \in T
  BY Keeping!FoldEmpty DEF Unpadded
<1>2. ASSUME NEW s \in Seq(0..63), NEW x \in 0..63, s \in T PROVE Append(s, x) \in T
  <2>1. Unpadded(Append(s, x)) = IF x = Padding THEN Unpadded(s) ELSE Append(Unpadded(s), x)
    BY Keeping!FoldAppend DEF Unpadded, KeepUnlessPadding
  <2>2. x # Padding /\ Append(s, x) \in Seq(0..63) /\ Unpadded(s) = s
    BY <1>2 DEF Padding
  <2> QED
    BY <2>1, <2>2
<1>3. \A s \in Seq(0..63) : s \in T
  <2> HIDE DEF T
  <2>1. PICK D : D = 0..63
    OBVIOUS
  <2>2. \A s \in Seq(D), x \in D : s \in T => Append(s, x) \in T
    BY <1>2, <2>1
  <2>3. \A s \in Seq(D) : s \in T
    BY ONLY <1>1, <2>2, Keeping!SequenceInduction
  <2> QED
    BY <2>1, <2>3
<1> QED
  BY <1>3

\* Paddings are taken out of a text.
LEMMA PaddingsDropped ==
    ASSUME NEW base
    PROVE  \A n \in 0..2 : Keeping!Fold(0, base, Pads(n)) = base
<1>1. KeepUnlessPadding(0, base, Padding) = base
  BY DEF KeepUnlessPadding
<1>2. PICK zero, p : zero = 0 /\ p = Padding
  OBVIOUS
<1>3. Keeping!Fold(zero, base, <<>>) = base
  BY ONLY Keeping!FoldEmpty
<1>4. Keeping!Fold(zero, base, <<p>>) = KeepUnlessPadding(zero, base, p)
  BY ONLY Keeping!FoldOne
<1>5. Keeping!Fold(zero, base, <<p, p>>) =
        KeepUnlessPadding(zero, KeepUnlessPadding(zero, base, p), p)
  BY ONLY Keeping!FoldTwo
<1>6. \A n \in 0..2 : n = 0 \/ n = 1 \/ n = 2
  OBVIOUS
<1> QED
  BY <1>1, <1>2, <1>3, <1>4, <1>5, <1>6, PadsAre

\* fromBase64 leaves the digits.
LEMMA PaddedKept ==
    ASSUME NEW digits, digits \in Seq(0..63), NEW holders, holders \in 0..2
    PROVE  Unpadded(digits \o Pads(holders)) = digits
<1>1. digits \in Seq(0..64) /\ Pads(holders) \in Seq(0..64)
  BY PadsType, DigitsOrPadding
<1>2. PICK S, p, zero, none : S = 0..64 /\ p = Pads(holders) /\ zero = 0 /\ none = <<>>
  OBVIOUS
<1>3. digits \in Seq(S) /\ p \in Seq(S)
  BY <1>1, <1>2
<1>4. Keeping!Fold(zero, none, digits \o p) = Keeping!Fold(zero, Keeping!Fold(zero, none, digits), p)
  BY ONLY <1>3, Keeping!FoldConcat
<1>5. Keeping!Fold(zero, none, digits) = digits
  BY <1>2, DigitsKept DEF Unpadded
<1>6. Keeping!Fold(zero, digits, p) = digits
  BY <1>2, PaddingsDropped
<1> QED
  BY <1>2, <1>4, <1>5, <1>6 DEF Unpadded

\* Base 64 is read as the bytes it was written from, with its padding and without.
THEOREM Base64Decoded ==
    ASSUME NEW bytes, bytes \in Seq(0..255), EncodingsAssumption
    PROVE  /\ DecodeB64(EncodeB64(bytes)) = bytes
           /\ DecodeB64(Unpadded(EncodeB64(bytes))) = bytes
<1>1. PICK text : text = EncodeB64(bytes)
  OBVIOUS
<1>2. PICK digits, holders, padded : AreEncoded(text, digits, holders, bytes, padded)
  BY <1>1, EncodedShape
<1>3. /\ text = digits \o Pads(holders) /\ AreDigits(digits, holders, bytes, padded)
      /\ digits \in Seq(0..63) /\ holders \in 0..2
  BY <1>2 DEF AreEncoded, AreDigits
<1>4. Unpadded(text) = digits
  BY <1>3, PaddedKept
<1>5. DecodeB64(text) = bytes /\ DecodeB64(digits) = bytes
  BY <1>3, DigitsDecoded
<1> QED
  BY <1>1, <1>4, <1>5

-----------------------------------------------------------------------------
(* Signatures, from DER to JOSE and back.                                   *)

\* What derToJoseES256 makes of an integer.
PartOf(integer) == LastBytes(Zeros(ParamBytes - Len(integer)) \o integer, ParamBytes)

\* A part of a sequence.
LEMMA SliceOf ==
    ASSUME NEW S, NEW u, u \in Seq(S), NEW t, t \in Seq(S), NEW a, a \in Nat, NEW b,
           b = a + Len(t), b <= Len(u), \A i \in 1..Len(t) : u[a + i] = t[i]
    PROVE  SubSeq(u, a + 1, b) = t
<1>1. PICK v : v = SubSeq(u, a + 1, b)
  OBVIOUS
<1>0. Len(t) \in Nat /\ Len(u) \in Nat
  OBVIOUS
<1>2. PICK n : n = Len(t) /\ n \in Nat
  BY <1>0
<1>3. v \in Seq(S) /\ Len(v) = n /\ \A i \in 1..n : v[i] = u[a + i]
  BY <1>1, <1>2
<1>4. \A i \in 1..n : v[i] = t[i]
  BY <1>2, <1>3
<1>5. v = t
  BY <1>2, <1>3, <1>4, SeqEqual
<1> QED
  BY <1>1, <1>5

\* How many elements at the front are one, if the next is another.
LEMMA LeadingIs ==
    ASSUME NEW S, NEW seq, seq \in Seq(S), NEW x, NEW m, m \in Nat, m <= Len(seq),
           \A i \in 1..m : seq[i] = x, m < Len(seq) => seq[m + 1] # x
    PROVE  Leading(seq, x) = m
<1>1. PICK n : n = Len(seq) /\ n \in Nat /\ DOMAIN seq = 1..n
  OBVIOUS
<1>2. {i \in DOMAIN seq : \A j \in 1..i : seq[j] = x} = 1..m
  <2>1. ASSUME NEW i \in 1..n PROVE (\A j \in 1..i : seq[j] = x) <=> i \in 1..m
    <3>1. CASE i <= m
      <4>1. \A j \in 1..i : j \in 1..m
        BY <3>1
      <4> QED
        BY <3>1, <4>1
    <3>2. CASE ~(i <= m)
      <4>1. m + 1 \in 1..i /\ m < n
        BY <1>1, <3>2
      <4> QED
        BY <1>1, <3>2, <4>1
    <3> QED
      BY <3>1, <3>2
  <2>2. \A i \in 1..m : i \in 1..n
    BY <1>1
  <2> QED
    BY ONLY <1>1, <2>1, <2>2
<1>3. Cardinality(1..m) = m
  <2>1. PICK one : one = 1
    OBVIOUS
  <2>2. one \in Int /\ m \in Int
    BY <2>1
  <2>3. Cardinality(one..m) = IF one > m THEN 0 ELSE m - one + 1
    BY ONLY <2>2, FS_Interval
  <2>4. m \in Nat
    OBVIOUS
  <2> QED
    BY ONLY <2>1, <2>3, <2>4
<1> QED
  BY <1>2, <1>3 DEF Leading

AreFourParts(u, h, r, m, s) ==
    /\ Len(u) = Len(h) + Len(r) + Len(m) + Len(s)
    /\ \A i \in 1..Len(h) : u[i] = h[i]
    /\ \A i \in 1..Len(r) : u[Len(h) + i] = r[i]
    /\ \A i \in 1..Len(m) : u[Len(h) + Len(r) + i] = m[i]
    /\ \A i \in 1..Len(s) : u[Len(h) + Len(r) + Len(m) + i] = s[i]

\* Four sequences are the parts of what they make together.
LEMMA FourParts ==
    ASSUME NEW S, NEW h, h \in Seq(S), NEW r, r \in Seq(S), NEW m, m \in Seq(S),
           NEW s, s \in Seq(S), NEW u, u = ((h \o r) \o m) \o s
    PROVE  u \in Seq(S) /\ AreFourParts(u, h, r, m, s)
<1>1. PICK v, w : v = h \o r /\ w = v \o m
  OBVIOUS
<1>2. v \in Seq(S) /\ AreParts(v, h, r)
  BY ONLY <1>1, h \in Seq(S), r \in Seq(S), Parts
<1>3. w \in Seq(S) /\ AreParts(w, v, m)
  BY ONLY <1>1, <1>2, m \in Seq(S), Parts
<1>4. u = w \o s
  BY <1>1
<1>5. u \in Seq(S) /\ AreParts(u, w, s)
  BY ONLY <1>3, <1>4, s \in Seq(S), Parts
<1>0. Len(h) \in Nat /\ Len(r) \in Nat /\ Len(m) \in Nat /\ Len(s) \in Nat
  OBVIOUS
<1>6. PICK a, b, c, d : /\ a = Len(h) /\ b = Len(r) /\ c = Len(m) /\ d = Len(s)
                        /\ a \in Nat /\ b \in Nat /\ c \in Nat /\ d \in Nat
  BY <1>0
<1>7. Len(v) = a + b /\ Len(w) = a + b + c /\ Len(u) = a + b + c + d
  BY <1>2, <1>3, <1>5, <1>6 DEF AreParts
<1>8. ASSUME NEW i \in 1..a PROVE u[i] = h[i]
  <2>1. u[i] = w[i] /\ w[i] = v[i] /\ v[i] = h[i]
    <3>1. i \in 1..Len(w) /\ i \in 1..Len(v) /\ i \in 1..Len(h)
      BY <1>6, <1>7
    <3> QED
      BY ONLY <1>2, <1>3, <1>5, <3>1 DEF AreParts
  <2> QED
    BY <2>1
<1>9. ASSUME NEW i \in 1..b PROVE u[a + i] = r[i]
  <2>1. PICK j : j = a + i
    OBVIOUS
  <2>2. j \in 1..Len(w) /\ j \in 1..Len(v) /\ i \in 1..Len(r)
    BY <1>6, <1>7, <2>1
  <2>3. u[j] = w[j] /\ w[j] = v[j] /\ v[Len(h) + i] = r[i]
    BY ONLY <1>2, <1>3, <1>5, <2>2 DEF AreParts
  <2> QED
    BY <1>6, <2>1, <2>3
<1>10. ASSUME NEW i \in 1..c PROVE u[a + b + i] = m[i]
  <2>1. PICK j : j = a + b + i
    OBVIOUS
  <2>2. j \in 1..Len(w) /\ i \in 1..Len(m)
    BY <1>6, <1>7, <2>1
  <2>3. u[j] = w[j] /\ w[Len(v) + i] = m[i]
    BY ONLY <1>3, <1>5, <2>2 DEF AreParts
  <2> QED
    BY <1>6, <1>7, <2>1, <2>3
<1>11. ASSUME NEW i \in 1..d PROVE u[a + b + c + i] = s[i]
  <2>1. i \in 1..Len(s)
    BY <1>6
  <2>2. u[Len(w) + i] = s[i]
    BY ONLY <1>5, <2>1 DEF AreParts
  <2> QED
    BY <1>7, <2>2
<1> QED
  BY <1>5, <1>6, <1>7, <1>8, <1>9, <1>10, <1>11 DEF AreFourParts

\* Where the parts of a signature are.
IsDerOf(der, r, s, m, n) ==
    /\ m \in Nat /\ n \in Nat /\ m = Len(r) /\ n = Len(s)
    /\ der \in Seq(Int) /\ Len(der) = m + n + 6
    /\ der[1] = 48 /\ der[2] = m + n + 4 /\ der[3] = 2 /\ der[4] = m
    /\ \A i \in 1..m : der[4 + i] = r[i]
    /\ der[5 + m] = 2 /\ der[6 + m] = n
    /\ \A i \in 1..n : der[6 + m + i] = s[i]

\* The parts of a signature are where they are read.
LEMMA DerIs ==
    ASSUME NEW r, r \in Seq(0..255), NEW s, s \in Seq(0..255), NEW der, der = Der(r, s)
    PROVE  \E m, n : IsDerOf(der, r, s, m, n)
<1>0. Len(r) \in Nat /\ Len(s) \in Nat /\ r \in Seq(Int) /\ s \in Seq(Int)
  <2>0. 0..255 \subseteq Int
    OBVIOUS
  <2>1. PICK S : S = 0..255 /\ S \subseteq Int
    BY <2>0
  <2>2. PICK T : T = Int
    OBVIOUS
  <2>3. r \in Seq(S) /\ s \in Seq(S) /\ S \subseteq T
    BY <2>1, <2>2
  <2>4. r \in Seq(T) /\ s \in Seq(T)
    BY ONLY <2>3, Wider
  <2> QED
    BY <2>2, <2>4
<1>1. PICK m, n : m = Len(r) /\ n = Len(s) /\ m \in Nat /\ n \in Nat
  BY <1>0
<1>2. PICK k : k = m + n + 4 /\ k \in Nat
  BY <1>1
<1>3. PICK h, g : h = <<48, k, 2, m>> /\ g = <<2, n>>
  OBVIOUS
<1>4. /\ h \in Seq(Int) /\ Len(h) = 4 /\ h[1] = 48 /\ h[2] = k /\ h[3] = 2 /\ h[4] = m
      /\ g \in Seq(Int) /\ Len(g) = 2 /\ g[1] = 2 /\ g[2] = n
  BY <1>1, <1>2, <1>3
<1>5. der = ((h \o r) \o g) \o s
  BY <1>1, <1>2, <1>3 DEF Der, ENCODED_TAG_SEQ, ENCODED_TAG_INT
<1>6. der \in Seq(Int) /\ AreFourParts(der, h, r, g, s)
  BY ONLY <1>0, <1>4, <1>5, FourParts
<1>7. Len(der) = m + n + 6
  BY <1>1, <1>4, <1>6 DEF AreFourParts
<1>8. /\ der[1] = 48 /\ der[2] = k /\ der[3] = 2 /\ der[4] = m
      /\ \A i \in 1..m : der[4 + i] = r[i]
  <2>1. 1 \in 1..4 /\ 2 \in 1..4 /\ 3 \in 1..4 /\ 4 \in 1..4
    OBVIOUS
  <2> QED
    BY <1>1, <1>4, <1>6, <2>1 DEF AreFourParts
<1>9. der[5 + m] = 2 /\ der[6 + m] = n /\ \A i \in 1..n : der[6 + m + i] = s[i]
  <2>1. 1 \in 1..2 /\ 2 \in 1..2
    OBVIOUS
  <2>2. der[4 + m + 1] = 2 /\ der[4 + m + 2] = n /\ \A i \in 1..n : der[4 + m + 2 + i] = s[i]
    BY <1>1, <1>4, <1>6, <2>1 DEF AreFourParts
  <2>3. 4 + m + 1 = 5 + m /\ 4 + m + 2 = 6 + m
    BY <1>1
  <2> QED
    BY <2>2, <2>3
<1>10. IsDerOf(der, r, s, m, n)
  BY ONLY <1>1, <1>2, <1>6, <1>7, <1>8, <1>9 DEF IsDerOf
<1> QED
  BY <1>10

\* The integers of a signature, as derToJoseES256 takes them out.
LEMMA PartsOfDer ==
    ASSUME NEW r, r \in Seq(0..255), NEW s, s \in Seq(0..255), NEW der, NEW m, NEW n,
           IsDerOf(der, r, s, m, n)
    PROVE  SubSeq(der, 5, 4 + m) = r /\ Drop(der, 6 + m) = s
<1>0. 0..255 \subseteq Int
  OBVIOUS
<1>1. PICK S, T : S = 0..255 /\ S \subseteq T /\ T = Int
  BY <1>0
<1>2. r \in Seq(S) /\ s \in Seq(S) /\ S \subseteq T
  BY <1>1
<1>3. r \in Seq(T) /\ s \in Seq(T)
  BY ONLY <1>2, Wider
<1>4. PICK a, b, c, d : a = 4 /\ b = 4 + m /\ c = 6 + m /\ d = m + n + 6
  OBVIOUS
<1>5. /\ der \in Seq(T) /\ m = Len(r) /\ n = Len(s) /\ m \in Nat /\ n \in Nat /\ Len(der) = d
      /\ \A i \in 1..m : der[a + i] = r[i]
      /\ \A i \in 1..n : der[c + i] = s[i]
  BY <1>1, <1>4 DEF IsDerOf
<1>6. a \in Nat /\ c \in Nat /\ b = a + m /\ d = c + n /\ b <= d
  BY <1>4, <1>5
<1>7. SubSeq(der, a + 1, b) = r
  BY ONLY <1>3, <1>5, <1>6, SliceOf
<1>8. d <= Len(der)
  BY <1>5, <1>6
<1>9. SubSeq(der, c + 1, d) = s
  BY ONLY <1>3, <1>5, <1>6, <1>8, SliceOf
<1>10. Drop(der, c) = SubSeq(der, c + 1, d)
  BY <1>5 DEF Drop
<1>11. a + 1 = 5
  BY <1>4
<1> QED
  BY ONLY <1>4, <1>7, <1>9, <1>10, <1>11

\* What joseToDerES256 is given of the parts of a signature.
LEMMA JoseOfDer ==
    ASSUME SignedMessagesAssumption, NEW r, IsDerInteger(r), NEW s, IsDerInteger(s)
    PROVE  DerToJose(Der(r, s)) = Read(Unpadded(EncodeB64(PartOf(r) \o PartOf(s))), <<>>)
<1>1. r \in Seq(0..255) /\ s \in Seq(0..255) /\ Len(r) <= ParamBytes + 1 /\ Len(s) <= ParamBytes + 1
  BY DEF IsDerInteger
<1>2. PICK der : der = Der(r, s)
  OBVIOUS
<1>3. PICK m, n : IsDerOf(der, r, s, m, n)
  BY <1>1, <1>2, DerIs
<1>4. /\ m \in Nat /\ n \in Nat /\ m <= ParamBytes + 1 /\ n <= ParamBytes + 1
      /\ der \in Seq(Int) /\ Len(der) = m + n + 6 /\ ParamBytes \in Nat
  BY <1>1, <1>3 DEF IsDerOf, SignedMessagesAssumption
<1>5. PICK l : l = m + n + 6 /\ DOMAIN der = 1..l
  BY <1>4
<1>6. /\ At(der, 1) = 48 /\ At(der, 2) = m + n + 4 /\ At(der, 3) = 2 /\ At(der, 4) = m
      /\ At(der, 5 + m) = 2 /\ At(der, 6 + m) = n
  <2>1. 1 \in 1..l /\ 2 \in 1..l /\ 3 \in 1..l /\ 4 \in 1..l /\ 5 + m \in 1..l /\ 6 + m \in 1..l
    BY <1>4, <1>5
  <2> QED
    BY <1>3, <1>5, <2>1 DEF At, IsDerOf
<1>7. /\ ~(l - 2 < m + n + 4) /\ ~(l - 6 < m) /\ ~(ParamBytes + 1 < m) /\ l - 6 - m = n
      /\ ~(ParamBytes + 1 < n) /\ Len(der) = l
  BY <1>4, <1>5
<1>8. SubSeq(der, 5, 4 + m) = r /\ Drop(der, 6 + m) = s
  BY <1>1, <1>3, PartsOfDer
<1>9. DerToJose(der) =
        Read(Unpadded(EncodeB64(PartOf(SubSeq(der, 5, 4 + m)) \o PartOf(Drop(der, 6 + m)))), <<>>)
  BY ONLY <1>6, <1>7 DEF DerToJose, PartOf, ENCODED_TAG_SEQ, ENCODED_TAG_INT
<1> QED
  BY <1>2, <1>8, <1>9

\* What is cut off an integer, or added to it, to make a part of it: of one byte too many its
\* first, which is zero.
LEMMA PartShape ==
    ASSUME SignedMessagesAssumption, NEW r, IsDerInteger(r), NEW part, part = PartOf(r)
    PROVE  /\ part \in Seq(0..255) /\ Len(part) = ParamBytes
           /\ Len(r) = ParamBytes + 1 => \A i \in 1..ParamBytes : part[i] = r[i + 1]
           /\ Len(r) <= ParamBytes => AreParts(part, Zeros(ParamBytes - Len(r)), r)
<1>0. ParamBytes \in Nat /\ Len(r) \in 1..(ParamBytes + 1) /\ r \in Seq(0..255)
  BY DEF SignedMessagesAssumption, IsDerInteger
<1>1. PICK p, l : p = ParamBytes /\ l = Len(r) /\ p \in Nat /\ l \in Nat /\ 1 <= l /\ l <= p + 1
  BY <1>0
<1>2. PICK D : D = 0..255
  OBVIOUS
<1>3. r \in Seq(D)
  BY <1>0, <1>2
<1>4. CASE l = p + 1
  <2>1. Zeros(p - l) = <<>>
    BY <1>1, <1>4 DEF Zeros
  <2>0. <<>> \o r = r
    BY <1>0
  <2>2. part = LastBytes(r, p)
    BY <1>1, <2>0, <2>1 DEF PartOf
  <2>3. PICK first : first = 2
    OBVIOUS
  <2>5. (IF l > p THEN l - p ELSE 0) + 1 = first
    BY <1>1, <1>4, <2>3
  <2>6. part = SubSeq(r, first, l)
    BY ONLY <1>1, <2>2, <2>5 DEF LastBytes
  <2>7. PICK t : t = [i \in 1..p |-> r[i + 1]]
    OBVIOUS
  <2>8. t \in Seq(D) /\ Len(t) = p /\ \A i \in 1..p : t[i] = r[1 + i]
    <3>1. ASSUME NEW i \in 1..p PROVE r[i + 1] \in D
      <4>1. PICK j : j = i + 1
        OBVIOUS
      <4>2. j \in 1..Len(r)
        BY <1>1, <1>4, <4>1
      <4>3. r[j] \in D
        BY ONLY <1>3, <4>2, ElementOf
      <4> QED
        BY <4>1, <4>3
    <3>2. t \in Seq(D) /\ Len(t) = p
      BY ONLY <1>1, <2>7, <3>1
    <3>3. \A i \in 1..p : i + 1 = 1 + i
      BY ONLY <1>1
    <3> QED
      BY ONLY <2>7, <3>2, <3>3
  <2>9. PICK one : one = 1 /\ one \in Nat /\ l = one + p /\ l <= Len(r) /\ first = one + 1
    BY <1>1, <1>4, <2>3
  <2>10. SubSeq(r, one + 1, l) = t
    BY ONLY <1>3, <2>8, <2>9, SliceOf
  <2>4. part \in Seq(D) /\ Len(part) = p /\ \A i \in 1..p : part[i] = r[i + 1]
    BY <2>6, <2>7, <2>8, <2>9, <2>10
  <2> QED
    BY <1>1, <1>2, <1>4, <2>4
<1>5. CASE l <= p
  <2>1. PICK z : z = Zeros(p - l)
    OBVIOUS
  <2>2. z \in Seq(D) /\ Len(z) = p - l
    BY <1>1, <1>2, <1>5, <2>1 DEF Zeros
  <2>3. PICK u : u = z \o r
    OBVIOUS
  <2>4. u \in Seq(D) /\ AreParts(u, z, r)
    BY ONLY <1>3, <2>2, <2>3, Parts
  <2>5. Len(u) = p
    BY <1>1, <1>5, <2>2, <2>4 DEF AreParts
  <2>6. part = LastBytes(u, p)
    BY <1>1, <2>1, <2>3 DEF PartOf
  <2>7. part = SubSeq(u, 1, p)
    BY <1>1, <2>5, <2>6 DEF LastBytes
  <2>8. part = u
    BY <2>4, <2>5, <2>7
  <2> QED
    BY <1>1, <1>2, <1>5, <2>1, <2>4, <2>5, <2>8
<1> QED
  BY <1>1, <1>4, <1>5

LEMMA ByteOf == ASSUME NEW s, s \in Seq(0..255), NEW i, i \in 1..Len(s) PROVE s[i] \in 0..255
<1>1. PICK D : D = 0..255
  OBVIOUS
<1>2. s \in Seq(D)
  BY <1>1
<1>3. s[i] \in D
  BY ONLY <1>2, i \in 1..Len(s), ElementOf
<1> QED
  BY <1>1, <1>3

\* countPadding, by its steps.
LEMMA CountIs ==
    ASSUME NEW bytes, NEW start, NEW stop, NEW part, NEW z, NEW count,
           SubSeq(bytes, start + 1, stop) = part, Leading(part, 0) = z,
           count = IF start + z < Len(bytes) /\ bytes[start + z + 1] >= 128 THEN z - 1 ELSE z
    PROVE  CountPadding(bytes, start, stop) = count
BY DEF CountPadding, MAX_OCTET

\* A part of a signature stands in it from an index on.
StandsIn(bytes, start, stop, part) ==
    /\ bytes \in Seq(0..255) /\ start \in Nat /\ stop = start + ParamBytes /\ stop <= Len(bytes)
    /\ \A i \in 1..ParamBytes : bytes[start + i] = part[i]

IsCounted(bytes, start, stop, integer) ==
    CountPadding(bytes, start, stop) = ParamBytes - Len(integer)

\* How many zeros a part of a signature has in front of the integer that it is made of, whose
\* own zero, if it has one, is before what would be taken for a sign.
LEMMA PaddingOfPart ==
    ASSUME SignedMessagesAssumption, NEW r, IsDerInteger(r), NEW part, part = PartOf(r),
           NEW bytes, NEW start, NEW stop, StandsIn(bytes, start, stop, part)
    PROVE  IsCounted(bytes, start, stop, r)
<1> /\ bytes \in Seq(0..255) /\ start \in Nat /\ stop = start + ParamBytes /\ stop <= Len(bytes)
    /\ \A i \in 1..ParamBytes : bytes[start + i] = part[i]
  BY DEF StandsIn
<1>a. ParamBytes \in Nat /\ 1 <= ParamBytes
  BY DEF SignedMessagesAssumption
<1>b. r \in Seq(0..255) /\ Len(r) \in 1..(ParamBytes + 1)
  BY DEF IsDerInteger
<1>c. Len(bytes) \in Nat
  OBVIOUS
<1>d. Len(r) \in Nat /\ 1 <= Len(r) /\ Len(r) <= ParamBytes + 1
  BY ONLY <1>a, <1>b
<1>e. /\ part \in Seq(0..255) /\ Len(part) = ParamBytes
      /\ Len(r) = ParamBytes + 1 => \A i \in 1..ParamBytes : part[i] = r[i + 1]
      /\ Len(r) <= ParamBytes => AreParts(part, Zeros(ParamBytes - Len(r)), r)
  BY PartShape
<1>1. PICK p, l, n : /\ p = ParamBytes /\ l = Len(r) /\ n = Len(bytes)
                     /\ p \in Nat /\ l \in Nat /\ n \in Nat /\ 1 <= p /\ 1 <= l /\ l <= p + 1
  BY <1>a, <1>c, <1>d
<1>2. PICK D : D = 0..255
  OBVIOUS
<1>3. bytes \in Seq(D) /\ part \in Seq(D) /\ Len(part) = p
  BY <1>1, <1>2, <1>e
<1>4. SubSeq(bytes, start + 1, stop) = part
  <2>1. start \in Nat /\ stop = start + p /\ stop <= Len(bytes) /\ \A i \in 1..p : bytes[start + i] = part[i]
    BY <1>1
  <2> QED
    BY ONLY <1>3, <2>1, SliceOf
<1>5. r[1] < 128 /\ (r[1] = 0 => l > 1 /\ r[2] >= 128) /\ (l = p + 1 => r[1] = 0)
  BY <1>1 DEF IsDerInteger
<1>6. ASSUME NEW z, z \in Nat, z <= p, \A i \in 1..z : part[i] = 0, z < p => part[z + 1] # 0
      PROVE  Leading(part, 0) = z
  <2>1. PICK zero : zero = 0
    OBVIOUS
  <2>2. /\ z \in Nat /\ z <= Len(part) /\ (\A i \in 1..z : part[i] = zero)
        /\ (z < Len(part) => part[z + 1] # zero)
    BY <1>3, <1>6, <2>1
  <2>3. Leading(part, zero) = z
    BY ONLY <1>3, <2>2, LeadingIs
  <2> QED
    BY <2>1, <2>3
<1>7. ASSUME NEW z, z \in Nat, z < p
      PROVE  start + z < n /\ bytes[start + z + 1] = part[z + 1]
  <2>1. PICK y : y = z + 1
    OBVIOUS
  <2>2. y \in 1..p /\ start + y = start + z + 1
    BY <1>1, <1>7, <2>1
  <2>3. bytes[start + y] = part[y]
    BY <1>1, <2>2
  <2>4. start + z < n
    BY <1>1, <1>7
  <2> QED
    BY <2>1, <2>2, <2>3, <2>4
<1>8. CASE l = p + 1
  <2>1. r[1] = 0 /\ r[2] >= 128
    BY <1>5, <1>8
  <2>2. part[1] = r[2]
    <3>1. \A i \in 1..p : part[i] = r[i + 1]
      BY <1>1, <1>8, <1>e
    <3>2. PICK one : one = 1 /\ one \in 1..p /\ one + 1 = 2
      BY <1>1
    <3> QED
      BY <3>1, <3>2
  <2>3. PICK z : z = 0
    OBVIOUS
  <2>4. z \in Nat /\ z < p /\ z <= p /\ z + 1 = 1 /\ part[z + 1] # 0 /\ part[z + 1] >= 128
    <3>1. part[1] # 0 /\ part[1] >= 128
      <4>1. r[2] \in Int
        <5>1. PICK j : j = 2 /\ j \in 1..Len(r)
          BY <1>1, <1>8
        <5>2. r[j] \in 0..255
          BY ONLY <1>b, <5>1, ByteOf
        <5>3. r[j] \in Int
          BY ONLY <5>2
        <5> QED
          BY ONLY <5>1, <5>3
      <4> QED
        BY <2>1, <2>2, <4>1
    <3> QED
      BY <1>1, <2>3, <3>1
  <2>5. \A i \in 1..z : part[i] = 0
    BY <2>3
  <2>6. Leading(part, 0) = z
    BY ONLY <1>6, <2>4, <2>5
  <2>7. start + z < n /\ bytes[start + z + 1] >= 128
    BY <1>7, <2>4
  <2>8. p - l = IF start + z < Len(bytes) /\ bytes[start + z + 1] >= 128 THEN z - 1 ELSE z
    BY <1>1, <1>8, <2>3, <2>7
  <2>9. CountPadding(bytes, start, stop) = p - l
    BY ONLY <1>4, <2>6, <2>8, CountIs
  <2> QED
    BY ONLY <1>1, <2>9 DEF IsCounted
<1>9. CASE l <= p
  <2>1. PICK m, zeros : m = p - l /\ m \in Nat /\ zeros = Zeros(m)
    BY <1>1, <1>9
  <2>2. m < p /\ m + 1 <= p /\ m + l = p
    BY <1>1, <1>9, <2>1
  <2>3. Len(zeros) = m /\ \A i \in 1..m : zeros[i] = 0
    BY <2>1 DEF Zeros
  <2>4. AreParts(part, zeros, r)
    BY <1>1, <1>9, <2>1, <1>e
  <2>5. (\A i \in 1..m : part[i] = 0) /\ (\A i \in 1..l : part[m + i] = r[i])
    BY <1>1, <2>3, <2>4 DEF AreParts
  <2>6. CASE r[1] # 0
    <3>1. part[m + 1] = r[1]
      <4>1. PICK one : one = 1 /\ one \in 1..l
        BY <1>1
      <4> QED
        BY <2>5, <4>1
    <3>2. Leading(part, 0) = m
      <4>1. m \in Nat /\ m <= p /\ (m < p => part[m + 1] # 0)
        BY <1>1, <2>1, <2>2, <2>6, <3>1
      <4> QED
        BY ONLY <1>6, <2>5, <4>1
    <3>3. bytes[start + m + 1] = r[1]
      BY <1>7, <2>1, <2>2, <3>1
    <3>4. r[1] \in Int
      <4>1. PICK j : j = 1 /\ j \in 1..Len(r)
        BY <1>1
      <4>2. r[j] \in 0..255
        BY ONLY <1>b, <4>1, ByteOf
      <4>3. r[j] \in Int
        BY ONLY <4>2
      <4> QED
        BY ONLY <4>1, <4>3
    <3>5. ~(bytes[start + m + 1] >= 128)
      BY <1>5, <3>3, <3>4
    <3>6. m = IF start + m < Len(bytes) /\ bytes[start + m + 1] >= 128 THEN m - 1 ELSE m
      BY <3>5
    <3>7. CountPadding(bytes, start, stop) = m
      BY ONLY <1>4, <3>2, <3>6, CountIs
    <3> QED
      BY ONLY <1>1, <2>1, <3>7 DEF IsCounted
  <2>7. CASE r[1] = 0
    <3>1. l > 1 /\ r[2] >= 128
      BY <1>5, <2>7
    <3>2. PICK z : z = m + 1
      OBVIOUS
    <3>3. z \in Nat /\ z < p /\ z <= p /\ z - 1 = m
      BY <1>1, <2>1, <2>2, <3>1, <3>2
    <3>4. \A i \in 1..z : part[i] = 0
      <4>1. part[z] = 0
        <5>1. PICK one : one = 1 /\ one \in 1..l
          BY <1>1
        <5> QED
          BY <2>5, <2>7, <3>2, <5>1
      <4>2. \A i \in 1..z : i = z \/ i \in 1..m
        BY <2>1, <3>2
      <4> QED
        BY <2>5, <4>1, <4>2
    <3>5. part[z + 1] = r[2]
      <4>1. PICK two : two = 2 /\ two \in 1..l
        BY <1>1, <3>1
      <4>2. z + 1 = m + two
        BY <2>1, <3>2, <4>1
      <4> QED
        BY <2>5, <4>1, <4>2
    <3>6. r[2] \in Int
      <4>1. PICK j : j = 2 /\ j \in 1..Len(r)
        BY <1>1, <3>1
      <4>2. r[j] \in 0..255
        BY ONLY <1>b, <4>1, ByteOf
      <4>3. r[j] \in Int
        BY ONLY <4>2
      <4> QED
        BY ONLY <4>1, <4>3
    <3>7. part[z + 1] # 0
      BY <3>1, <3>5, <3>6
    <3>8. Leading(part, 0) = z
      BY ONLY <1>6, <3>3, <3>4, <3>7
    <3>9. start + z < n /\ bytes[start + z + 1] >= 128
      BY <1>7, <3>1, <3>3, <3>5
    <3>10. m = IF start + z < Len(bytes) /\ bytes[start + z + 1] >= 128 THEN z - 1 ELSE z
      BY <1>1, <3>3, <3>9
    <3>11. CountPadding(bytes, start, stop) = m
      BY ONLY <1>4, <3>8, <3>10 DEF CountPadding, MAX_OCTET
    <3> QED
      BY ONLY <1>1, <2>1, <3>11 DEF IsCounted
  <2> QED
    BY <2>6, <2>7
<1> QED
  BY ONLY <1>1, <1>8, <1>9

\* The integer is put together again of its part.
LEMMA IntegerOfPart ==
    ASSUME SignedMessagesAssumption, NEW r, IsDerInteger(r), NEW part, part = PartOf(r)
    PROVE  DerInteger(part, ParamBytes - Len(r)) = <<2, Len(r)>> \o r
<1>0. /\ ParamBytes \in Nat /\ Len(r) \in 1..(ParamBytes + 1) /\ r \in Seq(0..255)
  BY DEF SignedMessagesAssumption, IsDerInteger
<1>1. PICK p, l, m : /\ p = ParamBytes /\ l = Len(r) /\ m = p - l /\ m \in Int
                     /\ p \in Nat /\ l \in Nat /\ 1 <= l /\ l <= p + 1
  BY <1>0
<1>2. PICK D : D = 0..255
  OBVIOUS
<1>3. r \in Seq(D) /\ part \in Seq(D) /\ Len(part) = p
  BY <1>0, <1>1, <1>2, PartShape
<1>4. DerInteger(part, m) = <<2, l>> \o (IF m < 0 THEN <<0>> \o part ELSE Drop(part, m))
  <2>1. p - m = l
    BY <1>1
  <2> QED
    BY <1>1, <2>1 DEF DerInteger, ENCODED_TAG_INT
<1>5. CASE l = p + 1
  <2>1. m < 0
    BY <1>1, <1>5
  <2>2. PICK s, u : s = <<0>> /\ u = s \o part
    OBVIOUS
  <2>3. s \in Seq(D) /\ Len(s) = 1 /\ s[1] = 0
    BY <1>2, <2>2
  <2>4. u \in Seq(D) /\ AreParts(u, s, part)
    BY ONLY <1>3, <2>2, <2>3, Parts
  <2>5. Len(u) = l
    BY <1>1, <1>3, <1>5, <2>3, <2>4 DEF AreParts
  <2>6. ASSUME NEW i \in 1..l PROVE u[i] = r[i]
    <3>1. CASE i = 1
      <4>1. r[1] = 0
        BY <1>1, <1>5 DEF IsDerInteger
      <4>2. u[1] = 0
        BY <2>3, <2>4 DEF AreParts
      <4> QED
        BY <3>1, <4>1, <4>2
    <3>2. CASE i # 1
      <4>1. PICK j : j = i - 1
        OBVIOUS
      <4>2. j \in 1..p /\ 1 + j = i /\ j + 1 = i
        BY <1>1, <1>5, <3>2, <4>1
      <4>3. u[1 + j] = part[j]
        BY <1>3, <2>3, <2>4, <4>2 DEF AreParts
      <4>4. part[j] = r[j + 1]
        BY <1>1, <1>5, <4>2, PartShape
      <4> QED
        BY <4>2, <4>3, <4>4
    <3> QED
      BY <3>1, <3>2
  <2>7. u = r
    BY ONLY <1>1, <1>3, <2>4, <2>5, <2>6, SeqEqual
  <2> QED
    BY <1>1, <1>4, <2>1, <2>2, <2>7
<1>6. CASE l <= p
  <2>1. m \in Nat /\ ~(m < 0)
    BY <1>1, <1>6
  <2>2. PICK zeros : zeros = Zeros(m)
    OBVIOUS
  <2>3. zeros \in Seq(D) /\ m = Len(zeros)
    BY <1>2, <2>1, <2>2 DEF Zeros
  <2>4. AreParts(part, zeros, r)
    BY <1>1, <1>6, <2>2, PartShape
  <2>5. Drop(part, m) = r
    BY ONLY <1>3, <2>3, <2>4, DropPart
  <2> QED
    BY <1>1, <1>4, <2>1, <2>5
<1> QED
  BY <1>1, <1>5, <1>6

LEMMA NumbersOfBytes == ASSUME NEW s, s \in Seq(0..255) PROVE s \in Seq(Int)
<1>1. 0..255 \subseteq Int
  OBVIOUS
<1>2. PICK S, T : S = 0..255 /\ T = Int
  OBVIOUS
<1>3. S \subseteq T /\ s \in Seq(S)
  BY <1>1, <1>2
<1>4. s \in Seq(T)
  BY ONLY <1>3, Wider
<1> QED
  BY <1>2, <1>4

IsRegrouped(h, a, r, g, s, x, y) == h \o (x \o y) = (((h \o a) \o r) \o g) \o s

\* What is put together in another order is the same.
LEMMA Regrouped ==
    ASSUME NEW S, NEW h, h \in Seq(S), NEW a, a \in Seq(S), NEW r, r \in Seq(S),
           NEW g, g \in Seq(S), NEW s, s \in Seq(S), NEW x, x = a \o r, NEW y, y = g \o s
    PROVE  IsRegrouped(h, a, r, g, s, x, y)
<1>1. x \in Seq(S) /\ y \in Seq(S)
  OBVIOUS
<1>2. PICK w : w = h \o a
  OBVIOUS
<1>3. w \in Seq(S)
  BY <1>2
<1>4. PICK v : v = w \o r
  OBVIOUS
<1>5. v \in Seq(S)
  BY <1>3, <1>4
<1>6. (h \o a) \o r = h \o (a \o r)
  BY ONLY h \in Seq(S), a \in Seq(S), r \in Seq(S), ConcatAssociative
<1>7. (v \o g) \o s = v \o (g \o s)
  BY ONLY <1>5, g \in Seq(S), s \in Seq(S), ConcatAssociative
<1>8. (h \o x) \o y = h \o (x \o y)
  BY ONLY <1>1, h \in Seq(S), ConcatAssociative
<1>9. v = h \o x
  BY ONLY <1>2, <1>4, <1>6, x = a \o r
<1>10. (v \o g) \o s = v \o y
  BY ONLY <1>7, y = g \o s
<1>11. h \o (x \o y) = (((h \o a) \o r) \o g) \o s
  BY ONLY <1>2, <1>4, <1>8, <1>9, <1>10
<1> QED
  BY ONLY <1>11 DEF IsRegrouped

IsInteger(x, integer) == x = <<2, Len(integer)>> \o integer

IsContent(content, r, s) == <<48, Len(content)>> \o content = Der(r, s)

\* What joseToDerES256 puts the integers together to.
LEMMA DerOfIntegers ==
    ASSUME NEW r, r \in Seq(0..255), NEW s, s \in Seq(0..255),
           NEW x, IsInteger(x, r), NEW y, IsInteger(y, s), NEW content, content = x \o y
    PROVE  IsContent(content, r, s)
<1>0. Len(r) \in Nat /\ Len(s) \in Nat
  OBVIOUS
<1>1. PICK m, n : m = Len(r) /\ n = Len(s) /\ m \in Nat /\ n \in Nat
  BY <1>0
<1>2. r \in Seq(Int) /\ s \in Seq(Int)
  BY NumbersOfBytes
<1>3. PICK a, g : a = <<2, m>> /\ g = <<2, n>>
  OBVIOUS
<1>4. a \in Seq(Int) /\ Len(a) = 2 /\ g \in Seq(Int) /\ Len(g) = 2 /\ x = a \o r /\ y = g \o s
  BY <1>1, <1>3 DEF IsInteger
<1>5. x \in Seq(Int) /\ AreParts(x, a, r)
  BY ONLY <1>2, <1>4, Parts
<1>6. y \in Seq(Int) /\ AreParts(y, g, s)
  BY ONLY <1>2, <1>4, Parts
<1>7. content \in Seq(Int) /\ AreParts(content, x, y)
  <2>1. content = x \o y
    OBVIOUS
  <2> QED
    BY ONLY <1>5, <1>6, <2>1, Parts
<1>8. Len(content) = m + n + 4
  BY <1>1, <1>4, <1>5, <1>6, <1>7 DEF AreParts
<1>a. m + n + 4 \in Int
  BY <1>1
<1>b. PICK k : k = m + n + 4 /\ k \in Int
  BY <1>a
<1>9. PICK h : k = m + n + 4 /\ k \in Int /\ h = <<48, k>>
  BY <1>b
<1>10. h \in Seq(Int)
  BY <1>9
<1>11. h \o (x \o y) = (((h \o a) \o r) \o g) \o s
  <2>1. PICK S : S = Int
    OBVIOUS
  <2>2. /\ h \in Seq(S) /\ a \in Seq(S) /\ r \in Seq(S) /\ g \in Seq(S) /\ s \in Seq(S)
        /\ x = a \o r /\ y = g \o s
    BY <1>2, <1>4, <1>10, <2>1
  <2>3. IsRegrouped(h, a, r, g, s, x, y)
    BY ONLY <2>2, Regrouped
  <2> QED
    BY ONLY <2>3 DEF IsRegrouped
<1>12. <<48, k, 2, m>> = h \o a
  <2>1. PICK tag, integer : tag = 48 /\ integer = 2
    OBVIOUS
  <2>2. <<tag, k, integer, m>> = <<tag, k>> \o <<integer, m>>
    BY ONLY SplitAfterTwo
  <2> QED
    BY <1>3, <1>9, <2>1, <2>2
<1>13. Der(r, s) = ((<<48, k, 2, m>> \o r) \o g) \o s
  BY <1>1, <1>3, <1>9 DEF Der, ENCODED_TAG_SEQ, ENCODED_TAG_INT
<1>14. content = x \o y /\ Len(content) = k /\ h = <<48, k>>
  BY <1>8, <1>9
<1>15. <<48, Len(content)>> \o content = Der(r, s)
  BY ONLY <1>11, <1>12, <1>13, <1>14
<1> QED
  BY ONLY <1>15 DEF IsContent

\* A signature of secp256k1 comes back from JOSE as it was.
THEOREM SignatureKept ==
    ASSUME EncodingsAssumption, SignedMessagesAssumption,
           NEW r, IsDerInteger(r), NEW s, IsDerInteger(s)
    PROVE  /\ DerToJose(Der(r, s)).ok
           /\ JoseToDer(DerToJose(Der(r, s)).value) = Der(r, s)
<1>1. PICK p, q, signature : p = PartOf(r) /\ q = PartOf(s) /\ signature = p \o q
  OBVIOUS
<1>2. PICK l : l = ParamBytes
  OBVIOUS
<1>3. l \in Nat
  BY <1>2 DEF SignedMessagesAssumption
<1>4. p \in Seq(0..255) /\ Len(p) = l /\ q \in Seq(0..255) /\ Len(q) = l
  BY <1>1, <1>2, PartShape
<1>5. PICK D : D = 0..255
  OBVIOUS
<1>6. p \in Seq(D) /\ q \in Seq(D)
  BY <1>4, <1>5
<1>7. signature \in Seq(D) /\ AreParts(signature, p, q)
  BY ONLY <1>1, <1>6, Parts
<1>8. signature \in Seq(0..255) /\ Len(signature) = l + l
  BY <1>4, <1>5, <1>7 DEF AreParts
<1>9. PICK text : text = Unpadded(EncodeB64(signature))
  OBVIOUS
<1>10. DerToJose(Der(r, s)) = Read(text, <<>>)
  BY <1>1, <1>9, JoseOfDer
<1>11. DecodeB64(text) = signature
  BY <1>8, <1>9, Base64Decoded
<1>12. /\ \A i \in 1..l : signature[0 + i] = p[i]
       /\ \A i \in 1..l : signature[l + i] = q[i]
  <2>1. \A i \in 1..l : 0 + i = i
    BY <1>3
  <2> QED
    BY <1>4, <1>7, <2>1 DEF AreParts
<1>13. PICK zero : zero = 0
  OBVIOUS
<1>14. /\ zero \in Nat /\ l = zero + l /\ l <= Len(signature)
       /\ \A i \in 1..l : signature[zero + i] = p[i]
  BY <1>3, <1>8, <1>12, <1>13
<1>15. SubSeq(signature, 1, l) = p
  <2>1. l = Len(p)
    BY <1>4
  <2>2. SubSeq(signature, zero + 1, l) = p
    BY ONLY <1>6, <1>7, <1>14, <2>1, SliceOf
  <2>3. zero + 1 = 1
    BY <1>13
  <2> QED
    BY ONLY <2>2, <2>3
<1>16. Drop(signature, l) = q
  <2>1. l = Len(p)
    BY <1>4
  <2> QED
    BY ONLY <1>6, <1>7, <2>1, DropPart
<1>17. CountPadding(signature, 0, l) = l - Len(r)
  <2>1. StandsIn(signature, zero, l, p)
    BY <1>2, <1>8, <1>14 DEF StandsIn
  <2>2. SignedMessagesAssumption /\ IsDerInteger(r) /\ p = PartOf(r)
    BY <1>1
  <2>3. IsCounted(signature, zero, l, r)
    BY ONLY <2>1, <2>2, PaddingOfPart
  <2> QED
    BY <1>2, <1>13, <2>3 DEF IsCounted
<1>18. CountPadding(signature, l, Len(signature)) = l - Len(s)
  <2>0. PICK stop : stop = Len(signature)
    OBVIOUS
  <2>1. StandsIn(signature, l, stop, q)
    BY <1>2, <1>3, <1>8, <1>12, <2>0 DEF StandsIn
  <2>2. SignedMessagesAssumption /\ IsDerInteger(s) /\ q = PartOf(s)
    BY <1>1
  <2>3. IsCounted(signature, l, stop, s)
    BY ONLY <2>1, <2>2, PaddingOfPart
  <2> QED
    BY <1>2, <2>0, <2>3 DEF IsCounted
<1>19. PICK x, y : x = <<2, Len(r)>> \o r /\ y = <<2, Len(s)>> \o s
  OBVIOUS
<1>20. x = DerInteger(p, l - Len(r)) /\ y = DerInteger(q, l - Len(s))
  <2>1. SignedMessagesAssumption /\ IsDerInteger(r) /\ IsDerInteger(s) /\ p = PartOf(r) /\ q = PartOf(s)
    BY <1>1
  <2>2. /\ DerInteger(p, ParamBytes - Len(r)) = <<2, Len(r)>> \o r
        /\ DerInteger(q, ParamBytes - Len(s)) = <<2, Len(s)>> \o s
    BY ONLY <2>1, IntegerOfPart
  <2> QED
    BY ONLY <1>2, <1>19, <2>2
<1>a. PICK content : content = x \o y
  OBVIOUS
<1>21. JoseToDer(text) = <<48, Len(content)>> \o content
  <2>1. PICK c, d : c = CountPadding(signature, 0, l) /\ d = CountPadding(signature, l, Len(signature))
    OBVIOUS
  <2>2. x = DerInteger(p, c) /\ y = DerInteger(q, d)
    BY ONLY <1>17, <1>18, <1>20, <2>1
  <2>3. content = DerInteger(SubSeq(signature, 1, ParamBytes), CountPadding(signature, 0, ParamBytes))
                  \o DerInteger(Drop(signature, ParamBytes),
                                CountPadding(signature, ParamBytes, Len(signature)))
    BY ONLY <1>2, <1>15, <1>16, <1>a, <2>1, <2>2, Zenon
  <2> QED
    BY ONLY <1>11, <2>3, Zenon DEF JoseToDer, ENCODED_TAG_SEQ
<1>22. <<48, Len(content)>> \o content = Der(r, s)
  <2>1. r \in Seq(0..255) /\ s \in Seq(0..255)
    BY DEF IsDerInteger
  <2>2. IsInteger(x, r) /\ IsInteger(y, s)
    BY ONLY <1>19 DEF IsInteger
  <2>3. IsContent(content, r, s)
    BY ONLY <1>a, <2>1, <2>2, DerOfIntegers
  <2> QED
    BY ONLY <2>3 DEF IsContent
<1> QED
  BY <1>10, <1>21, <1>22 DEF Read

-----------------------------------------------------------------------------
(* What is kept.                                                            *)

\* What is read as it was written, if it is read, whatever was written.
IsFaithful(kind) ==
    \A content : IsWritten(kind, content) =>
        LET decoded == DecodeText(kind, content, EncodeText(kind, content))
        IN  decoded.ok => decoded.value = content

LEMMA SignInFaithful ==
    ASSUME NEW content, IsWritten("signIn", content)
    PROVE  /\ DecodeText("signIn", content, EncodeText("signIn", content)).ok <=> IsReadable(content)
           /\ IsReadable(content) =>
                DecodeText("signIn", content, EncodeText("signIn", content)).value = content
<1>1. PICK i \in DOMAIN SignIns : IsValid(SignIns[i]) /\ content = Stamped(SignIns[i], Now)
  BY TextsAssumption DEF IsWritten
<1>2. PICK m : m = SignIns[i] /\ IsSignIn(m) /\ IsValid(m)
  BY <1>1, SignInsAssumption
<1>3. IsSignIn(content) /\ IsValid(content) /\ content.issuedAt # Missing
  <2>1. CASE m.issuedAt # Missing
    BY <1>1, <1>2, <2>1 DEF Stamped
  <2>2. CASE m.issuedAt = Missing
    <3>1. content = [m EXCEPT !.issuedAt = Now]
      BY <1>1, <1>2, <2>2 DEF Stamped
    <3>2. content =
            [domain |-> m.domain, address |-> m.address, statement |-> m.statement, uri |-> m.uri,
             version |-> m.version, chainId |-> m.chainId, nonce |-> m.nonce,
             issuedAt |-> Now, expirationTime |-> m.expirationTime,
             notBefore |-> m.notBefore, requestId |-> m.requestId, resources |-> m.resources]
      BY <1>2, <3>1 DEF IsSignIn
    <3>3. /\ content.domain = m.domain /\ content.address = m.address
          /\ content.statement = m.statement /\ content.uri = m.uri
          /\ content.version = m.version /\ content.chainId = m.chainId
          /\ content.nonce = m.nonce /\ content.issuedAt = Now
          /\ content.expirationTime = m.expirationTime /\ content.notBefore = m.notBefore
          /\ content.requestId = m.requestId /\ content.resources = m.resources
      BY ONLY <3>2
    <3>4. IsSignIn(content)
      BY <1>2, <3>2, <3>3 DEF IsSignIn
    <3>5. Now \in Dated /\ Now # Missing
      BY SignInsAssumption, SignInAssumption
    <3>6. IsValid(content)
      BY <1>2, <3>3, <3>5 DEF IsValid
    <3> QED
      BY <3>3, <3>4, <3>5, <3>6
  <2> QED
    BY <2>1, <2>2
<1>4. PICK lines : lines = Lines(content) /\ lines = EncodeText("signIn", content)
  BY DEF EncodeText
<1>5. DecodeText("signIn", content, lines) =
        IF CanParse(lines) THEN Read(AsParsed(lines), <<>>) ELSE Throws
  BY DEF DecodeText
<1>6. (CanParse(lines) <=> IsReadable(content)) /\ (CanParse(lines) => AsParsed(lines) = content)
  BY <1>3, <1>4, SignInRead
<1> QED
  BY <1>4, <1>5, <1>6 DEF Read, Throws

\* A token is decoded to the payload that was signed and to its signature.
LEMMA TokenFaithful ==
    ASSUME NEW content, IsWritten("token", content)
    PROVE  /\ DecodeText("token", content, EncodeText("token", content)).ok
           /\ DecodeText("token", content, EncodeText("token", content)).value = content
<1>1. PICK i \in DOMAIN Tokens : content = Tokens[i]
  BY TextsAssumption DEF IsWritten
<1>2. PICK r, s : /\ content = [payload |-> content.payload, der |-> Der(r, s)]
                  /\ content.payload \in Seq(Characters) /\ ~IsMarked(content.payload)
                  /\ IsDerInteger(r) /\ IsDerInteger(s)
  BY <1>1, SignedAssumption DEF IsToken
<1>3. PICK payload, der, bytes : /\ payload = content.payload /\ der = Der(r, s)
                                 /\ bytes = Utf8ToBytes(payload)
  OBVIOUS
<1>4. bytes \in Seq(0..255) /\ BytesToUtf8(bytes) = payload
  BY <1>2, <1>3, Utf8Type, TextDecodes
<1>5. DecodeB64(SigningInput(payload)) = bytes
  BY <1>3, <1>4, Base64Decoded, EncodingsAssumption DEF SigningInput
<1>6. PICK jose : jose = DerToJose(der)
  OBVIOUS
<1>7. jose.ok /\ JoseToDer(jose.value) = der
  BY <1>2, <1>3, <1>6, SignatureKept, EncodingsAssumption, SignedMessagesAssumption
<1>8. PICK token : token = [payload |-> SigningInput(payload), signature |-> jose.value]
  OBVIOUS
<1>9. SignToken(payload, der).value = token
  BY <1>6, <1>7, <1>8 DEF SignToken, Then, Read
<1>10. DecodeToken(token) = [payload |-> payload, der |-> der]
  BY <1>4, <1>5, <1>7, <1>8 DEF DecodeToken
<1>11. content.payload = payload /\ content.der = der /\ content = [payload |-> payload, der |-> der]
  BY <1>2, <1>3
<1>12. EncodeText("token", content) = token
  BY <1>9, <1>11 DEF EncodeText
<1>13. DecodeText("token", content, token) = Read(content, <<>>)
  BY <1>10, <1>11 DEF DecodeText
<1> QED
  BY <1>12, <1>13 DEF Read

LEMMA MessagesAre ==
    ASSUME NEW i \in DOMAIN Messages, NEW m, m = Messages[i].bytes, NEW p, p = Messages[i].prefix
    PROVE  /\ Messages[i] = [bytes |-> m, prefix |-> p]
           /\ m \in Seq(0..255) /\ FitsVarUint(Len(m)) /\ p \in {ChainPrefix, LegacyPrefix}
<1>1. PICK x : x = Messages[i] /\ IsMessage(x) /\ m = x.bytes /\ p = x.prefix
  BY SignedAssumption
<1>2. x = [bytes |-> x.bytes, prefix |-> x.prefix]
  BY ONLY <1>1 DEF IsMessage
<1>3. x.bytes \in Seq(0..255) /\ Len(x.bytes) \div 16777216 < 256 /\ x.prefix \in {ChainPrefix, LegacyPrefix}
  BY ONLY <1>1 DEF IsMessage
<1>4. m \in Seq(0..255) /\ p \in {ChainPrefix, LegacyPrefix}
  BY ONLY <1>1, <1>3
<1>5. FitsVarUint(Len(m))
  <2>1. x.bytes = m
    BY ONLY <1>1
  <2>2. Len(m) \div 16777216 < 256
    BY ONLY <1>3, <2>1, SMT
  <2> QED
    BY ONLY <2>2, SMT DEF FitsVarUint
<1>6. x = [bytes |-> m, prefix |-> p]
  BY ONLY <1>1, <1>2
<1> QED
  BY ONLY <1>1, <1>4, <1>5, <1>6

LEMMA PrefixesAre ==
    ASSUME NEW p, p \in {ChainPrefix, LegacyPrefix}, NEW q, q \in {ChainPrefix, LegacyPrefix}
    PROVE  p \in Seq(0..255) /\ p # <<>> /\ (p[1] = q[1] => p = q)
<1>1. PICK a, b, D : a = ChainPrefix /\ b = LegacyPrefix /\ D = Seq(0..255)
  OBVIOUS
<1>2. a \in D /\ b \in D /\ a # <<>> /\ b # <<>> /\ a[1] # b[1]
  BY ONLY <1>1, PrefixAssumption
<1>3. p \in {a, b} /\ q \in {a, b}
  BY <1>1
<1>4. p \in D /\ p # <<>> /\ (p[1] = q[1] => p = q)
  BY ONLY <1>2, <1>3
<1> QED
  BY ONLY <1>1, <1>4

\* What was signed is one of the messages, and decoded to it.
LEMMA MessageFaithful ==
    ASSUME NEW content, IsWritten("message", content)
    PROVE  /\ DecodeText("message", content, EncodeText("message", content)).ok
           /\ DecodeText("message", content, EncodeText("message", content)).value = content
           /\ content.bytes \in Seq(0..255) /\ FitsVarUint(Len(content.bytes))
           /\ content.prefix \in {ChainPrefix, LegacyPrefix}
<1>1. PICK i \in DOMAIN Messages : content = Messages[i]
  BY TextsAssumption DEF IsWritten
<1>2. PICK m, p : m = Messages[i].bytes /\ p = Messages[i].prefix
  OBVIOUS
<1>3. /\ content = [bytes |-> m, prefix |-> p] /\ content.bytes = m /\ content.prefix = p
      /\ m \in Seq(0..255) /\ FitsVarUint(Len(m)) /\ p \in {ChainPrefix, LegacyPrefix}
  BY <1>1, <1>2, MessagesAre
<1>4. p \in Seq(0..255)
  BY <1>3, PrefixesAre
<1>5. PICK text : text = EncodeMessage(m, p)
  OBVIOUS
<1>6. DecodeMessage(text, p) = m
  BY ONLY <1>3, <1>4, <1>5, MessageDecoded
<1>7. EncodeText("message", content) = text
  BY <1>3, <1>5 DEF EncodeText
<1>8. DecodeText("message", content, text) = Read(content, <<>>)
  BY <1>3, <1>6 DEF DecodeText
<1> QED
  BY <1>3, <1>7, <1>8 DEF Read

\* These kinds are read as they were written, or not at all.
KeptKinds == {"signIn", "token", "message"}

LEMMA KeptAreFaithful == \A kind \in KeptKinds : IsFaithful(kind)
<1>1. IsFaithful("signIn")
  BY SignInFaithful DEF IsFaithful
<1>2. IsFaithful("token")
  BY TokenFaithful DEF IsFaithful
<1>3. IsFaithful("message")
  BY MessageFaithful DEF IsFaithful
<1> QED
  BY <1>1, <1>2, <1>3 DEF KeptKinds

\* Who writes again what was read writes the same text.
KeptInv == WireInv /\ (sent.kind \in KeptKinds => wire = EncodeText(sent.kind, sent.content))

LEMMA KeptHolds == TextSpec => []KeptInv
<1> KeptKinds \subseteq TextKinds
  BY DEF KeptKinds, TextKinds
<1>1. TextInit => KeptInv
  <2>1. TextInit => WireInv
    BY NothingIsNoText DEF TextInit, WireInv
  <2> QED
    BY <2>1, NothingIsNoText DEF TextInit, KeptInv
<1>2. ASSUME WireInv, WireInv', KeptInv, [TextNext \/ Elsewhere]_textVars PROVE KeptInv'
  <2>1. CASE WriteOneText
    <3>1. PICK kind \in TextKinds : \E content : IsWritten(kind, content) /\ WriteAsText(kind, content)
      BY <2>1, WritesWritten
    <3>2. PICK content : WriteAsText(kind, content)
      BY <3>1
    <3>3. sent' = [kind |-> kind, content |-> content] /\ wire' = EncodeText(kind, content)
      BY <3>2 DEF WriteAsText, Write
    <3> QED
      BY <1>2, <3>3 DEF KeptInv
  <2>2. CASE ReadText
    BY <1>2, <2>2 DEF KeptInv, ReadText, Reads
  <2>3. CASE RelayText
    <3>1. /\ sent.kind \in TextKinds /\ got.ok /\ wire' = EncodeText(sent.kind, got.value)
          /\ sent' = sent
      BY <2>3 DEF RelayText, Relays
    <3>2. CASE sent.kind \in KeptKinds
      <4>1. PICK decoded : decoded = DecodeText(sent.kind, sent.content, wire)
        OBVIOUS
      <4>2. got = Outcome(decoded) /\ IsWritten(sent.kind, sent.content)
        BY <1>2, <3>1, <4>1 DEF WireInv, NotRead
      <4>3. decoded.ok /\ got.value = decoded.value
        BY <3>1, <4>2 DEF Outcome
      <4>4. decoded.ok => decoded.value = sent.content
        BY <1>2, <3>2, <4>1, <4>2, KeptAreFaithful DEF KeptInv, IsFaithful
      <4> QED
        BY <1>2, <3>1, <4>3, <4>4 DEF KeptInv
    <3>3. CASE sent.kind \notin KeptKinds
      BY <1>2, <3>1, <3>3 DEF KeptInv
    <3> QED
      BY <3>2, <3>3
  <2>4. CASE Elsewhere
    BY <1>2, <2>4 DEF KeptInv, Elsewhere
  <2>5. CASE UNCHANGED textVars
    BY <1>2, <2>5 DEF KeptInv, textVars
  <2> QED
    BY <1>2, <2>1, <2>2, <2>3, <2>4, <2>5 DEF TextNext
<1> QED
  BY <1>1, <1>2, WireHolds, PTL DEF TextSpec

\* What is read of a text that is kept.
LEMMA KeptIsDecoded ==
    ASSUME KeptInv, NEW kind \in KeptKinds, HasRead({kind})
    PROVE  /\ sent.kind = kind /\ IsWritten(kind, sent.content)
           /\ got = Outcome(DecodeText(kind, sent.content, EncodeText(kind, sent.content)))
<1>1. KeptKinds \subseteq TextKinds
  BY DEF KeptKinds, TextKinds
<1>2. sent.kind = kind
  BY DEF HasRead
<1>3. WireInv /\ wire = EncodeText(kind, sent.content)
  BY <1>2 DEF KeptInv
<1>4. IsWritten(kind, sent.content) /\ got = Outcome(DecodeText(kind, sent.content, wire))
  BY <1>1, <1>2, <1>3 DEF WireInv, HasRead, NotRead
<1> QED
  BY <1>2, <1>3, <1>4

\* A relying party reads the sign-in message that was prepared just when the message is one of
\* those that the regular expression has, however often it is written again (siwms).
THEOREM SignInHolds == TextSpec => []SignInIsRead
<1>1. ASSUME KeptInv, HasRead({"signIn"}) PROVE IsReadAsSent <=> IsReadable(sent.content)
  <2>1. PICK decoded :
          decoded = DecodeText("signIn", sent.content, EncodeText("signIn", sent.content))
    OBVIOUS
  <2>2. IsWritten("signIn", sent.content) /\ got = Outcome(decoded)
    BY <1>1, <2>1, KeptIsDecoded DEF KeptKinds
  <2>3. /\ decoded.ok <=> IsReadable(sent.content)
        /\ IsReadable(sent.content) => decoded.value = sent.content
    BY <2>1, <2>2, SignInFaithful
  <2> QED
    BY <2>2, <2>3 DEF IsReadAsSent, Outcome
<1>2. KeptInv => SignInIsRead
  BY <1>1 DEF SignInIsRead, IsReadable
<1> QED
  BY <1>2, KeptHolds, PTL

\* The signature of a token and its payload are read as they were signed, and a signed message
\* verifies as that message only, however often it is written again (token-signer,
\* message-signing).
THEOREM SignedHolds == TextSpec => []SignedIsRead
<1>1. ASSUME KeptInv, NEW kind \in {"token", "message"}, HasRead({kind}) PROVE IsReadAsSent
  <2>1. PICK decoded : decoded = DecodeText(kind, sent.content, EncodeText(kind, sent.content))
    OBVIOUS
  <2>2. IsWritten(kind, sent.content) /\ got = Outcome(decoded)
    BY <1>1, <2>1, KeptIsDecoded DEF KeptKinds
  <2>3. decoded.ok /\ decoded.value = sent.content
    BY <2>1, <2>2, TokenFaithful, MessageFaithful
  <2> QED
    BY <2>2, <2>3 DEF IsReadAsSent, Outcome
<1>2. ASSUME KeptInv, sent.kind = "message", NEW i \in DOMAIN Messages
      PROVE  VerifiesMessage(Messages[i].bytes, wire) <=> Messages[i].bytes = sent.content.bytes
  <2>1. IsWritten("message", sent.content) /\ wire = EncodeText("message", sent.content)
    BY <1>2 DEF KeptInv, KeptKinds, WireInv, TextKinds
  <2>2. PICK n, q : n = sent.content.bytes /\ q = sent.content.prefix
    OBVIOUS
  <2>3. /\ n \in Seq(0..255) /\ FitsVarUint(Len(n)) /\ q \in {ChainPrefix, LegacyPrefix}
        /\ wire = EncodeMessage(n, q)
    BY <2>1, <2>2, MessageFaithful DEF EncodeText
  <2>4. PICK m : m = Messages[i].bytes /\ m \in Seq(0..255) /\ FitsVarUint(Len(m))
    BY MessagesAre
  <2>5. ASSUME NEW p \in {ChainPrefix, LegacyPrefix}, EncodeMessage(m, p) = wire PROVE m = n
    <3>1. /\ p \in Seq(0..255) /\ p # <<>> /\ q \in Seq(0..255) /\ q # <<>>
          /\ (p[1] = q[1] => p = q)
      BY <2>3, PrefixesAre
    <3>2. EncodeMessage(m, p) = EncodeMessage(n, q)
      BY <2>3, <2>5
    <3> QED
      BY ONLY <2>3, <2>4, <3>1, <3>2, OneMessage
  <2>6. m = n => VerifiesMessage(m, wire)
    BY <2>3 DEF VerifiesMessage
  <2>7. VerifiesMessage(m, wire) => m = n
    BY <2>5 DEF VerifiesMessage
  <2> QED
    BY <2>2, <2>4, <2>6, <2>7
<1>3. KeptInv => SignedIsRead
  <2>1. ASSUME KeptInv, HasRead({"token", "message"}) PROVE IsReadAsSent
    <3>1. PICK kind \in {"token", "message"} : HasRead({kind})
      BY <2>1 DEF HasRead
    <3> QED
      BY <1>1, <2>1, <3>1
  <2> QED
    BY <1>2, <2>1 DEF SignedIsRead
<1> QED
  BY <1>3, KeptHolds, PTL
=============================================================================
