----------------------------- MODULE Ciphertexts -----------------------------
(***************************************************************************)
(* An encrypted file from putFile to getFile, and the size that putFile      *)
(* foretells of it: packages/core/src/crypto/encryption, crypto/common/      *)
(* ecies-utils.ts and storage/put-file.ts.                                   *)
(*                                                                          *)
(* A text is the value it is the JSON of, with its length and the number of  *)
(* its characters that JSON has to escape.  Cryptography is symbolic: a      *)
(* private key and its public key are one, and two keys share the secret     *)
(* that is the set of both.                                                 *)
(***************************************************************************)
EXTENDS Encodings

CONSTANTS
    Ephemeral,      \* the private key that encryptECIES makes up
    NoKey,          \* undefined
    CharsetTypes    \* content types that do not name a charset, or utf8 or ascii, once the
                    \* first of their hyphens is gone

-----------------------------------------------------------------------------
(* JSON.                                                                    *)

\* n characters that need no escape.
Chars(n) == [length |-> n, escapes |-> 0]

\* JSON.stringify, of a string: each quote and each backslash gets a backslash.
Quoted(text) ==
    [length |-> text.length + text.escapes + 2, escapes |-> 2 * text.escapes + 2]

\* How many characters the name of a member has.
NameLength ==
    [iv |-> 2, ephemeralPK |-> 11, mac |-> 3, cipherText |-> 10, wasString |-> 9,
     cipherTextEncoding |-> 18, signature |-> 9, publicKey |-> 9]

\* A member's name in quotes, a colon, its value, and a comma or the end of the object.
Member(name, text) ==
    [length |-> NameLength[name] + text.length + 4, escapes |-> text.escapes + 2]

AddMember(context, text, member) ==
    [length |-> text.length + member.length, escapes |-> text.escapes + member.escapes]

Stringifying == INSTANCE SequenceFold WITH Step <- AddMember

\* JSON.stringify, of an object with these members.
Object(members) == Stringifying!Fold(0, [length |-> 1, escapes |-> 0], members)

\* A text and what it says.
Json(value, text) == [value |-> value, text |-> text]

-----------------------------------------------------------------------------
(* The size that is foretold.                                               *)

\* A length of whole blocks that forgets the padding of a full one.
AesCbcLengthUnpadded(n) == ((n + 15) \div 16) * 16

\* getAesCbcOutputLength
AesCbcLength(n) == (n \div 16 + 1) * 16

\* getBase64OutputLength
Base64Length(n) == ((n + 2) \div 3) * 4

\* The members of a CipherObject, of these lengths.
Members(iv, ephemeralPK, mac, cipherText, wasString, encoding) ==
    <<Member("iv", Quoted(Chars(iv))), Member("ephemeralPK", Quoted(Chars(ephemeralPK))),
      Member("mac", Quoted(Chars(mac))), Member("cipherText", Quoted(Chars(cipherText))),
      Member("wasString", Chars(IF wasString THEN 4 ELSE 5))>>
    \o IF encoding = "base64" THEN <<Member("cipherTextEncoding", Quoted(Chars(6)))>> ELSE <<>>

\* A SignedCipherObject around the text of a CipherObject.
SignedObject(signature, publicKey, cipherText) ==
    Object(<<Member("signature", Quoted(Chars(signature))),
             Member("publicKey", Quoted(Chars(publicKey))),
             Member("cipherText", Quoted(cipherText))>>)

\* eciesGetJsonStringLength: iv, ephemeralPK and mac in hex, and a signature of 72 bytes.
JsonStringLength(contentLength, wasString, sign, encoding) ==
    LET shell == Object(Members(0, 0, 0, 0, wasString, encoding))
        values == 32 + 66 + 64
        size == AesCbcLength(contentLength)
        encoded == IF encoding = "base64" THEN Base64Length(size) ELSE 2 * size
    IN  IF sign THEN SignedObject(0, 0, shell).length + 144 + 66 + values + encoded
        ELSE shell.length + values + encoded

-----------------------------------------------------------------------------
(* putFile, with encrypt.  A file is the content that the application has,   *)
(* "string", "bytes", "octets" or of another type, and its options.          *)

\* FileContentLoader does not throw.
CanLoad(file) ==
    /\ file.type = "string" => file.contentType \in CharsetTypes
    /\ file.type = "octets" /\ file.content # <<>> => Head(file.content) \in 0..255
    /\ file.type # "other"

\* The bytes it loads; those of octets modulo 256.
Loaded(file) ==
    CASE file.type = "string" -> Utf8ToBytes(file.content)
      [] file.type = "octets" -> [i \in DOMAIN file.content |-> file.content[i] % 256]
      [] OTHER -> file.content

\* Whose key the file is encrypted with.
PublicKeyOf(file) ==
    IF file.encrypt # "true" THEN file.encrypt
    ELSE IF file.sign \notin {"false", "true"} THEN file.sign ELSE file.privateKey

\* The size that putFile compares with the largest of the hub, when it is given an encoding.
Foretold(file) ==
    JsonStringLength(Len(Loaded(file)), file.type = "string", file.sign # "false", file.encoding)

MaySend(file, maxUploadBytes) ==
    /\ CanLoad(file) /\ PublicKeyOf(file) # NoKey
    /\ file.encoding # "omitted" => Foretold(file) <= maxUploadBytes

Mac(secret, iv, ephemeralPK, cipherText) == <<secret, iv, ephemeralPK, cipherText>>

\* What AES adds fills the last block, or is one.
SealedLength(n) == n + 16 - (n % 16)

\* bytesToHex or bytesToBase64, of n bytes; what three of them do not divide is padded.
EncodedLength(n, encoding) ==
    IF encoding # "base64" THEN 2 * n
    ELSE 4 * (n \div 3) + IF n % 3 = 0 THEN 0 ELSE 4

\* encryptECIES.  The cipher text is the secret and the plain text.
EncryptECIES(publicKey, content, wasString, encoding) ==
    LET secret == {Ephemeral, publicKey}
        cipherText == [secret |-> secret, plain |-> content]
        size == EncodedLength(SealedLength(Len(content)), encoding)
    IN  Json([iv |-> "iv", ephemeralPK |-> Ephemeral, cipherText |-> cipherText,
              mac |-> Mac(secret, "iv", Ephemeral, cipherText), wasString |-> wasString],
             Object(Members(32, 66, 64, size, wasString, encoding)))

\* putFile's upload.  encryptContent, which is never asked to sign, gives a string; that is
\* stringified again, unless there is a private key: then it is signed, asked for or not.
Upload(file) ==
    LET cipherObject ==
            EncryptECIES(PublicKeyOf(file), Loaded(file), file.type = "string", file.encoding)
    IN  IF file.privateKey = NoKey
        THEN Json(cipherObject, Quoted(cipherObject.text))
        ELSE Json([signature |-> <<cipherObject, file.privateKey>>, publicKey |-> file.privateKey,
                   cipherText |-> cipherObject],
                  SignedObject(2 * file.derBytes, 66, cipherObject.text))

-----------------------------------------------------------------------------
(* getFile.                                                                 *)

\* decryptECIES
DecryptECIES(privateKey, object) ==
    IF "ephemeralPK" \notin DOMAIN object THEN Throws
    ELSE LET secret == {privateKey, object.ephemeralPK}
         IN  IF object.mac # Mac(secret, object.iv, object.ephemeralPK, object.cipherText)
             THEN Throws
             ELSE Read(IF object.wasString
                       THEN [type |-> "string", content |-> BytesToUtf8(object.cipherText.plain)]
                       ELSE [type |-> "bytes", content |-> object.cipherText.plain], <<>>)

\* decryptContent
DecryptContent(privateKey, json) == DecryptECIES(privateKey, json.value)

\* getFile with decrypt, by the owner of the address with which the bucket was made.
\* With the words of a signature in it the file is verified and then decrypted.
Download(file, upload) ==
    IF "signature" \notin DOMAIN upload.value
    THEN DecryptContent(file.reader, upload)
    ELSE IF /\ upload.value.publicKey = file.owner
            /\ upload.value.signature = <<upload.value.cipherText, upload.value.publicKey>>
         THEN DecryptContent(file.reader, upload.value.cipherText)
         ELSE Throws
=============================================================================
