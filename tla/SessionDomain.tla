--------------------------- MODULE SessionDomain ---------------------------
(***************************************************************************)
(* The pure rules of the identity module: the session aggregate            *)
(* (domain/session.ts), email and password (domain/email.ts and            *)
(* plain-password.ts), and the tokens that three use cases mint.           *)
(*                                                                         *)
(* A refresh token is a number: tokens are random, so no two are equal,    *)
(* and SHA-256 is injective on them, so a token stands for its hash.  An   *)
(* access token is self-contained: all that its verification asks is       *)
(* whether its time has run out.                                           *)
(***************************************************************************)
EXTENDS HttpErrors

MinPasswordLength == 10
MaxPasswordLength == 128

\* PlainPassword.of.  A password is told from another one by its length.
PolicyAccepts(password) == password \in MinPasswordLength..MaxPasswordLength

\* An email as it is typed: an address, and how it is spelled.
Spelling == {"stored", "capitals", "malformed"}
Typed(address, spelling) == [address |-> address, spelling |-> spelling]

WellFormed(email) == email.spelling # "malformed"

\* Email.of: trim and lower case, so that one address is one value.
Normalized(email) == Typed(email.address, "stored")

\* A sessions row: the hash of the refresh token, expiresAt and revokedAt.
Row(account, hash, until, revoked) ==
    [account |-> account, hash |-> hash, until |-> until, revoked |-> revoked]

Issued(account, hash, now, ttl) == Row(account, hash, now + ttl, FALSE)

\* isActive
Active(row, now) == ~row.revoked /\ now < row.until

\* assertUsable looks at the revocation first.
RotateVerdict(row, now) ==
    IF row.revoked THEN "SESSION_REVOKED"
    ELSE IF now >= row.until THEN "SESSION_EXPIRED" ELSE "OK"

\* rotate() replaces the hash and the deadline of the same row.
Rotated(row, hash, now, ttl) == Row(row.account, hash, now + ttl, row.revoked)

\* MUTANT of Revoked: nothing is revoked.
NotRevoked(row) == row

Revoked(row) == Row(row.account, row.hash, row.until, TRUE)

\* What a client holds: the refresh token and the deadline of the access token.
NoToken == 0
Tokens(refresh, until) == [refresh |-> refresh, until |-> until]
NoTokens == Tokens(NoToken, 0)

\* AccessTokenGuard and JwtTokenService.verify: no row is looked up.
AccessAccepted(tokens, now) == now < tokens.until

Answer(status, tokens) == [status |-> status, tokens |-> tokens]
Minted(tokens) == Answer(200, tokens)
Refusal(error) == Answer(Resolve(error).status, NoTokens)
Broken == Answer(Internal.status, NoTokens)

=============================================================================
