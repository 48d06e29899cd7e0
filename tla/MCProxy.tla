------------------------------- MODULE MCProxy -------------------------------
(* Small instance of Proxy: one client that has messages or transfers       *)
(* signed, asks for a key or creates a wallet, one that creates a wallet or *)
(* asks for the health, two clusters.                                       *)
(* The limits relate as the code's 12, 2 and 15 s do: verifying and one     *)
(* round of attempts fit into the service's limit, two rounds do not.  A    *)
(* call to Stellar, as in p3, has no limit; reading a withdrawal is one     *)
(* threshold call.                                                          *)
EXTENDS Proxy, TLC

CONSTANTS c1, c2, signer, creator, u1, deposits, withdrawals, w1, msg, transfer, p1, p2, p3, nonce

MCClusterName == {c1, c2}
RightKey == [base58 |-> TRUE, length |-> 32, id |-> 1]
MCConfigKey == {RightKey, [base58 |-> TRUE, length |-> 20, id |-> 2]}
MCSecretsFile ==
  {[base64 |-> TRUE, length |-> n, sealedWith |-> RightKey, isConfig |-> TRUE] : n \in {8, 64}}

MCRequest == {signer, creator}

MCBody(endpoint, form, proof) ==
  [endpoint |-> endpoint, form |-> form, uid |-> u1, wallet |-> w1, message |-> msg,
   proof |-> proof]

SignerBodies ==
  {MCBody("sign", "good", p1), MCBody("sign_raw", "good", p1), MCBody("sign", "short uid", p1),
   MCBody("sign_raw", "unknown key type", p1), MCBody("public_key", "good", p1),
   MCBody("deposit", "good", p1), MCBody("deposit", "no challenge", p1),
   MCBody("clear", "good", p3), MCBody("withdraw", "good", nonce),
   MCBody("create_wallet", "good", p1)}
CreatorBodies ==
  {MCBody("create_wallet", "good", p1), MCBody("create_wallet", "malformed", p1),
   MCBody("healthcheck", "good", p1)}

MCBodies == (signer :> SignerBodies) @@ (creator :> CreatorBodies)
AllBodies == SignerBodies \cup CreatorBodies
MCBodyDelays == (signer :> {0, 1}) @@ (creator :> {0})
MCWalletOf == [u \in {u1, deposits, withdrawals} |-> w1]
MCRendered == (p1 :> p2) @@ (p2 :> p2) @@ (p3 :> p3) @@ (nonce :> nonce)
MCChallenge == [p \in {p1, p2, p3, nonce} |-> transfer]

MCVerifyLimit == (p1 :> 2) @@ (p2 :> 2) @@ (p3 :> 4) @@ (nonce :> 1)

OfBoth(f) == [S \in SUBSET MCClusterName |->
  (IF c1 \in S THEN f[c1] ELSE 0) + IF c2 \in S THEN f[c2] ELSE 0]
MCCombinations == OfBoth((c1 :> 1) @@ (c2 :> 2))
MCLiveServers == OfBoth((c1 :> 2) @@ (c2 :> 3))
=============================================================================
