---------------------------- MODULE Credentials ----------------------------
(***************************************************************************)
(* The parts of the engine that hand out and keep credentials: the OAuth   *)
(* server for MCP clients (OAuthServer), the OAuth token vault             *)
(* (CredentialVault) and agent tokens (AgentTokens).  They share no state, *)
(* and each of them moves while the others rest.                           *)
(***************************************************************************)
EXTENDS Naturals

CONSTANTS Slots,                           \* calls under way at a time
          \* OAuthServer
          Clients, SupportedScopes, Asked, MaxCodes, MaxTokens, MaxCalls,
          \* CredentialVault
          MaxStores, MaxGets,
          \* AgentTokens
          Tokens, NoToken

ASSUME CredentialsAssumption == MaxStores \in Nat /\ MaxGets \in Nat

VARIABLES client, code, token, ocall, ended, begun, fails,
          row, vcall, stores, gets, last, crossed,
          redis, memory, healthy, mode, tcall, minted, revoked, passed

OAuth == INSTANCE OAuthServer WITH call <- ocall
Vault == INSTANCE CredentialVault WITH call <- vcall
Agent == INSTANCE AgentTokens WITH call <- tcall

oauthVars == <<client, code, token, ocall, ended, begun, fails>>
vaultVars == <<row, vcall, stores, gets, last, crossed>>
agentVars == <<redis, memory, healthy, mode, tcall, minted, revoked, passed>>
credentialVars == <<oauthVars, vaultVars, agentVars>>

CredentialsInit == OAuth!Init /\ Vault!Init /\ Agent!Init

OAuthStep == OAuth!Next /\ UNCHANGED <<vaultVars, agentVars>>
VaultStep == Vault!Next /\ UNCHANGED <<oauthVars, agentVars>>
TokensStep == Agent!Next /\ UNCHANGED <<oauthVars, vaultVars>>

CredentialsNext == OAuthStep \/ VaultStep \/ TokensStep
CredentialsSpec == CredentialsInit /\ [][CredentialsNext]_credentialVars
---------------------------------------------------------------------------

\* Every variable has its type.
CredentialsTypeOK == OAuth!TypeOK /\ Vault!TypeOK /\ Agent!TypeOK

\* OAuthServer (mcpauth/server.go): a grant that was used or revoked yields
\* nothing to later calls, nor does a revoked client, and no scope grows.
OAuthSafe == OAuth!OAuthSafe

\* CredentialVault (vault.go): an automatic refresh that nothing crosses keeps
\* what was stored last, and answers with a token that is not about to expire.
\* AgentTokens (tokens.go, fallback.go): a revoked token leaves no copy in the
\* cache, and is refused as long as the fallback let no call pass.
CredentialsSafe ==
  /\ Vault!LastWriterKept /\ Vault!AnswersFresh
  /\ Agent!MemoryForgets /\ Agent!RevokedRefused
============================================================================
