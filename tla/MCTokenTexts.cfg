SPECIFICATION Spec
CONSTANTS
  Objects <- MCObjects
  Serialize <- MCSerialize
  Hmac <- MCHmac
  Secret <- MCSecret
  Lifetime <- MCLifetime
  NameBytes <- MCNameBytes
  MaxName <- MCMaxName
  MaxSecond <- MCMaxSecond
  Builders <- MCBuilders
  Keys <- MCKeys
  Verifiers <- MCVerifiers
INVARIANTS
  TypeOK
  VerifyAsPromised
  ChangeRefused
  StricterRefusesMore
  CodecsAgree
CHECK_DEADLOCK TRUE
