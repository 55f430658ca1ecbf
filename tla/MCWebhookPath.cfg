SPECIFICATION FairSpec
CONSTANTS
  t1 = t1
  t2 = t2
  Null = Null
  Txns = {t1, t2}
  Environments <- MCEnvironments
  Webhooks <- MCWebhooks
  MaxDeliveries = 2
INVARIANTS
  TypeOK
  ReconciledByOwnWebhook
  DuplicateIsRetry
  LiveSuccessIsReal
  StoredIdReconciles
PROPERTIES
  StoredIsProcessed
  RequestsGetThrough
