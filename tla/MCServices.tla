------------------------------ MODULE MCServices ------------------------------
(***************************************************************************)
(* Services that share no state: connections of shops (ShopIntegration),   *)
(* what a connection stores (ConnectionRecords), registered users          *)
(* (Registration), field mappers (FieldMapper), the connection to an SFTP  *)
(* server (SftpSession), refunds (Refunds) with what they are worth        *)
(* (RefundAmounts), and the calculations of retried messages               *)
(* (RetryPolicy).  A behaviour explores one of them and leaves the others  *)
(* out.                                                                    *)
(***************************************************************************)
EXTENDS ShopIntegration, TLC

CONSTANTS Rows, Kinds, Keep, Editors, MaxRequests, MaxBroken,
          maxAllowedRetry, orderMaxAllowedRetry, inventoryLevelMaxAllowedRetry,
          retryFrequencyIncrementThreshold, ItemIds, MaxLen,
          Texts, Colon, MaxRecords, MaxForms, MaxTokens, MaxAttempts, MaxPoolFaults,
          retries, MaxClients, MaxUses, MaxSftpFaults,
          MaxEntries, MaxQuantity, MaxRepeats, MaxBreaks,
          Prices, pieceTax, pieceDiscount, shippingCost

VARIABLES part,
          mapper, request, shipping, telling, told, requests, broken, unchecked, unheard,
          sent, arrived, due,
          kind, old, curr, number,
          table, keyed, form, forms,
          tenantIds, account, tokens, reg, clock, granted, writes, attempts, poolFaults,
          config, client, clients, handler, forgetting, uses, sftpFaults, stray,
          order, refunded, refundJob, refunds, records, linked, lost, repeats, crashes,
          price, quantity, known, returned, named, refundShipping, voucher

Mapper  == INSTANCE FieldMapper
Policy  == INSTANCE MCRetryPolicy WITH Ids <- ItemIds, Numbers <- Shops
Record  == INSTANCE ConnectionRecords
             WITH Requests <- Calls, Owners <- Shops, Logins <- Jobs
Users   == INSTANCE Registration
             WITH Emails <- Jobs, Ids <- Shops, MaxFaults <- MaxPoolFaults, faults <- poolFaults
Sftp    == INSTANCE SftpSession
             WITH Handlers <- Calls, Hosts <- Shops, Nowhere <- Nobody,
                  MaxFaults <- MaxSftpFaults, faults <- sftpFaults
Refund  == INSTANCE Refunds WITH Orders <- Shops, MaxCrashes <- MaxBreaks, job <- refundJob
Amounts == INSTANCE RefundAmounts WITH Items <- Shops, MaxPieces <- MaxQuantity

ASSUME RecordAssumption == Record!ConstantsFit
ASSUME UsersAssumption == Users!ConstantsFit
ASSUME SftpAssumption == Sftp!ConstantsFit
ASSUME RefundAssumption == Refund!ConstantsFit
ASSUME PolicyAssumption == MaxLen \in Nat
ASSUME AmountsAssumption == Amounts!ConstantsFit /\ IsFiniteSet(Shops)

mapperPart == <<mapper, request, shipping, telling, told, requests, broken, unchecked,
                unheard, sent, arrived, due>>
policyPart == <<kind, old, curr, number>>
recordPart == <<table, keyed, form, forms>>
userPart == <<tenantIds, account, tokens, reg, clock, granted, writes, attempts, poolFaults>>
sftpPart == <<config, client, clients, handler, forgetting, uses, sftpFaults, stray>>
refundPart == <<order, refunded, refundJob, refunds, records, linked, lost, repeats, crashes>>
amountsPart == <<price, quantity, known, returned, named, refundShipping, voucher>>

NoMapper == /\ mapper = 0 /\ request = 0 /\ shipping = 0 /\ telling = 0 /\ told = 0
            /\ requests = 0 /\ broken = 0 /\ unchecked = 0 /\ unheard = 0
            /\ sent = 0 /\ arrived = 0 /\ due = 0
NoPolicy == kind = 0 /\ old = 0 /\ curr = 0 /\ number = 0
NoShop == /\ connections = 0 /\ implementation = 0 /\ services = 0 /\ spent = 0
          /\ call = 0 /\ job = 0 /\ patches = 0 /\ faults = 0

NoRecord == table = 0 /\ keyed = 0 /\ form = 0 /\ forms = 0
NoUser == /\ tenantIds = 0 /\ account = 0 /\ tokens = 0 /\ reg = 0 /\ clock = 0
          /\ granted = 0 /\ writes = 0 /\ attempts = 0 /\ poolFaults = 0
NoSftp == /\ config = 0 /\ client = 0 /\ clients = 0 /\ handler = 0
          /\ forgetting = 0 /\ uses = 0 /\ sftpFaults = 0 /\ stray = 0
NoRefund == /\ order = 0 /\ refunded = 0 /\ refundJob = 0 /\ refunds = 0 /\ records = 0
            /\ linked = 0 /\ lost = 0 /\ repeats = 0 /\ crashes = 0
NoAmounts == /\ price = 0 /\ quantity = 0 /\ known = 0 /\ returned = 0 /\ named = 0
             /\ refundShipping = 0 /\ voucher = 0

ServicesInit ==
  /\ part \in {"shop", "mapper", "policy", "record", "user", "sftp", "refund", "amounts"}
  /\ IF part = "shop"   THEN Init        ELSE NoShop
  /\ IF part = "mapper" THEN Mapper!Init ELSE NoMapper
  /\ IF part = "policy" THEN Policy!Init ELSE NoPolicy
  /\ IF part = "record" THEN Record!Init ELSE NoRecord
  /\ IF part = "user"   THEN Users!Init  ELSE NoUser
  /\ IF part = "sftp"   THEN Sftp!Init   ELSE NoSftp
  /\ IF part = "refund"  THEN Refund!Init  ELSE NoRefund
  /\ IF part = "amounts" THEN Amounts!Init ELSE NoAmounts

shopPart == vars
OthersStay(running) ==
  /\ running = "shop"   \/ UNCHANGED shopPart
  /\ running = "mapper" \/ UNCHANGED mapperPart
  /\ running = "record" \/ UNCHANGED recordPart
  /\ running = "user"   \/ UNCHANGED userPart
  /\ running = "sftp"   \/ UNCHANGED sftpPart
  /\ running = "refund" \/ UNCHANGED refundPart

ServicesNext ==
  /\ UNCHANGED <<part, policyPart, amountsPart>>
  /\ OthersStay(part)
  /\ \/ part = "shop"   /\ Next
     \/ part = "mapper" /\ Mapper!Next
     \/ part = "record" /\ Record!Next
     \/ part = "user"   /\ Users!Next
     \/ part = "sftp"   /\ Sftp!Next
     \/ part = "refund" /\ Refund!Next

servicesVars == <<part, shopPart, mapperPart, policyPart, recordPart, userPart, sftpPart,
                  refundPart, amountsPart>>

ServicesSpec == ServicesInit /\ [][ServicesNext]_servicesVars

\* The parts use the same model values for what they name: requests are Calls and
\* Editors, deliveries, logins, e-mail addresses and jobs of refunds Jobs, and Shops are
\* also kinds, implementations, hosts, orders and items.
Symmetry == Permutations(Calls) \cup Permutations(Jobs) \cup Permutations(Shops)

----------------------------------------------------------------------------
(* The properties of each module, where it is the one that runs.           *)

\* ShopIntegration: two active connections never share shop and system unless their
\* requests were in flight together (connection-auths.service.ts:301).
NoDuplicateConnections == part = "shop" => NoDuplicates

\* ShopIntegration: an integration that has a location has the one of its own shop,
\* and a saved setting is lost only to a job that had read the row before
\* (shopify.service.ts:3013, :2097).
IntegrationsHold == part = "shop" => LocationOfTheShop /\ SettingsKept

\* FieldMapper: one default of each kind, whatever overlaps or breaks off elsewhere
\* (field-mapper.service.ts:143).  The orders service takes a default shipping method for
\* one that is not only if the last call of that row failed, is on its way or was
\* overtaken, or the last write had read what another changed, or died before its event (:155).
OneDefaultMapper == part = "mapper" => Mapper!OneDefault /\ Mapper!DefaultsTold

\* ConnectionRecords: a connection is read as it was saved, through restarts and
\* updates that overlap (encryption-util.ts:42, connection-auths.service.ts:454).
RecordsHold == part = "record" => Record!ConnectionsHold

\* Registration: the implementations of a tenant and its registered users agree, up
\* to old tokens and registrations that broke off (auth.service.ts:117).
RegisteredUsersHold == part = "user" => Users!UsersAndTenantAgree

\* SftpSession: handlers that follow one another write to their own server, and no
\* connection is left open out of reach, unless they overlap
\* (sftp-middleware.service.ts:83, :97).
SessionsHold == part = "sftp" => Sftp!SessionsHold

\* Refunds: what is refunded and what is recorded agree up to the writes that failed
\* (shopify.service.ts:1966).  RefundAmounts: the two calculations of a return agree
\* (refund-orders/mappers/refund-order.mapper.ts:46).
RefundsAreRecorded ==
  /\ part = "refund" => Refund!RefundsAddUp
  /\ part = "amounts" => Amounts!CalculationsAgree

\* RetryPolicy: a failed payload that matches the event's means that nothing was done,
\* in whatever order the ids come back (retry-event.service.ts:250).
MatchMeansNoProgress == part = "policy" => Policy!MatchMeansNoProgress
================================================================================
