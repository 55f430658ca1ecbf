--------------------------- MODULE GatewayAdapters ---------------------------
(***************************************************************************)
(* The four adapters' charge(): when an adapter simulates instead of       *)
(* calling its gateway, what it then returns, and what it makes of the     *)
(* gateway's reply.  Amounts are known by their last two digits, which is  *)
(* all charge() looks at; configuration values by whether they are absent, *)
(* a placeholder as in .env.example, the 'rzp_test_mock' of the test       *)
(* suite, or real.                                                         *)
(***************************************************************************)
EXTENDS Naturals, Sequences

CONSTANT Null

GatewayProvider == {"STRIPE", "RAZORPAY", "PAYU", "UPI"}

Settings ==
  {"STRIPE_SECRET_KEY", "STRIPE_WEBHOOK_SECRET", "RAZORPAY_KEY_ID",
   "RAZORPAY_KEY_SECRET", "PAYU_MERCHANT_KEY", "PAYU_SALT", "UPI_VPA",
   "UPI_MERCHANT_ID"}
SettingValue == {"absent", "placeholder", "mock", "real"}

Blank == {"absent", "placeholder"}

Endings == {"00", "01", "02", "03", "96", "97", "98", "99", "other"}

(* `a || b` of two settings.                                               *)
Or(env, a, b) == IF env[a] = "absent" THEN env[b] ELSE env[a]

(* isGatewayConfigured(), by which the routing engine filters its ranking. *)
IsGatewayConfigured(env, g) ==
  LET key == CASE g = "STRIPE"   -> env["STRIPE_SECRET_KEY"]
               [] g = "RAZORPAY" -> env["RAZORPAY_KEY_SECRET"]
               [] g = "PAYU"     -> Or(env, "PAYU_SALT", "PAYU_MERCHANT_KEY")
               [] g = "UPI"      -> Or(env, "UPI_VPA", "UPI_MERCHANT_ID")
  IN key \notin Blank

(* What a gateway may reply: the status the adapter takes for success,     *)
(* another one, or nothing usable (fetch or json() throws).                *)
Reply == {"accepted", "refused", "unreachable"}

(* An adapter: is it in mock mode; the endings it simulates in any mode;   *)
(* the endings for which the simulation fails, with a decline or after     *)
(* 2 s, when the 1.5 s timer of create() has fired; and what kind of id it *)
(* takes from the reply to its request.                                    *)
Adapter(mock, simulated, fails, id) ==
  [isMockMode |-> mock, simulated |-> simulated, fails |-> fails, id |-> id]

(* Mutant: the simulated decline is taken out, its ending stays listed.    *)
StripeWithoutDecline(env) ==
  Adapter(env["STRIPE_SECRET_KEY"] \in Blank, {"99", "00"}, {"99"}, "charge")

StripeAdapter(env) ==
  Adapter(env["STRIPE_SECRET_KEY"] \in Blank,
          {"99", "00"}, {"99", "00"}, "charge")

(* Mutant: a success without its id.                                       *)
RazorpayWithoutId(env) ==
  Adapter(env["RAZORPAY_KEY_ID"] \in Blank,
          {"96", "01", "99", "00"}, {"96", "01"}, "undefined")

RazorpayAdapter(env) ==
  Adapter(env["RAZORPAY_KEY_ID"] \in Blank,
          {"96", "01", "99", "00"}, {"96", "01"}, "order")

(* PayU is known by the txnid the adapter sends itself.                    *)
PayUAdapter(env) ==
  Adapter(env["PAYU_MERCHANT_KEY"] \in Blank,
          {"97", "02"}, {"97", "02"}, "txnid")

(* The UPI adapter asks a second time, for a plain payment link, if UPI    *)
(* links are refused in test mode; then the second reply is the one.       *)
UpiAdapter(env) ==
  Adapter(env["RAZORPAY_KEY_ID"] # "real",
          {"98", "99", "00", "03"}, {"98", "99", "00", "03"}, "link")

(* getAdapter().                                                           *)
GetAdapter(env, g) ==
  CASE g = "STRIPE"   -> StripeAdapter(env)
    [] g = "RAZORPAY" -> RazorpayAdapter(env)
    [] g = "PAYU"     -> PayUAdapter(env)
    [] g = "UPI"      -> UpiAdapter(env)

IsSimulated(adapter, ending) ==
  adapter.isMockMode \/ ending \in adapter.simulated

(* What create() gets of charge(): the id of a success, or Null.           *)
ChargeResult(adapter, ending, t, reply) ==
  IF IsSimulated(adapter, ending)
  THEN IF ending \in adapter.fails THEN Null ELSE <<"mock", t>>
  ELSE IF reply = "accepted" THEN <<adapter.id, t>> ELSE Null
=============================================================================
