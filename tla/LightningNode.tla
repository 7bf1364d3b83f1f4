----------------------------- MODULE LightningNode -----------------------------
(***************************************************************************)
(* What the implementations of the LightningNode trait (lib.rs) have in    *)
(* common as far as payments go: one task per payment calls send_payment   *)
(* and then track_payment, the calls of several payments overlap on one    *)
(* node, which has a mutex, and all of them listen for the shutdown.       *)
(***************************************************************************)
CONSTANTS Payment,       \* the payments sent through the node
          NoPayment      \* not a payment

ASSUME PaymentAssumption == NoPayment \notin Payment

VARIABLES shutdown,      \* has the shutdown trigger fired?
          lock,          \* the payment whose call holds the node's mutex, or NoPayment
          result         \* Payment -> what its calls returned

===============================================================================
