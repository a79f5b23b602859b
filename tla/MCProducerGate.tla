----------------------------- MODULE MCProducerGate -----------------------------
(* ProducerGate; its bounds are in the configurations.                           *)
EXTENDS ProducerGate
================================================================================
