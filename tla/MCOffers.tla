------------------------------ MODULE MCOffers ------------------------------
(* The instance of Offers for TLC.                                         *)
EXTENDS Offers, TLC

\* Offer ids are interchangeable in safety properties.
OfferSymmetry == Permutations(Offer)
=============================================================================
