---------------------------- MODULE MCLoanReview ----------------------------
EXTENDS LoanReview, TLC
WorkerSymmetry == Permutations(Worker)
=============================================================================
