----------------------------- MODULE MCWebhooks -----------------------------
EXTENDS Webhooks, TLC

InstanceSymmetry == Permutations(Instances)

=============================================================================
