---------------------------- MODULE MCPhoneView ----------------------------
\* Instances of PhoneView for TLC.
EXTENDS PhoneView

=============================================================================
