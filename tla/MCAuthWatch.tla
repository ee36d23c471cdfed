------------------------------ MODULE MCAuthWatch ------------------------------
(* An instance of AuthWatch for TLC: sources in a tenant's namespace, Secrets *)
(* there, in a permitted namespace and in one that is not.                    *)
EXTENDS AuthWatch, FiniteSets, TLC

CONSTANTS tenant, shared, closed, own, common, foreign

InTenant == [c \in CRs |-> tenant]
Where == [s \in Secrets |-> CASE s = own -> tenant [] s = common -> shared [] OTHER -> closed]
===============================================================================
