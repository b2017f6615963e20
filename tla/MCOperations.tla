----------------------------- MODULE MCOperations -----------------------------
(***************************************************************************)
(* Instances of Usage, DocsAnalytics, SiteAnalytics, AdminLive and         *)
(* AdminCrm for TLC: what the operator's pages count, watch and change.    *)
(* They share no state (the nightly retention, one function in the code,   *)
(* treats the tables of each by statements of their own, and so does the   *)
(* deletion of a customer's data; the live page only reads), so a step of  *)
(* one never changes what the others can do: each is explored with the     *)
(* others at rest in their initial states.                                 *)
(***************************************************************************)
EXTENDS Usage, DocsAnalytics, SiteAnalytics, AdminLive, AdminCrm, TLC

VARIABLE part \* the one explored

mcVars == <<usageVars, docsVars, siteVars, liveVars, crmVars, part>>

MCInit ==
    /\ UsageInit /\ DocsInit /\ SiteInit /\ LiveInit /\ CrmInit
    /\ part \in {"usage", "docs", "site", "live", "crm"}
    \* at rest, any values will do
    /\ part # "live" => visible
    /\ part # "crm" => notes = {} /\ ~catalog

MCNext ==
    /\ \/ part = "usage" /\ UsageNext /\ UNCHANGED <<docsVars, siteVars, liveVars, crmVars>>
       \/ part = "docs" /\ DocsNext /\ UNCHANGED <<usageVars, siteVars, liveVars, crmVars>>
       \/ part = "site" /\ SiteNext /\ UNCHANGED <<usageVars, docsVars, liveVars, crmVars>>
       \/ part = "live" /\ LiveNext /\ UNCHANGED <<usageVars, docsVars, siteVars, crmVars>>
       \/ part = "crm" /\ CrmNext /\ UNCHANGED <<usageVars, docsVars, siteVars, liveVars>>
    /\ UNCHANGED part

MCSpec == MCInit /\ [][MCNext]_mcVars

\* Types of the three that count.
TypeOK == UsageTypeOK /\ DocsTypeOK /\ SiteTypeOK

\* Requests, Invocations, Batches and Forms are the same slots; machines are
\* not interchangeable, for NoJob names one of them.
Symmetry == Permutations(Requests)
=============================================================================
