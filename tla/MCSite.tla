--------------------------------- MODULE MCSite --------------------------------
(***************************************************************************)
(* What readers see, for TLC.  The parts share no state, so each behaviour *)
(* is of one of them and the others stay as they begin.                    *)
(***************************************************************************)
EXTENDS Delivery, HealthWatch, SearchBox, RegistryPage, ScoreSeries

VARIABLE part

siteVars == <<deliveryVars, healthVars, searchVars, registryVars, history, part>>

MCNotes == (2 :> "awaiting-mainnet" @@ 3 :> "out-of-category")
MCCategoryOf == (1 :> "lending" @@ 2 :> "lending" @@ 3 :> "dex")
MCCategories == <<"dex", "lending">>
MCStatusOrder == <<"awaiting-mainnet", "out-of-category">>
MCQueries == {Ids, {1, 3}}

SiteInit ==
    /\ DeliveryInit /\ HealthInit /\ SearchInit /\ RegistryInit /\ SeriesInit
    /\ part \in {"delivery", "health", "search", "registry", "series"}

SiteNext ==
    /\ UNCHANGED part
    /\ \/ /\ part = "delivery" /\ DeliveryNext
          /\ UNCHANGED <<healthVars, searchVars, registryVars, history>>
       \/ /\ part = "health" /\ HealthNext
          /\ UNCHANGED <<deliveryVars, searchVars, registryVars, history>>
       \/ /\ part = "search" /\ SearchNext
          /\ UNCHANGED <<deliveryVars, healthVars, registryVars, history>>
       \/ /\ part = "registry" /\ RegistryNext
          /\ UNCHANGED <<deliveryVars, healthVars, searchVars, history>>
       \/ /\ part = "series" /\ SeriesNext
          /\ UNCHANGED <<deliveryVars, healthVars, searchVars, registryVars>>

\* Time goes on, the status page's interval fires, and every fetch of it is answered and
\* settles: browsers and the platform end a request that nobody answers.
Watching(action) == part = "health" /\ action /\ UNCHANGED part

SiteFairness ==
    /\ WF_healthVars(Watching(TimePasses))
    /\ \A i \in 1 .. MaxFetches :
          /\ WF_healthVars(Watching(Poll(i)))
          /\ WF_healthVars(Watching(\E answer \in Answers : Answered(i, answer)))
          /\ WF_healthVars(Watching(Settle(i)))

SiteSpec == SiteInit /\ [][SiteNext]_siteVars /\ SiteFairness
================================================================================
