---------------------------- MODULE SvmTables ----------------------------
(***************************************************************************)
(* The two tables behind the SVM editor: the settings as the dashboard     *)
(* keeps them, a structure with its default for every group               *)
(* (src/src/svm/config.rs), and the fields of the forms they are edited    *)
(* with (src/src/svm/metadata.rs).  A setting is a path and a type, and    *)
(* what becomes of it when its group is in a file and it is not; a field   *)
(* is a path and the kind of its input.  The values of the defaults, the   *)
(* labels, the hints and the ranges are left out.                          *)
(***************************************************************************)
EXTENDS Sequences

\* serde(default) takes what is missing from the default of the structure itself, which
\* is not always that of the group it is in: a derived one is zero throughout.  Without
\* the attribute a missing setting is an error.
Of(type, names) == {[path |-> <<n>>, type |-> type, missing |-> "standard"] : n \in names}
Zeroed(settings) == {[s EXCEPT !.missing = "zero"] : s \in settings}
Required(settings) == {[s EXCEPT !.missing = IF Len(s.path) = 1 THEN "error" ELSE @] : s \in settings}
In(groups, settings) == {[s EXCEPT !.path = <<g>> \o @] : g \in groups, s \in settings}

Inputs(kind, names) == {[path |-> <<n>>, input |-> kind] : n \in names}
Under(groups, fields) == {[f EXCEPT !.path = <<g>> \o @] : g \in groups, f \in fields}

------------------------------------------------------------------------------
(* The settings                                                            *)

AmmoStacks ==
  Of("i32", {"MarksmanRound", "RifleRound", "ShotgunRound", "PistolRound",
             "LargeCaliberRound"})

Keys ==
       Of("bool", {"EnableKeys", "AvoidSingleKeyCards", "IgnoreAccessCard",
                   "AvoidSingleKeys", "AvoidMarkedKeys", "AvoidResidential",
                   "AvoidOddKeys", "InfiniteKeys", "InfiniteKeycards"})
  \cup Of("f64", {"KeyUseMult", "KeycardUseMult"})
  \cup Of("i32", {"KeyDurabilityThreshold", "KeyCardDurabilityThreshold"})

Items ==
       Of("bool", {"ExamineKeys", "WeaponHeatOff", "SMGToHolster", "PistolToMain",
                   "AllExaminedItems", "EquipRigsWithArmors",
                   "RemoveSecureContainerFilters", "EnableCurrency", "EnableItems",
                   "AmmoSwitch", "RemoveRaidRestr", "RemoveBackpacksRestrictions",
                   "SurvCMSToSpec", "SurvCMSSecConBlock", "NoGearPenalty", "RaidDrop"})
  \cup Of("i32", {"BackpackStacking", "RubStack", "DollarStack", "GPStack", "EuroStack"})
  \cup Of("f64", {"MisfireChance", "FragmentMult", "HeatFactor", "ExamineTime",
                  "MalfunctChanceMult", "WeightChanger", "ItemPriceMult", "AmmoLoadSpeed",
                  "AmmoUnLoadSpeed", "LootExp", "ExamineExp"})
  \cup In({"AmmoStacks"}, AmmoStacks)
  \cup In({"Keys"}, Keys)

Stash == Of("i32", {"StashTUE", "StashLvl4", "StashLvl3", "StashLvl2", "StashLvl1"})

Regeneration ==
       Of("bool", {"OfflineRegen", "HideoutHealth", "HideoutEnergy", "HideoutHydration"})
  \cup Of("f64", {"HealthRegen", "HydrationRegen", "EnergyRegen"})

Prestige == Zeroed(
         Of("i32", {"Height", "Skills", "Mastery"})
    \cup Of("bool", {"Filter"}))

Hideout ==
       Of("bool", {"EnableStash", "RemoveConstructionsRequirements",
                   "RemoveConstructionsFIRRequirements", "RemoveCustomizationRequirements",
                   "RemoveArenaCrafts", "RemoveSkillRequirements",
                   "RemoveTraderLevelRequirements", "EnableHideout", "EnablePrestige",
                   "PrestigeCollector", "PrestigeNewBeginnings", "PrestigeAreas"})
  \cup Of("i32", {"WaterFilterTime", "BitcoinTime", "MaxBitcoins", "WaterFilterRate",
                  "CultistMaxRewards", "PrestigeLevel", "PrestigeStrength",
                  "PrestigeEndurance", "PrestigeCharisma", "PrestigeCurrency"})
  \cup Of("f64", {"NoFuelMult", "ScavCasePrice", "ScavCaseTime", "HideoutConstMult",
                  "HideoutProdMult", "GPUBoostRate", "AirFilterRate", "CultistTime",
                  "FuelConsumptionRate"})
  \cup In({"Stash"}, Stash)
  \cup In({"Regeneration"}, Regeneration)
  \cup In({"FirstPrestige", "SecondPrestige", "ThirdPrestige", "FourthPrestige"},
          Prestige)

Fence ==
       Of("bool", {"EnableFence"})
  \cup Of("i32", {"ArmorDurability_Max", "GunDurability_Max", "ArmorDurability_Min",
                  "GunDurability_Min", "PremiumAmountOnSale", "PresetCount",
                  "StockTime_Min", "StockTime_Max", "AmountOnSale"})
  \cup Of("f64", {"PriceMult", "PresetMult"})

TraderMarkup ==
  Of("i32", {"Ragman", "Peacekeeper", "Fence", "Prapor", "Jaeger", "Ref", "Mechanic",
             "Skier", "Therapist"})

TraderSell ==
  Of("f64", {"Ragman", "Peacekeeper", "Prapor", "Jaeger", "Mechanic", "Skier", "Ref",
             "Therapist"})

LightKeeper ==
       Of("i32", {"AccessTime", "LeaveTime"})
  \cup Of("bool", {"EnableLightKeeper"})

Traders ==
       Of("i32", {"QuestRedeemDefault", "QuestRedeemUnheard", "MinDurabSell"})
  \cup Of("bool", {"RemoveTimeCondition", "AllQuestsAvailable", "RandomizeAssort",
                   "UnlockQuestAssort", "EnableTraders", "FIRRestrictsQuests",
                   "TradersLvl4", "FIRTrade", "UnlockJaeger", "UnlockRef"})
  \cup Of("f64", {"BarterOffers", "CurrencyOffers", "BarterRestrictions",
                  "CurrencyRestrictions", "PlantingTime"})
  \cup In({"Fence"}, Fence)
  \cup In({"TraderMarkup"}, TraderMarkup)
  \cup In({"TraderSell"}, TraderSell)
  \cup In({"LightKeeper"}, LightKeeper)

AirdropContents == Zeroed(Of("i32", {"ArmorMin", "ArmorMax", "BarterMin", "BarterMax",
                                     "PresetMin", "PresetMax", "CratesMin", "CratesMax"}))

Airdrops ==
       Of("i32", {"Sandbox_air", "Streets_air", "AirtimeMin", "AirtimeMax",
                  "Lighthouse_air", "Bigmap_air", "Interchange_air", "Shoreline_air",
                  "Reserve_air", "Woods_air"})
  \cup In({"Mixed", "Medical", "Barter", "Weapon"}, AirdropContents)

LootOnLocations == Zeroed(Of("f64", {"Loose", "Container"}))

Locations ==
       Of("bool", {"AllContainers"})
  \cup In({"Streets", "Sandbox", "SandboxHard", "Lighthouse", "Bigmap", "Interchange",
           "FactoryDay", "Laboratory", "Shoreline", "Reserve", "Woods", "Labyrinth",
           "FactoryNight"}, LootOnLocations)

Loot ==
       Of("bool", {"EnableLoot"})
  \cup In({"Airdrops"}, Airdrops)
  \cup In({"Locations"}, Locations)

Stats == Of("i32", {"MaxHydration", "MaxEnergy"})

CharXp ==
       Of("i32", {"ScavKill", "PMCKill"})
  \cup Of("f64", {"ScavHMult", "PMCHMult"})

RaidMult == Of("f64", {"MIA", "Runner", "Survived", "Killed"})

Skills ==
       Of("i32", {"SkillFatigueReset", "SkillFPoints", "SkillPointsBeforeFatigue"})
  \cup Of("f64", {"SkillFreshEffect", "SkillMinEffect", "SkillFatiguePerPoint"})

Health == Zeroed(Of("i32", {"LeftArm", "RightArm", "Head", "Chest", "Stomach", "LeftLeg",
                            "RightLeg"}))

DiedHealth ==
       Of("bool", {"Saveeffects", "Savehealth"})
  \cup Of("f64", {"Health_blacked", "Health_death"})

Player ==
       Of("bool", {"EnableFatigue", "EnableStats", "FallDamage", "EnableHealth",
                   "EnablePlayer", "EnableStaminaHands", "EnableStaminaLegs",
                   "UnlimitedStamina"})
  \cup Of("f64", {"BlackStomach", "HydrationLoss", "EnergyLoss", "SkillProgMult",
                  "WeaponSkillMult", "RegenStaminaLegs", "RegenStaminaHands", "Standing",
                  "LayingDown", "Crouching"})
  \cup Of("i32", {"MaxStaminaLegs", "MaxStaminaHands", "JumpConsumption", "LayToStand",
                  "CrouchToStand"})
  \cup In({"PMCStats"}, Stats)
  \cup In({"CharXP"}, CharXp)
  \cup In({"RaidMult"}, RaidMult)
  \cup In({"Skills"}, Skills)
  \cup In({"Health"}, Health)
  \cup In({"DiedHealth"}, DiedHealth)

Exfils ==
       Of("i32", {"CarSandbox", "CarShoreline", "CoopPaidSandbox", "CoopPaidShoreline",
                  "CoopPaidStreets", "CoopPaidLighthouse", "CarLighthouse",
                  "CarExtractTime", "CoopPaidInterchange", "CoopPaidWoods",
                  "CoopPaidReserve", "CarInterchange", "CarWoods", "CarStreets",
                  "CarCustoms", "CoopPaidCustoms"})
  \cup Of("bool", {"ArmorExtract", "CoopPaid", "FenceGift", "DisableTransits",
                   "NoBackpack", "FreeCoop", "ExtendedExtracts", "ChanceExtracts",
                   "GearExtract"})

RaidEvents ==
       Of("bool", {"DisableEvents", "CultistBosses", "GoonsFactory", "BossesOnCustoms",
                   "BossesOnHealthResort", "TagillaInterchange",
                   "HealthResortIncludeGuards", "Christmas", "NonSeasonalQuests",
                   "Halloween", "DisableZombies", "DisableHalloweenAIFriendly",
                   "IncludeStreetBosses", "KillaFactory", "BossesOnReserve",
                   "AITypeOverride", "GlukharLabs"})
  \cup Of("i32", {"KillaFactoryChance", "CultistBossesChance", "GoonsFactoryChance",
                  "HoundsWoods", "HoundsCustoms", "SkierFighters", "PeaceFighters",
                  "AIType"})

RaidStartup ==
       Of("bool", {"EnableRaidStartup", "SaveLoot", "MIAEndofRaid", "TaggedAndCursed",
                   "EnableBosses", "ScavWars"})
  \cup Of("i32", {"TimeBeforeDeployLocal", "AIAmount", "AIDifficulty"})

Raids ==
       Of("i32", {"SandboxAccessLevel", "RaidTime", "Timeacceleration", "OnSurvivedState",
                  "OnKilledState", "OnLeftState", "OnRunnerState", "OnMIAState",
                  "TransitHeight", "TransitWidth", "BTRCoverPrice", "BTRTaxiPrice",
                  "BTRWoodsTimeMin", "BTRWoodsTimeMax", "BTRWoodsChance",
                  "BTRStreetsChance", "BTRStreetsTimeMin", "BTRStreetsTimeMax",
                  "BTRHeight", "BTRWidth", "Season"})
  \cup Of("bool", {"SaveQuestItems", "NoRunThrough", "SafeExit", "SaveGearAfterDeath",
                   "LabInsurance", "EnableRaids", "Removelabkey", "EnableCarCoop",
                   "ForceBTRFriendly", "ForceTransitStash", "ForceBTRStash", "EnableBTR",
                   "ForceSeason"})
  \cup Of("f64", {"UsecMult", "BearMult", "ScavMult"})
  \cup In({"Exfils"}, Exfils)
  \cup In({"RaidEvents"}, RaidEvents)
  \cup In({"RaidStartup"}, RaidStartup)

FleaConditions ==
  Of("i32", {"FleaFood_Min", "FleaArmor_Min", "FleaFood_Max", "FleaArmor_Max",
             "FleaMedical_Min", "FleaSpec_Min", "FleaMedical_Max", "FleaSpec_Max",
             "FleaWeapons_Min", "FleaVests_Min", "FleaKeys_Min", "FleaWeapons_Max",
             "FleaVests_Max", "FleaKeys_Max"})

DynamicOffers ==
       Of("i32", {"ExpireThreshold", "BundleOfferChance", "BarterChance", "Stack_min",
                  "PerOffer_min", "Stack_max", "PerOffer_max", "Eurooffers",
                  "Dollaroffers", "Roubleoffers", "NonStack_min", "Time_min",
                  "NonStack_max", "Time_max"})
  \cup Of("f64", {"Price_min", "Price_max"})

Fleamarket ==
       Of("bool", {"EnableFleaConditions", "EnablePlayerOffers", "FleaFIR",
                   "FleaNoFIRSell", "EventOffers", "OverrideOffers", "DisableBSGList",
                   "EnableFleamarket", "TieredFlea"})
  \cup Of("i32", {"SellOffersAmount", "FleaMarketLevel", "Tradeoffer_max",
                  "Tradeoffer_min", "Sell_chance"})
  \cup Of("f64", {"Sell_mult", "Rep_loss", "Rep_gain", "FeesMult"})
  \cup In({"FleaConditions"}, FleaConditions)
  \cup In({"DynamicOffers"}, DynamicOffers)

RepairBox ==
       Of("bool", {"NoRandomRepair", "OpGunRepair", "OpArmorRepair"})
  \cup Of("f64", {"ArmorSkillMult", "WeaponMaintenanceSkillMult",
                  "IntellectSkillMultWeaponKit", "IntellectSkillMultArmorKit",
                  "IntellectSkillLimitTraders", "IntellectSkillLimitKit", "RepairMult"})

Services ==
       Of("bool", {"EnableHealMarkup", "EnableInsurance", "EnableTimeOverride",
                   "EnableServices", "EnableRepair", "ClothesAnySide",
                   "ClothesLevelUnlock", "ClothesFree", "ScavClothes"})
  \cup Of("i32", {"FreeHealLvl", "FreeHealRaids", "ReturnChancePrapor",
                  "ReturnChanceTherapist", "InsuranceInterval", "InsuranceTimeOverride",
                  "InsuranceAttachmentChance", "TherapistStorageTime", "PraporStorageTime",
                  "Prapor_Max", "Prapor_Min", "Therapist_Max", "Therapist_Min"})
  \cup Of("f64", {"TherapistLvl1", "TherapistLvl2", "TherapistLvl3", "TherapistLvl4",
                  "InsuranceMultTherapistLvl1", "InsuranceMultTherapistLvl2",
                  "InsuranceMultTherapistLvl3", "InsuranceMultTherapistLvl4",
                  "InsuranceMultPraporLvl1", "InsuranceMultPraporLvl2",
                  "InsuranceMultPraporLvl3", "InsuranceMultPraporLvl4"})
  \cup In({"RepairBox"}, RepairBox)

LevelRanges == Zeroed(Of("i32", {"MinKills", "MaxKills", "MinItems", "MaxItems",
                                 "MinExtracts", "MaxExtracts", "MinSpecExits",
                                 "MaxSpecExits"}))

DailyQuests == Required(
         Of("i32", {"Types", "Reroll", "Access", "QuestAmount", "Lifespan"})
    \cup Of("String", {"Levels", "Experience", "ItemsReward", "Reputation", "SkillPoint",
                       "SkillChance", "Roubles", "GPcoins"})
    \cup In({"LR1", "LR2", "LR3"}, LevelRanges))

Quests ==
       Of("bool", {"EnableQuestsMisc", "QuestRepToZero", "EnableQuests"})
  \cup Of("f64", {"QuestCostMult"})
  \cup In({"DailyQuests", "WeeklyQuests", "ScavQuests"}, DailyQuests)

Pockets ==
       Of("bool", {"SpecGKeychain", "SpecSimpleWallet", "SpecWZWallet",
                   "SpecKeycardHolder", "SpecKeytool", "SpecInjectorCase"})
  \cup Of("i32", {"SpecSlots", "FourthWidth", "FourthHeight", "ThirdWidth", "ThirdHeight",
                  "SecondWidth", "SecondHeight", "FirstWidth", "FirstHeight"})

Case == Zeroed(
         Of("i32", {"Height", "Width"})
    \cup Of("bool", {"Filter"}))

Cases ==
  In({"GKeychain", "KeycardHolderCase", "InjectorCase", "Holodilnick", "PistolCase",
      "DocumentsCase", "Keytool", "SiccCase", "ThiccWeaponCase", "ThiccItemsCase",
      "MedicineCase", "DogtagCase", "MagazineCase", "AmmunitionCase", "WeaponCase",
      "ItemsCase", "GrenadeCase", "WZWallet", "SimpleWallet", "MoneyCase", "LuckyScav",
      "StreamerCase", "ArmorPlateCase", "KeysCase"}, Case)

SecureContainers ==
  In({"Alpha", "Beta", "Epsilon", "Gamma", "GammaTUE", "Kappa", "DesecratedKappa", "Dev",
      "WaistPouch"}, Case)

Csm ==
       Of("bool", {"EnableCases", "EnableSecureCases", "CustomPocket", "EnableCSM"})
  \cup In({"Pockets"}, Pockets)
  \cup In({"Cases"}, Cases)
  \cup In({"SecureContainers"}, SecureContainers)

ScavPockets ==
  Of("i32", {"FourthHeight", "FourthWidth", "ThirdHeight", "ThirdWidth", "SecondHeight",
             "SecondWidth", "FirstHeight", "FirstWidth"})

Scav ==
       Of("bool", {"HostileBosses", "FriendlyBosses", "ScavCustomPockets", "ScavLab",
                   "FriendlyScavs", "HostileScavs", "EnableScavHealth", "EnableScav",
                   "EnableStats"})
  \cup Of("f64", {"CarBaseStanding", "StandingFriendlyKill", "StandingPMCKill"})
  \cup Of("i32", {"ScavTimer"})
  \cup In({"SCAVPockets"}, ScavPockets)
  \cup In({"Health"}, Health)
  \cup In({"ScavStats"}, Stats)

AiChance ==
       Of("i32", {"KolontayStreets", "KolontayGZ", "PartisanCustoms", "PartisanShoreline",
                  "PartisanWoods", "PartisanLighthouse", "Kaban", "TagillaNight",
                  "TrioLighthouse", "TrioShoreline", "TrioWoods", "Zryachiy",
                  "CultistCustoms", "CultistShoreline", "Trio", "RaiderLab",
                  "RaiderReserve", "CultistFactory", "CultistWoods", "CultistGroundZero",
                  "Rogue", "Tagilla", "Shturman", "Glukhar", "Sanitar", "Reshala", "Killa"})
  \cup Of("bool", {"ForcePartisan", "DisableWeeklyBoss"})

BotDurability == Zeroed(Of("i32", {"ArmorMin", "ArmorMax", "WeaponMin", "WeaponMax"}))

Bots ==
       Of("bool", {"EnableBots"})
  \cup In({"AIChance"}, AiChance)
  \cup In({"PMC", "SCAV", "Boss", "Follower", "Rogue", "Raider", "Marksman"},
          BotDurability)

PmcChance ==
  Of("i32", {"PMCNamePrefix", "PMCAllNamePrefix", "PMCLooseWep", "HostileSamePMC",
             "HostilePMC", "PMCWepEnhance"})

Pmc ==
       Of("bool", {"NameOverride", "NamesEnable", "ChancesEnable", "DisableLowLevelPMC",
                   "LootableMelee", "EnablePMC"})
  \cup Of("i32", {"LevelUpMargin", "LevelDownMargin", "PMCRatio"})
  \cup Of("String", {"PMCNameList"})
  \cup In({"PMCChance"}, PmcChance)

Custom ==
       Of("bool", {"EnableCustom", "DisableSPTFriend", "DisableCommando",
                   "DisablePMCMessages", "IDChanger"})
  \cup Of("String", {"FleaMultID", "IDDefault", "IDParent", "IDFilter", "IDPrice",
                     "AddTraderAssort", "Blacklist"})

------------------------------------------------------------------------------
(* The fields of the forms                                                 *)

AmmoStacksForm ==
  Inputs("Integer", {"MarksmanRound", "RifleRound", "ShotgunRound", "PistolRound",
                     "LargeCaliberRound"})

KeysForm ==
       Inputs("Toggle", {"EnableKeys", "AvoidSingleKeyCards", "IgnoreAccessCard",
                         "AvoidSingleKeys", "AvoidMarkedKeys", "AvoidResidential",
                         "AvoidOddKeys", "InfiniteKeys", "InfiniteKeycards"})
  \cup Inputs("Float", {"KeyUseMult", "KeycardUseMult"})
  \cup Inputs("Integer", {"KeyDurabilityThreshold", "KeyCardDurabilityThreshold"})

ItemsForm ==
       Inputs("Toggle", {"EnableItems", "ExamineKeys", "WeaponHeatOff", "SMGToHolster",
                         "PistolToMain", "AllExaminedItems", "EquipRigsWithArmors",
                         "RemoveSecureContainerFilters", "EnableCurrency", "AmmoSwitch",
                         "RemoveRaidRestr", "RemoveBackpacksRestrictions", "SurvCMSToSpec",
                         "SurvCMSSecConBlock", "NoGearPenalty", "RaidDrop"})
  \cup Inputs("Integer", {"BackpackStacking", "RubStack", "DollarStack", "GPStack",
                          "EuroStack"})
  \cup Inputs("Float", {"MisfireChance", "FragmentMult", "HeatFactor", "ExamineTime",
                        "MalfunctChanceMult", "WeightChanger", "ItemPriceMult",
                        "AmmoLoadSpeed", "AmmoUnLoadSpeed", "LootExp", "ExamineExp"})
  \cup Under({"AmmoStacks"}, AmmoStacksForm)
  \cup Under({"Keys"}, KeysForm)

StashForm ==
  Inputs("Integer", {"StashTUE", "StashLvl4", "StashLvl3", "StashLvl2", "StashLvl1"})

RegenerationForm ==
       Inputs("Toggle", {"OfflineRegen", "HideoutHealth", "HideoutEnergy",
                         "HideoutHydration"})
  \cup Inputs("Float", {"HealthRegen", "HydrationRegen", "EnergyRegen"})

PrestigeForm ==
       Inputs("Integer", {"Height", "Skills", "Mastery"})
  \cup Inputs("Toggle", {"Filter"})

HideoutForm ==
       Inputs("Toggle", {"EnableHideout", "EnableStash",
                         "RemoveConstructionsRequirements",
                         "RemoveConstructionsFIRRequirements",
                         "RemoveCustomizationRequirements", "RemoveArenaCrafts",
                         "RemoveSkillRequirements", "RemoveTraderLevelRequirements",
                         "EnablePrestige", "PrestigeCollector", "PrestigeNewBeginnings",
                         "PrestigeAreas"})
  \cup Inputs("Integer", {"WaterFilterTime", "BitcoinTime", "MaxBitcoins",
                          "WaterFilterRate", "CultistMaxRewards", "PrestigeLevel",
                          "PrestigeStrength", "PrestigeEndurance", "PrestigeCharisma",
                          "PrestigeCurrency"})
  \cup Inputs("Float", {"NoFuelMult", "ScavCasePrice", "ScavCaseTime", "HideoutConstMult",
                        "HideoutProdMult", "GPUBoostRate", "AirFilterRate", "CultistTime",
                        "FuelConsumptionRate"})
  \cup Under({"Stash"}, StashForm)
  \cup Under({"Regeneration"}, RegenerationForm)
  \cup Under({"FirstPrestige", "SecondPrestige", "ThirdPrestige", "FourthPrestige"},
             PrestigeForm)

FenceForm ==
       Inputs("Toggle", {"EnableFence"})
  \cup Inputs("Integer", {"ArmorDurability_Max", "GunDurability_Max",
                          "ArmorDurability_Min", "GunDurability_Min",
                          "PremiumAmountOnSale", "PresetCount", "StockTime_Min",
                          "StockTime_Max", "AmountOnSale"})
  \cup Inputs("Float", {"PriceMult", "PresetMult"})

TraderMarkupForm ==
  Inputs("Integer", {"Ragman", "Peacekeeper", "Fence", "Prapor", "Jaeger", "Ref",
                     "Mechanic", "Skier", "Therapist"})

TraderSellForm ==
  Inputs("Float", {"Ragman", "Peacekeeper", "Prapor", "Jaeger", "Mechanic", "Skier",
                   "Ref", "Therapist"})

LightKeeperForm ==
       Inputs("Toggle", {"EnableLightKeeper"})
  \cup Inputs("Integer", {"AccessTime", "LeaveTime"})

TradersForm ==
       Inputs("Toggle", {"EnableTraders", "RemoveTimeCondition", "AllQuestsAvailable",
                         "RandomizeAssort", "UnlockQuestAssort", "FIRRestrictsQuests",
                         "TradersLvl4", "FIRTrade", "UnlockJaeger", "UnlockRef"})
  \cup Inputs("Integer", {"QuestRedeemDefault", "QuestRedeemUnheard", "MinDurabSell"})
  \cup Inputs("Float", {"BarterOffers", "CurrencyOffers", "BarterRestrictions",
                        "CurrencyRestrictions", "PlantingTime"})
  \cup Under({"Fence"}, FenceForm)
  \cup Under({"TraderMarkup"}, TraderMarkupForm)
  \cup Under({"TraderSell"}, TraderSellForm)
  \cup Under({"LightKeeper"}, LightKeeperForm)

LocationsForm == Inputs("Toggle", {"AllContainers"})

LootOnLocationsForm == Inputs("Float", {"Loose", "Container"})

AirdropsForm ==
  Inputs("Integer", {"Sandbox_air", "Streets_air", "AirtimeMin", "AirtimeMax",
                     "Lighthouse_air", "Bigmap_air", "Interchange_air", "Shoreline_air",
                     "Reserve_air", "Woods_air"})

AirdropContentsForm ==
  Inputs("Integer", {"ArmorMin", "ArmorMax", "BarterMin", "BarterMax", "PresetMin",
                     "PresetMax", "CratesMin", "CratesMax"})

LootForm ==
       Inputs("Toggle", {"EnableLoot"})
  \cup Under({"Locations"}, LocationsForm)
  \cup Under({"Locations"},
             Under({"Streets", "Sandbox", "SandboxHard", "Lighthouse", "Bigmap",
                    "Interchange", "FactoryDay", "Laboratory", "Shoreline", "Reserve",
                    "Woods", "Labyrinth", "FactoryNight"},
                   LootOnLocationsForm))
  \cup Under({"Airdrops"}, AirdropsForm)
  \cup Under({"Airdrops"},
             Under({"Mixed", "Medical", "Barter", "Weapon"}, AirdropContentsForm))

StatsForm == Inputs("Integer", {"MaxHydration", "MaxEnergy"})

CharXPForm ==
       Inputs("Integer", {"ScavKill", "PMCKill"})
  \cup Inputs("Float", {"ScavHMult", "PMCHMult"})

RaidMultForm == Inputs("Float", {"MIA", "Runner", "Survived", "Killed"})

SkillsForm ==
       Inputs("Integer", {"SkillFatigueReset", "SkillFPoints", "SkillPointsBeforeFatigue"})
  \cup Inputs("Float", {"SkillFreshEffect", "SkillMinEffect", "SkillFatiguePerPoint"})

HealthForm ==
  Inputs("Integer", {"Head", "Chest", "Stomach", "LeftArm", "RightArm", "LeftLeg",
                     "RightLeg"})

DiedHealthForm ==
       Inputs("Toggle", {"Saveeffects", "Savehealth"})
  \cup Inputs("Float", {"Health_blacked", "Health_death"})

PlayerForm ==
       Inputs("Toggle", {"EnablePlayer", "EnableFatigue", "EnableStats", "FallDamage",
                         "EnableHealth", "EnableStaminaHands", "EnableStaminaLegs",
                         "UnlimitedStamina"})
  \cup Inputs("Float", {"BlackStomach", "HydrationLoss", "EnergyLoss", "SkillProgMult",
                        "WeaponSkillMult", "RegenStaminaLegs", "RegenStaminaHands",
                        "Standing", "LayingDown", "Crouching"})
  \cup Inputs("Integer", {"MaxStaminaLegs", "MaxStaminaHands", "JumpConsumption",
                          "LayToStand", "CrouchToStand"})
  \cup Under({"PMCStats"}, StatsForm)
  \cup Under({"CharXP"}, CharXPForm)
  \cup Under({"RaidMult"}, RaidMultForm)
  \cup Under({"Skills"}, SkillsForm)
  \cup Under({"Health"}, HealthForm)
  \cup Under({"DiedHealth"}, DiedHealthForm)

ExfilsForm ==
       Inputs("Integer", {"CarSandbox", "CarShoreline", "CoopPaidSandbox",
                          "CoopPaidShoreline", "CoopPaidStreets", "CoopPaidLighthouse",
                          "CarLighthouse", "CarExtractTime", "CoopPaidInterchange",
                          "CoopPaidWoods", "CoopPaidReserve", "CarInterchange", "CarWoods",
                          "CarStreets", "CarCustoms", "CoopPaidCustoms"})
  \cup Inputs("Toggle", {"ArmorExtract", "CoopPaid", "FenceGift", "DisableTransits",
                         "NoBackpack", "FreeCoop", "ExtendedExtracts", "ChanceExtracts",
                         "GearExtract"})

RaidEventsForm ==
       Inputs("Toggle", {"DisableEvents", "CultistBosses", "GoonsFactory",
                         "BossesOnCustoms", "BossesOnHealthResort", "TagillaInterchange",
                         "HealthResortIncludeGuards", "Christmas", "NonSeasonalQuests",
                         "Halloween", "DisableZombies", "DisableHalloweenAIFriendly",
                         "IncludeStreetBosses", "KillaFactory", "BossesOnReserve",
                         "AITypeOverride", "GlukharLabs"})
  \cup Inputs("Integer", {"KillaFactoryChance", "CultistBossesChance",
                          "GoonsFactoryChance", "HoundsWoods", "HoundsCustoms",
                          "SkierFighters", "PeaceFighters", "AIType"})

RaidStartupForm ==
       Inputs("Toggle", {"EnableRaidStartup", "SaveLoot", "MIAEndofRaid",
                         "TaggedAndCursed", "EnableBosses", "ScavWars"})
  \cup Inputs("Integer", {"TimeBeforeDeployLocal", "AIAmount", "AIDifficulty"})

RaidsForm ==
       Inputs("Toggle", {"EnableRaids", "SaveQuestItems", "NoRunThrough", "SafeExit",
                         "SaveGearAfterDeath", "LabInsurance", "Removelabkey",
                         "EnableCarCoop", "ForceBTRFriendly", "ForceTransitStash",
                         "ForceBTRStash", "EnableBTR", "ForceSeason"})
  \cup Inputs("Integer", {"SandboxAccessLevel", "RaidTime", "Timeacceleration",
                          "OnSurvivedState", "OnKilledState", "OnLeftState",
                          "OnRunnerState", "OnMIAState", "TransitHeight", "TransitWidth",
                          "BTRCoverPrice", "BTRTaxiPrice", "BTRWoodsTimeMin",
                          "BTRWoodsTimeMax", "BTRWoodsChance", "BTRStreetsChance",
                          "BTRStreetsTimeMin", "BTRStreetsTimeMax", "BTRHeight",
                          "BTRWidth", "Season"})
  \cup Inputs("Float", {"UsecMult", "BearMult", "ScavMult"})
  \cup Under({"Exfils"}, ExfilsForm)
  \cup Under({"RaidEvents"}, RaidEventsForm)
  \cup Under({"RaidStartup"}, RaidStartupForm)

FleaConditionsForm ==
  Inputs("Integer", {"FleaFood_Min", "FleaArmor_Min", "FleaFood_Max", "FleaArmor_Max",
                     "FleaMedical_Min", "FleaSpec_Min", "FleaMedical_Max", "FleaSpec_Max",
                     "FleaWeapons_Min", "FleaVests_Min", "FleaKeys_Min", "FleaWeapons_Max",
                     "FleaVests_Max", "FleaKeys_Max"})

DynamicOffersForm ==
       Inputs("Integer", {"ExpireThreshold", "BundleOfferChance", "BarterChance",
                          "Stack_min", "PerOffer_min", "Stack_max", "PerOffer_max",
                          "Eurooffers", "Dollaroffers", "Roubleoffers", "NonStack_min",
                          "Time_min", "NonStack_max", "Time_max"})
  \cup Inputs("Float", {"Price_min", "Price_max"})

FleamarketForm ==
       Inputs("Toggle", {"EnableFleamarket", "EnableFleaConditions", "EnablePlayerOffers",
                         "FleaFIR", "FleaNoFIRSell", "EventOffers", "OverrideOffers",
                         "DisableBSGList", "TieredFlea"})
  \cup Inputs("Integer", {"SellOffersAmount", "FleaMarketLevel", "Tradeoffer_max",
                          "Tradeoffer_min", "Sell_chance"})
  \cup Inputs("Float", {"Sell_mult", "Rep_loss", "Rep_gain", "FeesMult"})
  \cup Under({"FleaConditions"}, FleaConditionsForm)
  \cup Under({"DynamicOffers"}, DynamicOffersForm)

RepairBoxForm ==
       Inputs("Toggle", {"NoRandomRepair", "OpGunRepair", "OpArmorRepair"})
  \cup Inputs("Float", {"ArmorSkillMult", "WeaponMaintenanceSkillMult",
                        "IntellectSkillMultWeaponKit", "IntellectSkillMultArmorKit",
                        "IntellectSkillLimitTraders", "IntellectSkillLimitKit",
                        "RepairMult"})

ServicesForm ==
       Inputs("Toggle", {"EnableServices", "EnableHealMarkup", "EnableInsurance",
                         "EnableTimeOverride", "EnableRepair", "ClothesAnySide",
                         "ClothesLevelUnlock", "ClothesFree", "ScavClothes"})
  \cup Inputs("Integer", {"FreeHealLvl", "FreeHealRaids", "ReturnChancePrapor",
                          "ReturnChanceTherapist", "InsuranceInterval",
                          "InsuranceTimeOverride", "InsuranceAttachmentChance",
                          "TherapistStorageTime", "PraporStorageTime", "Prapor_Max",
                          "Prapor_Min", "Therapist_Max", "Therapist_Min"})
  \cup Inputs("Float", {"TherapistLvl1", "TherapistLvl2", "TherapistLvl3",
                        "TherapistLvl4", "InsuranceMultTherapistLvl1",
                        "InsuranceMultTherapistLvl2", "InsuranceMultTherapistLvl3",
                        "InsuranceMultTherapistLvl4", "InsuranceMultPraporLvl1",
                        "InsuranceMultPraporLvl2", "InsuranceMultPraporLvl3",
                        "InsuranceMultPraporLvl4"})
  \cup Under({"RepairBox"}, RepairBoxForm)

DailyQuestsForm ==
       Inputs("Integer", {"Types", "Reroll", "Access", "QuestAmount", "Lifespan"})
  \cup Inputs("Text", {"Levels", "Experience", "Reputation", "ItemsReward", "Roubles",
                       "GPcoins", "SkillChance", "SkillPoint"})

LevelRangesForm ==
  Inputs("Integer", {"MinKills", "MaxKills", "MinItems", "MaxItems", "MinExtracts",
                     "MaxExtracts", "MinSpecExits", "MaxSpecExits"})

QuestsForm ==
       Inputs("Toggle", {"EnableQuests", "EnableQuestsMisc", "QuestRepToZero"})
  \cup Inputs("Float", {"QuestCostMult"})
  \cup Under({"DailyQuests", "WeeklyQuests", "ScavQuests"}, DailyQuestsForm)
  \cup Under({"DailyQuests", "WeeklyQuests", "ScavQuests"},
             Under({"LR1", "LR2", "LR3"}, LevelRangesForm))

PocketsForm ==
       Inputs("Toggle", {"SpecGKeychain", "SpecSimpleWallet", "SpecWZWallet",
                         "SpecKeycardHolder", "SpecKeytool", "SpecInjectorCase"})
  \cup Inputs("Integer", {"SpecSlots", "FirstWidth", "FirstHeight", "SecondWidth",
                          "SecondHeight", "ThirdWidth", "ThirdHeight", "FourthWidth",
                          "FourthHeight"})

CaseForm ==
       Inputs("Integer", {"Width", "Height"})
  \cup Inputs("Toggle", {"Filter"})

CsmForm ==
       Inputs("Toggle", {"EnableCSM", "EnableCases", "EnableSecureCases", "CustomPocket"})
  \cup Under({"Pockets"}, PocketsForm)
  \cup Under({"Cases"},
             Under({"GKeychain", "KeycardHolderCase", "InjectorCase", "Holodilnick",
                    "PistolCase", "DocumentsCase", "Keytool", "SiccCase",
                    "ThiccWeaponCase", "ThiccItemsCase", "MedicineCase", "DogtagCase",
                    "MagazineCase", "AmmunitionCase", "WeaponCase", "ItemsCase",
                    "GrenadeCase", "WZWallet", "SimpleWallet", "MoneyCase", "LuckyScav",
                    "StreamerCase", "ArmorPlateCase", "KeysCase"},
                   CaseForm))
  \cup Under({"SecureContainers"},
             Under({"Alpha", "Beta", "Epsilon", "Gamma", "GammaTUE", "Kappa",
                    "DesecratedKappa", "Dev", "WaistPouch"}, CaseForm))

ScavPocketsForm ==
  Inputs("Integer", {"FirstWidth", "FirstHeight", "SecondWidth", "SecondHeight",
                     "ThirdWidth", "ThirdHeight", "FourthWidth", "FourthHeight"})

ScavHealthForm ==
  Inputs("Integer", {"Head", "Chest", "Stomach", "LeftArm", "RightArm", "LeftLeg",
                     "RightLeg"})

ScavStatsForm == Inputs("Integer", {"MaxHydration", "MaxEnergy"})

ScavForm ==
       Inputs("Toggle", {"EnableScav", "HostileBosses", "FriendlyBosses",
                         "ScavCustomPockets", "ScavLab", "FriendlyScavs", "HostileScavs",
                         "EnableScavHealth", "EnableStats"})
  \cup Inputs("Float", {"CarBaseStanding", "StandingFriendlyKill", "StandingPMCKill"})
  \cup Inputs("Integer", {"ScavTimer"})
  \cup Under({"SCAVPockets"}, ScavPocketsForm)
  \cup Under({"Health"}, ScavHealthForm)
  \cup Under({"ScavStats"}, ScavStatsForm)

AiChanceForm ==
       Inputs("Integer", {"Reshala", "Killa", "Sanitar", "Glukhar", "Shturman", "Tagilla",
                          "Rogue", "CultistGroundZero", "CultistWoods", "CultistFactory",
                          "RaiderReserve", "RaiderLab", "Trio", "CultistShoreline",
                          "CultistCustoms", "Zryachiy", "TrioWoods", "TrioShoreline",
                          "TrioLighthouse", "TagillaNight", "Kaban", "PartisanLighthouse",
                          "PartisanWoods", "PartisanShoreline", "PartisanCustoms",
                          "KolontayGZ", "KolontayStreets"})
  \cup Inputs("Toggle", {"DisableWeeklyBoss", "ForcePartisan"})

BotDurabilityForm ==
  Inputs("Integer", {"ArmorMin", "ArmorMax", "WeaponMin", "WeaponMax"})

BotsForm ==
       Inputs("Toggle", {"EnableBots"})
  \cup Under({"AIChance"}, AiChanceForm)
  \cup Under({"PMC", "SCAV", "Boss", "Follower", "Rogue", "Raider", "Marksman"},
             BotDurabilityForm)

PmcChanceForm ==
  Inputs("Integer", {"PMCWepEnhance", "HostilePMC", "HostileSamePMC", "PMCLooseWep",
                     "PMCAllNamePrefix", "PMCNamePrefix"})

PmcForm ==
       Inputs("Toggle", {"EnablePMC", "NameOverride", "NamesEnable", "ChancesEnable",
                         "DisableLowLevelPMC", "LootableMelee"})
  \cup Inputs("Integer", {"LevelUpMargin", "LevelDownMargin", "PMCRatio"})
  \cup Inputs("Textarea", {"PMCNameList"})
  \cup Under({"PMCChance"}, PmcChanceForm)

CustomForm ==
       Inputs("Toggle", {"EnableCustom", "DisableSPTFriend", "DisableCommando",
                         "DisablePMCMessages", "IDChanger"})
  \cup Inputs("Text", {"FleaMultID", "IDDefault", "IDParent", "IDFilter", "IDPrice",
                       "AddTraderAssort", "Blacklist"})

\* section_to_json and save_section know the sections by these names.
ConfigSections ==
  [items |-> Items,
   hideout |-> Hideout,
   traders |-> Traders,
   loot |-> Loot,
   player |-> Player,
   raids |-> Raids,
   fleamarket |-> Fleamarket,
   services |-> Services,
   quests |-> Quests,
   csm |-> Csm,
   scav |-> Scav,
   bots |-> Bots,
   pmc |-> Pmc,
   custom |-> Custom]

\* fields_for_section
FieldsForSection ==
  [items |-> ItemsForm,
   hideout |-> HideoutForm,
   traders |-> TradersForm,
   loot |-> LootForm,
   player |-> PlayerForm,
   raids |-> RaidsForm,
   fleamarket |-> FleamarketForm,
   services |-> ServicesForm,
   quests |-> QuestsForm,
   csm |-> CsmForm,
   scav |-> ScavForm,
   bots |-> BotsForm,
   pmc |-> PmcForm,
   custom |-> CustomForm]
=============================================================================
