\* Does a click use the article the client shows in that row?
CONSTANTS
  click1 = click1
  click2 = click2
  trader1 = trader1
  trader2 = trader2
  hunt = hunt
  daily = daily
  rat = rat
  wolf = wolf
  helm = helm
  cap = cap
  ring = ring
  None = None
  NoOne = NoOne
  Reqs = {click1, click2}
  Category <- CategoryDef
  Chests = {1}
  Runes = {2, 3}
  Elixirs = {}
  Potions = {4}
  Rows = 4
  MaxGrants = 3
  Quests = {hunt, daily}
  Replay = {daily}
  Count <- CountDef
  Cooldown <- CooldownDef
  Mobs = {rat, wolf}
  Credits <- CreditsDef
  MaxTurnIns = 3
  Traders = {trader1, trader2}
  Wearables = {helm, cap, ring}
  Slots = {"head", "hand"}
  SlotOf <- SlotOfDef
  Price <- PriceDef
  SellPrice <- SellPriceDef
  MaxMoney = 3
  Purse = 3
  MaxItems = 4
  MaxEarned = 6
  archer = archer
  brute = brute
  altar1 = altar1
  altar2 = altar2
  Heroes = {archer, brute}
  Creatures = {altar1, altar2}
  Altars = {altar1, altar2}
  Side <- SideDef
  Shooters = {archer}
  Bots = {brute}
  Revivers = {brute}
  Thorny = {brute}
  FragLimit = 2
  Modes = {"arena", "dota"}
  StunsMidSwing = FALSE
  MaxSeq <- MaxSeqDef
  MaxDeaths = 2
  voodoo = voodoo
  cabala = cabala
  flesh = flesh
  devour = devour
  ghoul = ghoul
  spin = spin
  dance = dance
  creep1 = creep1
  creep2 = creep2
  rival = rival
  Nobody = Nobody
  Skills = {voodoo, cabala, flesh, devour, ghoul, spin, dance}
  Kits = {{voodoo, cabala}, {flesh, ghoul}, {devour}, {spin, dance}}
  Aimed = {cabala, flesh, devour, dance}
  SelfCast = {spin}
  Instant = {spin}
  Flying = {flesh}
  Channels = {cabala, devour, spin}
  Interruptible = {cabala}
  Sustained = {spin}
  Walking = {spin}
  Toggles = {ghoul}
  Prey = {creep1, creep2}
  Rivals = {rival}
  Parts = {"bag"}
SYMMETRY Perms
SPECIFICATION Spec
INVARIANT UsesWhatIsShown
CHECK_DEADLOCK FALSE
