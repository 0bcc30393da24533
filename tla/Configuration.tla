---------------------------- MODULE Configuration ---------------------------
(* The settings (config.py) and the routes that change them                      *)
(* (api/management.py).  A file or an environment is a function from the keys it *)
(* sets to their values; a key is a pair <<section, name>>.                      *)
EXTENDS FiniteSets

ApiKeys == {<<"exchange", "api_key">>, <<"exchange", "api_secret">>}
OtherSecrets ==
  {<<"notify", "telegram_bot_token">>, <<"dashboard", "auth_password">>, <<"mt5", "api_token">>}

\* The value that stands for a secret which is not shown.
Hidden == "hidden"

Without(file, keys) == [k \in DOMAIN file \ keys |-> file[k]]

\* What the first sets hides what the second sets, key by key.
Overlaid(first, second) ==
  [k \in DOMAIN first \cup DOMAIN second |-> IF k \in DOMAIN first THEN first[k] ELSE second[k]]

-----------------------------------------------------------------------------
(* Settings.load(): arguments, environment, secrets.yaml, config.yaml, defaults. *)

Effective(kwargs, env, secrets, yaml, defaults) ==
  Overlaid(kwargs, Overlaid(env, Overlaid(secrets, Overlaid(yaml, defaults))))

LoadSettings(env, secrets, yaml, defaults) == Effective(<<>>, env, secrets, yaml, defaults)

-----------------------------------------------------------------------------
(* The routes.                                                                  *)

\* _deep_merge: what is posted replaces what is there, key by key.
DeepMerge(base, updates) == Overlaid(updates, base)

\* POST /api/config: the new config.yaml.
SetConfig(yaml, updates) == DeepMerge(yaml, Without(updates, ApiKeys))

\* POST /api/keys: the new secrets.yaml, which holds nothing else; DELETE removes it.
SetKeys(key, secret) == [k \in ApiKeys |-> IF k = <<"exchange", "api_key">> THEN key ELSE secret]
DeleteKeys == <<>>

\* GET /api/config.
Redact(settings) ==
  [k \in DOMAIN settings |-> IF k \in ApiKeys \cup OtherSecrets THEN Hidden ELSE settings[k]]

-----------------------------------------------------------------------------
(* What the settings say.                                                       *)

\* pool_for: the symbols a model is trained with beside its own.
Fallback(primary) == IF primary = "BTC/USDT" THEN "ETH/USDT" ELSE "BTC/USDT"
PoolFor(primary, trainSymbols) ==
  IF trainSymbols = {} \/ trainSymbols # {primary} THEN trainSymbols \ {primary} ELSE {Fallback(primary)}

\* A model file is its metadata, the symbol and the timeframe it was trained for, NoMeta when it has
\* none, or NoModel.
NoModel == [symbol |-> "no model", timeframe |-> "no model"]
NoMeta == [symbol |-> "no metadata", timeframe |-> "no metadata"]

\* resolve_model: the symbol's own file, else the one strategy.model_path names.
ResolveModel(own, legacy) == IF own # NoModel THEN own ELSE legacy

\* _real_order_block_reason: why start() refuses real orders for a symbol, or "none".
BlockReason(model, symbol, timeframe) ==
  CASE model = NoModel -> "no trained model"
    [] model = NoMeta -> "model has no metadata"
    [] model \notin {NoModel, NoMeta} /\ model.symbol # symbol -> "model is for another symbol"
    [] model \notin {NoModel, NoMeta} /\ model.symbol = symbol /\ model.timeframe # timeframe -> "model timeframe"
    [] OTHER -> "none"

\* GET /api/model: real_ok, what the dashboard shows.
RealOk(model, symbol, timeframe) ==
  model # NoModel /\ model.symbol = symbol /\ model.timeframe = timeframe
=============================================================================
