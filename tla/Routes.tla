--------------------------------- MODULE Routes ---------------------------------
(***************************************************************************)
(* What the clients of src/trading/client.rs, src/broker/client.rs and     *)
(* src/data/historical.rs ask the transport to send for each route that is *)
(* a request of its own: the method, and whether the caller says that it   *)
(* may be repeated.  A route is the name of its method; one that walks a   *)
(* listing sends the same request for every page, and one that downloads   *)
(* has a retry loop of its own, which is that of a GET.                    *)
(***************************************************************************)

\* What RestClient::send is asked, by request and request_raw and by the wrappers
\* named for a method; send_void discards the answer.
Request(method, replay) == [method |-> method, replay |-> replay]
RequestRaw(method, replay) == Request(method, replay)
SendVoid(method) == RequestRaw(method, "ByMethod")

Get == [method |-> "GET", replay |-> "ByMethod"]
GetBytes == Get
Post == [method |-> "POST", replay |-> "ByMethod"]
Put == [method |-> "PUT", replay |-> "ByMethod"]
Patch == [method |-> "PATCH", replay |-> "ByMethod"]
Delete == [method |-> "DELETE", replay |-> "ByMethod"]

\* A bug to catch: liquidating is deleting.
DeleteEffectful_Delete == Delete

\* A DELETE that liquidates.
DeleteEffectful == [method |-> "DELETE", replay |-> "Never"]

Via(wrapper, names) == [name : names, sends : {wrapper}]

(***************************************************************************)
(* TradingClient.                                                          *)
(***************************************************************************)
TradingOrders ==
  Via(Post, {"submit_order"})
    \cup Via(Get, {"get_orders", "get_all_orders", "get_order_by_id", "get_order_by_client_id"})
    \cup Via(Patch, {"replace_order_by_id"})
    \cup Via(Delete, {"cancel_orders"})
    \cup Via(SendVoid("DELETE"), {"cancel_order_by_id"})

TradingPositions ==
  Via(Get, {"get_all_positions", "get_open_position"})
    \cup Via(DeleteEffectful, {"close_all_positions", "close_position"})
    \cup Via(SendVoid("POST"), {"exercise_options_position"})

TradingAccount ==
  Via(Get, {"get_account", "get_account_configurations", "get_portfolio_history",
            "get_account_activities"})
    \cup Via(Patch, {"set_account_configurations"})

TradingReference ==
  Via(Get, {"get_all_assets", "get_asset", "get_clock", "get_calendar"})

TradingWatchlists ==
  Via(Get, {"get_watchlists", "get_watchlist_by_id"})
    \cup Via(Post, {"create_watchlist", "add_asset_to_watchlist_by_id"})
    \cup Via(Put, {"update_watchlist_by_id"})
    \cup Via(Delete, {"remove_asset_from_watchlist_by_id"})
    \cup Via(SendVoid("DELETE"), {"delete_watchlist_by_id"})

TradingOptions ==
  Via(Get, {"get_corporate_announcements", "get_corporate_announcement_by_id",
            "get_option_contracts", "get_option_contract", "get_account_activities_by_type"})
    \cup Via(SendVoid("POST"), {"exercise_do_not_exercise"})

TradingWatchlistsByName ==
  Via(Get, {"get_watchlist_by_name", "get_market_calendar"})
    \cup Via(Request("PUT", "ByMethod"), {"update_watchlist_by_name"})
    \cup Via(Request("POST", "ByMethod"), {"add_asset_to_watchlist_by_name"})
    \cup Via(Delete, {"delete_watchlist_by_name"})

TradingLocates ==
  Via(Get, {"get_locates", "get_locate_by_id", "get_locate_quotes", "get_tokenization_requests",
            "get_tokenization_request", "get_tokenization_request_by_client_id"})
    \cup Via(Post, {"create_locate", "mint_token"})

TradingCryptoFunding ==
  Via(Get, {"get_crypto_wallets", "get_crypto_transfers", "get_crypto_transfer",
            "get_whitelisted_addresses", "estimate_transfer_fee"})
    \cup Via(Post, {"create_whitelisted_address"})
    \cup Via(Delete, {"delete_whitelisted_address"})

TradingRoutes ==
  UNION {TradingOrders, TradingPositions, TradingAccount, TradingReference,
         TradingWatchlists, TradingOptions, TradingWatchlistsByName, TradingLocates,
         TradingCryptoFunding}

(***************************************************************************)
(* BrokerClient.                                                           *)
(***************************************************************************)
BrokerAccounts ==
  Via(Get, {"get_account_by_id", "list_accounts", "get_all_accounts_positions"})
    \cup Via(Post, {"create_account"})
    \cup Via(SendVoid("POST"), {"close_account"})
    \cup Via(Patch, {"update_account"})

BrokerFunding ==
  Via(Post, {"create_ach_relationship_for_account", "create_bank_for_account",
             "create_transfer_for_account"})
    \cup Via(Get, {"get_ach_relationships_for_account", "get_banks_for_account"})
    \cup Via(SendVoid("DELETE"), {"delete_ach_relationship_for_account", "delete_bank_for_account"})

BrokerTransfers ==
  Via(Get, {"get_transfers_for_account", "get_all_transfers_for_account"})
    \cup Via(SendVoid("DELETE"), {"cancel_transfer_for_account"})

BrokerActivities ==
  Via(Get, {"get_account_activity_event", "get_account_activities",
            "get_all_account_activities"})

BrokerRecords ==
  Via(Get, {"get_cip_data_for_account_by_id", "get_trade_documents_for_account",
            "get_trade_document_for_account_by_id"})
    \cup Via(Post, {"upload_cip_data_for_account_by_id"})

BrokerDocuments ==
  Via(Get, {"download_trade_document_for_account_by_id"})
    \cup Via(SendVoid("POST"), {"upload_documents_to_account"})

BrokerPortfolios ==
  Via(Post, {"create_portfolio"})
    \cup Via(Get, {"get_all_portfolios", "get_portfolio_by_id"})
    \cup Via(Patch, {"update_portfolio_by_id"})
    \cup Via(SendVoid("DELETE"), {"inactivate_portfolio_by_id"})

BrokerSubscriptions ==
  Via(Post, {"create_subscription"})
    \cup Via(Get, {"get_subscriptions", "get_all_subscriptions", "get_subscription_by_id"})
    \cup Via(SendVoid("DELETE"), {"unsubscribe_account"})

BrokerRuns ==
  Via(Post, {"create_manual_run"})
    \cup Via(Get, {"get_runs", "get_all_runs", "get_run_by_id"})
    \cup Via(SendVoid("DELETE"), {"cancel_run_by_id"})

BrokerJournals ==
  Via(Post, {"create_journal", "create_batch_journal", "create_reverse_batch_journal"})
    \cup Via(Get, {"get_journals", "get_journal_by_id"})
    \cup Via(SendVoid("DELETE"), {"cancel_journal_by_id"})

BrokerPositions ==
  Via(Get, {"get_trade_account_by_id", "get_trade_configuration_for_account",
            "get_all_positions_for_account", "get_open_position_for_account"})
    \cup Via(DeleteEffectful, {"close_all_positions_for_account", "close_position_for_account"})
    \cup Via(SendVoid("POST"), {"exercise_options_position_for_account_by_id"})

BrokerOrders ==
  Via(Post, {"submit_order_for_account"})
    \cup Via(Get, {"get_orders_for_account", "get_all_orders_for_account",
                   "get_order_for_account_by_id", "get_order_for_account_by_client_id"})
    \cup Via(Patch, {"replace_order_for_account_by_id"})
    \cup Via(Delete, {"cancel_orders_for_account"})

BrokerOrdersRest ==
  Via(SendVoid("DELETE"), {"cancel_order_for_account_by_id"})
    \cup Via(Get, {"get_portfolio_history_for_account"})
    \cup Via(Patch, {"update_trade_configuration_for_account"})

BrokerWatchlists ==
  Via(Get, {"get_watchlists_for_account", "get_watchlist_for_account_by_id"})
    \cup Via(Post, {"create_watchlist_for_account", "add_asset_to_watchlist_for_account_by_id"})
    \cup Via(Put, {"update_watchlist_for_account_by_id"})
    \cup Via(Delete, {"remove_asset_from_watchlist_for_account_by_id"})
    \cup Via(SendVoid("DELETE"), {"delete_watchlist_from_account_by_id"})

BrokerReference ==
  Via(Get, {"get_all_assets", "get_asset", "get_corporate_announcements",
            "get_corporate_announcement_by_id", "get_clock", "get_calendar",
            "get_market_calendar"})
    \cup Via(GetBytes, {"get_logo"})

BrokerFixedIncome ==
  Via(Get, {"get_account_activities_by_type", "get_us_corporates", "get_us_treasuries",
            "get_entry_requirements"})

BrokerInstantFunding ==
  Via(Get, {"get_instant_funding", "get_instant_funding_by_id", "get_instant_funding_limits",
            "get_instant_funding_account_limits", "get_instant_funding_reports",
            "get_instant_funding_settlements", "get_instant_funding_settlement"})
    \cup Via(Post, {"create_instant_funding", "create_instant_funding_settlement"})
    \cup Via(SendVoid("DELETE"), {"cancel_instant_funding"})

BrokerJit ==
  Via(Get, {"get_jit_ledgers", "get_jit_ledger_balances", "get_jit_trading_limits",
            "get_jit_report", "get_jit_settlements", "get_jit_settlement", "get_fpsl_loans",
            "get_fpsl_tiers", "get_fpsl_analytics", "get_ipo_offerings", "get_ipo_offering"})
    \cup Via(Post, {"create_jit_settlement"})

BrokerReports ==
  Via(Get, {"get_eod_positions", "get_aggregate_positions", "get_eod_cash_interest",
            "get_apr_tiers", "get_oauth_client"})
    \cup Via(Post, {"authorize_oauth", "issue_oauth_token"})

BrokerFundingWallets ==
  Via(Post, {"batch_create_funding_wallets", "create_funding_wallet", "create_recipient_bank",
             "create_funding_wallet_withdrawal", "create_demo_funding"})
    \cup Via(Get, {"get_funding_wallet", "get_funding_details", "get_recipient_bank",
                   "get_funding_wallet_transfers", "get_funding_wallet_transfer"})
    \cup Via(Delete, {"delete_recipient_bank"})

BrokerOnboarding ==
  Via(Post, {"request_options_approval", "estimate_order"})
    \cup Via(SendVoid("POST"), {"do_not_exercise"})
    \cup Via(Get, {"get_options_approvals", "get_onfido_token", "get_country_info",
                   "get_ira_excess_contributions", "download_w8ben_document",
                   "get_trading_limits"})
    \cup Via(SendVoid("PATCH"), {"update_onfido_outcome"})

BrokerTokenization ==
  Via(Post, {"mint_token_for_account", "tokenization_mint_callback",
             "tokenization_redeem_callback"})
    \cup Via(Get, {"get_tokenization_requests_for_account",
                   "get_tokenization_request_for_account",
                   "get_tokenization_request_by_client_id_for_account",
                   "get_tokenization_request_by_issuer_id_for_account"})

BrokerCryptoWallets ==
  Via(Get, {"get_crypto_wallets_for_account", "get_crypto_transfers_for_account",
            "get_crypto_transfer_for_account", "get_whitelisted_addresses_for_account",
            "estimate_crypto_transfer_fee"})
    \cup Via(Post, {"create_crypto_transfer_for_account",
                    "create_whitelisted_address_for_account"})
    \cup Via(SendVoid("DELETE"), {"delete_whitelisted_address_for_account"})

BrokerRoutes ==
  UNION {BrokerAccounts, BrokerFunding, BrokerTransfers, BrokerActivities,
         BrokerRecords, BrokerDocuments, BrokerPortfolios, BrokerSubscriptions,
         BrokerRuns, BrokerJournals, BrokerPositions, BrokerOrders, BrokerOrdersRest,
         BrokerWatchlists, BrokerReference, BrokerFixedIncome, BrokerInstantFunding,
         BrokerJit, BrokerReports, BrokerFundingWallets, BrokerOnboarding,
         BrokerTokenization, BrokerCryptoWallets}

(***************************************************************************)
(* The market data clients, where they do not go through the page loop.    *)
(***************************************************************************)
StockCodes == Via(Get, {"get_stock_exchange_codes", "get_stock_condition_codes"})

OptionCodes == Via(Get, {"get_option_exchange_codes", "get_option_condition_codes"})

Logo == Via(GetBytes, {"get_logo"})

NewsPage == Via(Get, {"get_news_page"})

Screener == Via(Get, {"get_most_actives", "get_market_movers"})

DataRoutes == UNION {StockCodes, OptionCodes, Logo, NewsPage, Screener}

\* What the routes ask of the transport.
Wrapped == {r.sends : r \in TradingRoutes \cup BrokerRoutes \cup DataRoutes}

(***************************************************************************)
(* The routes that do more when they are done again: they submit or        *)
(* replace an order, liquidate, exercise, or move cash or assets.          *)
(***************************************************************************)
Acting ==
  {"submit_order", "replace_order_by_id", "close_all_positions", "close_position",
   "exercise_options_position", "create_locate", "mint_token",
   "submit_order_for_account", "replace_order_for_account_by_id",
   "close_all_positions_for_account", "close_position_for_account",
   "exercise_options_position_for_account_by_id", "mint_token_for_account",
   "create_transfer_for_account", "create_crypto_transfer_for_account",
   "create_journal", "create_batch_journal", "create_reverse_batch_journal",
   "create_manual_run", "create_instant_funding", "create_instant_funding_settlement",
   "create_jit_settlement", "create_funding_wallet_withdrawal", "create_demo_funding"}
=============================================================================
